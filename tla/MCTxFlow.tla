------------------------------ MODULE MCTxFlow ------------------------------
(* A ring of 4 bytes whose low water mark is 2; strings of at most 2 bytes. *)
EXTENDS TxFlow

MCLens == 0..5
MCSockLens == {0, 1, 2}
MCOtherLens == {1, 3, 5}
AllWindows == Labels
=============================================================================
