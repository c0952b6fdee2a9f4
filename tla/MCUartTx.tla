------------------------------ MODULE MCUartTx ------------------------------
(* Instances of UartTx: a ring of 5 bytes in front of a FIFO of 3, so that *)
(* messages fold around the end, overfill the FIFO and overfill the ring.  *)
EXTENDS UartTx

MCLens == {0, 1, 2, 4, 6}
MCLensSmall == {0, 1, 2, 3, 4}
AllWindows == Labels
SafeWindows == Labels \ {"store"}
=============================================================================
