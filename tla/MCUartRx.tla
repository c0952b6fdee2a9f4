------------------------------ MODULE MCUartRx ------------------------------
(* A ring of 5 bytes behind a FIFO of 3, a sender that keeps at most 4 in  *)
(* flight, which always fits, and one that never waits.                    *)
EXTENDS UartRx

BothSenders == {4, 9}
=============================================================================
