------------------------------ MODULE MCUartRx ------------------------------
(* A ring of four slots behind a FIFO of three, fed by seven bytes: both   *)
(* can fill up, the ring indices wrap and the trigger level is below full. *)
EXTENDS UartRx

CONSTANTS b1, nul

MCByte == {b1, nul}
=============================================================================
