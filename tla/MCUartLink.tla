----------------------------- MODULE MCUartLink -----------------------------
(* Three bytes into a FIFO of one: the second may find it full, the third   *)
(* is sent to a receiver that must have recovered.                          *)
EXTENDS UartLink

MCPoly == {0, 3, 4, 7, 8, 10, 14}
MCMessages == {<<{}, {0, 2, 4, 6}, {7}>>, <<0 .. 7>>}
=============================================================================
