-------------------------------- MODULE MCUart --------------------------------
(***************************************************************************)
(* Instances of the serial port: buffers of four cells, which three bytes  *)
(* fill, and enough bytes for head and tail to go around.                  *)
(***************************************************************************)
EXTENDS Uart

CONSTANTS s1, r1

Nobody == {}
OneSender  == {s1}
OneReceiver == {r1}
=============================================================================
