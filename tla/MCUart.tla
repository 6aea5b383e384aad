--------------------------------- MODULE MCUart ---------------------------------
(* TLC instances of UartLink: short bytes and a few clock cycles per bit.      *)
EXTENDS UartLink

AllBytes == UartByte
================================================================================
