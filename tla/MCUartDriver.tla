------------------------------ MODULE MCUartDriver -----------------------------
(* A small instance of UartDriver: NUL, two letters and both line ends. With   *)
(* MinGap = 2 a byte comes with every turn of the loop of uart_gets, which is  *)
(* three accesses long. At the baud rate of uart.sv a byte takes 8680 cycles.  *)
EXTENDS UartDriver

MCBitResult(op, a, b) == 0
MCRxBytes == {0, 1, 2, 10, 13}
MCLineEnds == {10, 13}
MCNoRx == -1
================================================================================
