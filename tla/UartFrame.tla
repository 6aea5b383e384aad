------------------------------- MODULE UartFrame -------------------------------
(* The frame both UARTs use (uart.sv, uart_rx.sv): a start bit, DataBits data  *)
(* bits with the lowest first, a stop bit, each BaudDiv clock cycles long. A   *)
(* byte is the sequence of its bits, lowest first.                             *)
EXTENDS Integers, Sequences

CONSTANTS BaudDiv, DataBits

ASSUME FrameAssumption == BaudDiv \in Nat \ {0} /\ DataBits \in Nat \ {0}

UartByte == [1 .. DataBits -> {0, 1}]
UartState == {"IDLE", "START", "DATA", "STOP"}
ZeroByte == [k \in 1 .. DataBits |-> 0]
================================================================================
