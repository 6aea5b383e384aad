-------------------------------- MODULE UartTx ---------------------------------
(* The UART transmitter (uart.sv), one action per state of its machine.        *)
EXTENDS UartFrame

VARIABLES
    txState, tx, txBusy,
    txBaud,     \* baud_counter
    txBit,      \* bit_counter
    txShift     \* shift_reg

txVars == <<txState, tx, txBusy, txBaud, txBit, txShift>>

TxTypeOK ==
    /\ txState \in UartState
    /\ tx \in {0, 1}
    /\ txBusy \in BOOLEAN
    /\ txBaud \in 0 .. BaudDiv - 1
    /\ txBit \in 0 .. DataBits - 1
    /\ txShift \in UartByte

\* Faulty variant of ShiftRight: the register shifts towards the high bits.
ShiftLeft(byte) == [k \in 1 .. DataBits |-> IF k = 1 THEN 0 ELSE byte[k - 1]]

\* shift_reg >> 1
ShiftRight(byte) == [k \in 1 .. DataBits |-> IF k = DataBits THEN 0 ELSE byte[k + 1]]

TxBaudDone == txBaud = BaudDiv - 1

\* Faulty variant of TxCount: the counter is not cleared at the end of a bit.
TxCountOn == txBaud' = txBaud + 1
TxCount == txBaud' = IF TxBaudDone THEN 0 ELSE txBaud + 1

\* Faulty variant of TxIdle: busy rises one cycle after the start pulse.
TxIdleBusyLate(start, byte) ==
    /\ txState = "IDLE"
    /\ tx' = 1 /\ txBaud' = 0 /\ txBit' = 0
    /\ txState' = IF start THEN "START" ELSE "IDLE"
    /\ txShift' = IF start THEN byte ELSE txShift
    /\ txBusy' = FALSE

TxIdle(start, byte) ==
    /\ txState = "IDLE"
    /\ tx' = 1 /\ txBaud' = 0 /\ txBit' = 0
    /\ txState' = IF start THEN "START" ELSE "IDLE"
    /\ txShift' = IF start THEN byte ELSE txShift
    /\ txBusy' = start

TxStartBit ==
    /\ txState = "START"
    /\ tx' = 0
    /\ TxCount
    /\ txState' = IF TxBaudDone THEN "DATA" ELSE "START"
    /\ UNCHANGED <<txBusy, txBit, txShift>>

TxDataBit ==
    /\ txState = "DATA"
    /\ tx' = txShift[1]
    /\ TxCount
    /\ txShift' = IF TxBaudDone THEN ShiftRight(txShift) ELSE txShift
    /\ txBit' = IF TxBaudDone THEN (txBit + 1) % DataBits ELSE txBit
    /\ txState' = IF TxBaudDone /\ txBit = DataBits - 1 THEN "STOP" ELSE "DATA"
    /\ UNCHANGED txBusy

TxStopBit ==
    /\ txState = "STOP"
    /\ tx' = 1
    /\ TxCount
    /\ txState' = IF TxBaudDone THEN "IDLE" ELSE "STOP"
    /\ txBusy' = (txBusy /\ ~TxBaudDone)
    /\ UNCHANGED <<txBit, txShift>>

\* One clock cycle of the transmitter; start and byte are its inputs.
TxTick(start, byte) == TxIdle(start, byte) \/ TxStartBit \/ TxDataBit \/ TxStopBit

TxInit ==
    /\ txState = "IDLE" /\ tx = 1 /\ txBusy = FALSE
    /\ txBaud = 0 /\ txBit = 0 /\ txShift = ZeroByte

TxReset ==
    /\ txState' = "IDLE" /\ tx' = 1 /\ txBusy' = FALSE
    /\ txBaud' = 0 /\ txBit' = 0 /\ txShift' = ZeroByte
================================================================================
