-------------------------------- MODULE UartRx ---------------------------------
(* The UART receiver (uart_rx.sv): it waits for the line to fall, looks again  *)
(* half a bit later, then samples once per bit.                                *)
EXTENDS UartFrame

VARIABLES
    rxState, rxValid, rxData,
    rxBaud,     \* baud_counter
    rxBit,      \* bit_counter
    rxShift     \* shift_reg

rxVars == <<rxState, rxValid, rxData, rxBaud, rxBit, rxShift>>

RxTypeOK ==
    /\ rxState \in UartState
    /\ rxValid \in BOOLEAN
    /\ rxData \in UartByte
    /\ rxBaud \in 0 .. BaudDiv - 1
    /\ rxBit \in 0 .. DataBits - 1
    /\ rxShift \in UartByte

RxBaudDone == rxBaud = BaudDiv - 1
RxCount == rxBaud' = IF RxBaudDone THEN 0 ELSE rxBaud + 1

RxIdle(line) ==
    /\ rxState = "IDLE"
    /\ rxValid' = FALSE /\ rxBaud' = 0 /\ rxBit' = 0
    /\ rxState' = IF line = 0 THEN "START" ELSE "IDLE"
    /\ UNCHANGED <<rxData, rxShift>>

\* Faulty variant of RxMiddle: the whole start bit is waited for.
RxMiddleAtEnd == rxBaud = BaudDiv - 1

\* In the middle of the start bit; a line that is high again was a false start.
RxMiddle == rxBaud = BaudDiv \div 2

RxStartBit(line) ==
    /\ rxState = "START"
    /\ \/ /\ RxMiddle /\ line = 0
          /\ rxState' = "DATA" /\ rxBaud' = 0 /\ rxBit' = 0
       \/ /\ RxMiddle /\ line = 1
          /\ rxState' = "IDLE" /\ UNCHANGED <<rxBaud, rxBit>>
       \/ /\ ~RxMiddle
          /\ rxBaud' = rxBaud + 1 /\ UNCHANGED <<rxState, rxBit>>
    /\ UNCHANGED <<rxValid, rxData, rxShift>>

RxDataBit(line) ==
    /\ rxState = "DATA"
    /\ RxCount
    /\ rxShift' = IF RxBaudDone THEN [rxShift EXCEPT ![rxBit + 1] = line] ELSE rxShift
    /\ rxState' = IF RxBaudDone /\ rxBit = DataBits - 1 THEN "STOP" ELSE "DATA"
    /\ rxBit' = IF RxBaudDone /\ rxBit # DataBits - 1 THEN rxBit + 1 ELSE rxBit
    /\ UNCHANGED <<rxValid, rxData>>

\* Faulty variant of RxStopBit: the polarity of the stop bit is wrong.
RxStopBitLow(line) ==
    /\ rxState = "STOP"
    /\ RxCount
    /\ rxData' = IF RxBaudDone /\ line = 0 THEN rxShift ELSE rxData
    /\ rxValid' = (rxValid \/ (RxBaudDone /\ line = 0))
    /\ rxState' = IF RxBaudDone THEN "IDLE" ELSE "STOP"
    /\ UNCHANGED <<rxBit, rxShift>>

\* A frame whose stop bit is low is dropped without notice.
RxStopBit(line) ==
    /\ rxState = "STOP"
    /\ RxCount
    /\ rxData' = IF RxBaudDone /\ line = 1 THEN rxShift ELSE rxData
    /\ rxValid' = (rxValid \/ (RxBaudDone /\ line = 1))
    /\ rxState' = IF RxBaudDone THEN "IDLE" ELSE "STOP"
    /\ UNCHANGED <<rxBit, rxShift>>

\* One clock cycle of the receiver; line is its input.
RxTick(line) == RxIdle(line) \/ RxStartBit(line) \/ RxDataBit(line) \/ RxStopBit(line)

RxInit ==
    /\ rxState = "IDLE" /\ rxValid = FALSE /\ rxData = ZeroByte
    /\ rxBaud = 0 /\ rxBit = 0 /\ rxShift = ZeroByte

RxReset ==
    /\ rxState' = "IDLE" /\ rxValid' = FALSE /\ rxData' = ZeroByte
    /\ rxBaud' = 0 /\ rxBit' = 0 /\ rxShift' = ZeroByte
================================================================================
