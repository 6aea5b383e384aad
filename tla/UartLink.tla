------------------------------- MODULE UartLink --------------------------------
(* A transmitter wired to a receiver: the loopback of uart_tb.sv, or two boards*)
(* whose oscillators differ. A slip is a clock cycle that one side has and the *)
(* other does not; each frame has at most MaxSlips of them.                    *)
(* Either board may be reset while the other goes on.                          *)
EXTENDS UartTx, UartRx

CONSTANTS
    TxBytes,    \* the bytes that may be sent
    MaxSlips    \* clock cycles the two sides may drift apart within a frame

ASSUME LinkAssumption == TxBytes \subseteq UartByte /\ MaxSlips \in Nat

VARIABLES
    slips,      \* slips since the receiver saw the frame's falling edge
    torn,       \* one side was reset and the two may be out of step since
    inFlight,   \* history: bytes accepted in step, not yet delivered
    latched     \* history: the byte accepted last

linkVars == <<txVars, rxVars, slips, torn, inFlight, latched>>

LinkTypeOK ==
    /\ TxTypeOK /\ RxTypeOK
    /\ slips \in 0 .. MaxSlips
    /\ torn \in BOOLEAN
    /\ inFlight \in Seq(TxBytes)
    /\ latched \in UartByte

\* The history's bound, one more than AtMostOneFrameBehind finds to be needed.
MaxInFlight == 2

Sends(start) == txState = "IDLE" /\ start
DeliversNext == rxState = "STOP" /\ rxState' = "IDLE" /\ rxValid'

\* Both sides wait and the line is high: they are in step, whatever went before.
Quiet == txState = "IDLE" /\ rxState = "IDLE" /\ tx = 1

History(start, byte) ==
    /\ torn' = (torn /\ ~Quiet)
    /\ latched' = IF Sends(start) THEN byte ELSE latched
    /\ inFlight' =
         LET left == IF DeliversNext /\ inFlight # <<>> THEN Tail(inFlight) ELSE inFlight
         IN  IF torn' THEN <<>>
             ELSE IF Sends(start) /\ Len(left) < MaxInFlight THEN Append(left, byte)
             ELSE left

\* Both sides have a clock cycle.
Together(start, byte) ==
    /\ TxTick(start, byte)
    /\ RxTick(tx)
    /\ slips' = IF rxState = "IDLE" THEN 0 ELSE slips
    /\ History(start, byte)

\* Only one side has: the oscillators drift.
TxAhead(start, byte) ==
    /\ rxState # "IDLE" /\ slips < MaxSlips
    /\ slips' = slips + 1
    /\ TxTick(start, byte)
    /\ UNCHANGED rxVars
    /\ History(start, byte)

RxAhead ==
    /\ rxState # "IDLE" /\ slips < MaxSlips
    /\ slips' = slips + 1
    /\ RxTick(tx)
    /\ UNCHANGED txVars
    /\ History(FALSE, latched)

\* The reset button of the only board, of the sending board, of the receiving one.
LinkReset ==
    /\ TxReset /\ RxReset
    /\ slips' = 0 /\ torn' = FALSE /\ inFlight' = <<>>
    /\ UNCHANGED latched

SenderReset ==
    /\ TxReset
    /\ torn' = TRUE /\ inFlight' = <<>>
    /\ UNCHANGED <<rxVars, slips, latched>>

ReceiverReset ==
    /\ RxReset
    /\ torn' = TRUE /\ inFlight' = <<>> /\ slips' = 0
    /\ UNCHANGED <<txVars, latched>>

LinkInit ==
    /\ TxInit /\ RxInit
    /\ slips = 0 /\ torn = FALSE /\ inFlight = <<>> /\ latched = ZeroByte

\* The transmitter's user starts it only when it is not busy (uart_tx_start).
Uses(start) == start => ~txBusy

Tick ==
    \/ \E start \in BOOLEAN, byte \in TxBytes :
          Uses(start) /\ (Together(start, byte) \/ TxAhead(start, byte))
    \/ RxAhead

LinkNext == Tick \/ LinkReset \/ SenderReset \/ ReceiverReset
LinkSpec == LinkInit /\ [][LinkNext]_linkVars
LinkFairSpec == LinkSpec /\ WF_linkVars(Tick)
-------------------------------------------------------------------------------
(* Properties.                                                                 *)

\* As long as the two sides are in step every valid pulse carries the oldest byte
\* that was sent and not yet received: nothing is invented, corrupted, repeated,
\* reordered, and (since the receiver is never more than a frame behind) lost. A
\* reset of one side in mid-frame breaks this until both have been idle together,
\* and no longer.
BytesArriveIntact ==
    [][DeliversNext /\ ~torn => inFlight # <<>> /\ rxData' = Head(inFlight)]_linkVars

\* The receiver is done with a frame before the next one is accepted, even when
\* frames follow each other without a pause, and it never misses a start bit: while
\* it waits, a byte is under way only until the line has fallen.
AtMostOneFrameBehind ==
    /\ Len(inFlight) <= 1
    /\ inFlight # <<>> /\ rxState = "IDLE" => txState = "START" /\ txBaud <= 1

\* Every byte accepted by the transmitter is delivered, unless a reset of either
\* side gives it up: also the first bytes after one, once the two are in step.
EveryByteArrives == (inFlight # <<>>) ~> (inFlight = <<>> \/ rxValid)

\* To its user the transmitter is the port the processor is specified against:
\* busy exactly from the start pulse to the end of the stop bit, and never for ever.
Port == INSTANCE TxPort WITH tx_busy <- txBusy, tx_byte <- latched
ImplementsTxPort == Port!PortSpec
================================================================================
