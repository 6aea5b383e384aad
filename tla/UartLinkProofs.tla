----------------------------- MODULE UartLinkProofs -----------------------------
(* The receiver of uart_rx.sv reads every frame of uart.sv right, for any byte *)
(* length, any number of clock cycles per bit, and any drift up to Tolerance.  *)
(* The invariant places both sides in the frame: where the receiver is, the    *)
(* transmitter is at most slips cycles away, and so is never in another bit    *)
(* when a sample is taken.                                                     *)
EXTENDS UartLink, SequenceTheorems, TLAPS

\* What the two sides may drift apart within a frame: half a bit, less the cycles by
\* which the receiver sees the line fall late. At the 868 cycles per bit of uart.sv
\* this is 432 cycles, in a frame of 8680.
Tolerance == MaxSlips + 2 <= BaudDiv - (BaudDiv \div 2)
-------------------------------------------------------------------------------
(* Places in the frame: the start bit is 0, the data bits 1 to DataBits, then  *)
(* the stop bit; one place further the transmitter is idle.                    *)

StopPlace == DataBits + 1

TxPlace ==
    IF txState = "START" THEN 0
    ELSE IF txState = "DATA" THEN 1 + txBit
    ELSE IF txState = "STOP" THEN StopPlace
    ELSE StopPlace + 1

RxPlace == IF rxState = "START" THEN 0 ELSE IF rxState = "DATA" THEN 1 + rxBit ELSE StopPlace

\* Cycles since the receiver's last sample; its start bit is cut short, so that the
\* first sample, too, is taken at the end of a whole bit.
RxPhase == IF rxState = "START" THEN rxBaud + BaudDiv - (BaudDiv \div 2) - 1 ELSE rxBaud

\* The level of the line in a place of the frame of the byte accepted last.
Wire(place) ==
    IF place = 0 THEN 0 ELSE IF place \in 1 .. DataBits THEN latched[place] ELSE 1

\* The transmitter's cycles in the frame less the receiver's and the two by which it
\* sees the line fall late, when it is places places behind.
Lead(places) == txBaud - RxPhase - (BaudDiv \div 2) - 3 + places * BaudDiv
InStep(places) ==
    /\ TxPlace = RxPlace + places - 1
    /\ -slips <= Lead(places) /\ Lead(places) <= slips
-------------------------------------------------------------------------------
(* The invariant.                                                              *)

\* The transmitter alone: the line is the frame of the byte accepted last.
TxFollows ==
    /\ txBusy <=> txState # "IDLE"
    /\ txState = "IDLE" => txBaud = 0
    /\ txState \in {"IDLE", "START", "STOP"} => txBit = 0
    /\ tx = Wire(IF txBaud = 0 THEN TxPlace - 1 ELSE TxPlace)
    /\ txState = "START" => txShift = latched
    /\ txState = "DATA" => \A k \in 1 .. DataBits - txBit : txShift[k] = latched[k + txBit]

\* The receiver alone.
RxFollows ==
    /\ rxState # "IDLE" => ~rxValid
    /\ rxState = "START" => rxBaud <= BaudDiv \div 2 /\ rxBit = 0
    /\ rxState = "STOP" => rxBit = DataBits - 1

\* The two together: both wait; the frame has begun; it is being received; the
\* receiver has it and the transmitter is not done with its stop bit.
Waiting == rxState = "IDLE" /\ txState = "IDLE" /\ inFlight = <<>>
Starting == rxState = "IDLE" /\ txState = "START" /\ txBaud <= 1 /\ inFlight = <<latched>>
Receiving ==
    /\ rxState # "IDLE" /\ inFlight = <<latched>>
    /\ InStep(0) \/ InStep(1) \/ InStep(2)
    /\ \A k \in 1 .. DataBits : k < RxPlace => rxShift[k] = latched[k]
Ending == rxState = "IDLE" /\ txState = "STOP" /\ txBaud >= 1 /\ inFlight = <<>>

Tracking == Waiting \/ Starting \/ Receiving \/ Ending

\* What holds at any drift, and what the tolerance adds.
SideInv ==
    /\ LinkTypeOK /\ TxFollows /\ RxFollows
    /\ torn => inFlight = <<>>
LinkInv == SideInv /\ (~torn => Tracking)
-------------------------------------------------------------------------------
(* Each side alone.                                                            *)

LEMMA FrameSizes ==
    /\ BaudDiv \in Nat /\ DataBits \in Nat /\ BaudDiv >= 1 /\ DataBits >= 1
    /\ BaudDiv \div 2 \in Nat /\ BaudDiv \div 2 <= BaudDiv - 1
    /\ 2 * (BaudDiv \div 2) <= BaudDiv /\ BaudDiv <= 2 * (BaudDiv \div 2) + 1
    /\ MaxSlips \in Nat /\ TxBytes \subseteq UartByte /\ ZeroByte \in UartByte
  BY FrameAssumption, LinkAssumption DEF ZeroByte, UartByte

LEMMA NextBit ==
    ASSUME NEW k \in 0 .. DataBits - 1
    PROVE  (k + 1) % DataBits = IF k = DataBits - 1 THEN 0 ELSE k + 1
  BY FrameSizes

LEMMA TxTickType ==
    ASSUME TxTypeOK, NEW start \in BOOLEAN, NEW byte \in UartByte, TxTick(start, byte)
    PROVE  TxTypeOK'
  <1>1. CASE TxIdle(start, byte)
    BY <1>1, FrameSizes DEF TxIdle, TxTypeOK, UartState
  <1>2. CASE TxStartBit
    BY <1>2, FrameSizes DEF TxStartBit, TxCount, TxBaudDone, TxTypeOK, UartState
  <1>3. CASE TxDataBit
    <2>1. txShift[1] \in {0, 1} /\ ShiftRight(txShift) \in UartByte
      BY FrameSizes DEF TxTypeOK, UartByte, ShiftRight
    <2>2. (txBit + 1) % DataBits \in 0 .. DataBits - 1
      BY NextBit, FrameSizes DEF TxTypeOK
    <2> QED
      BY <1>3, <2>1, <2>2, FrameSizes DEF TxDataBit, TxCount, TxBaudDone, TxTypeOK, UartState
  <1>4. CASE TxStopBit
    <2>1. txBusy' \in BOOLEAN
      BY <1>4 DEF TxStopBit
    <2> QED
      BY <1>4, <2>1, FrameSizes DEF TxStopBit, TxCount, TxBaudDone, TxTypeOK, UartState
  <1> QED
    BY <1>1, <1>2, <1>3, <1>4 DEF TxTick

LEMMA RxTickType ==
    ASSUME RxTypeOK, RxFollows, NEW line \in {0, 1}, RxTick(line) PROVE RxTypeOK' /\ RxFollows'
  <1>1. CASE RxIdle(line)
    <2>1. ~rxValid' /\ rxValid' \in BOOLEAN
      BY <1>1 DEF RxIdle
    <2>2. /\ rxState' \in {"IDLE", "START"} /\ rxBaud' = 0 /\ rxBit' = 0
          /\ rxData' = rxData /\ rxShift' = rxShift
      BY <1>1 DEF RxIdle
    <2> QED
      BY <2>1, <2>2, FrameSizes DEF RxTypeOK, RxFollows, UartState
  <1>2. CASE RxStartBit(line)
    BY <1>2, FrameSizes DEF RxStartBit, RxMiddle, RxTypeOK, RxFollows, UartState
  <1>3. CASE RxDataBit(line)
    <2>1. rxShift' \in UartByte
      BY <1>3 DEF RxDataBit, RxTypeOK, UartByte
    <2> QED
      BY <1>3, <2>1, FrameSizes DEF RxDataBit, RxCount, RxBaudDone, RxTypeOK, RxFollows, UartState
  <1>4. CASE RxStopBit(line)
    <2>1. rxValid' \in BOOLEAN
      BY <1>4 DEF RxStopBit
    <2>2. ~RxBaudDone => ~rxValid'
      BY <1>4 DEF RxStopBit, RxFollows
    <2>3. /\ rxState' = IF RxBaudDone THEN "IDLE" ELSE "STOP"
          /\ rxBit' = rxBit /\ rxBit = DataBits - 1
          /\ rxShift' = rxShift /\ rxData' \in UartByte /\ rxBaud' \in 0 .. BaudDiv - 1
      BY <1>4, FrameSizes DEF RxStopBit, RxCount, RxBaudDone, RxTypeOK, RxFollows
    <2> QED
      BY <2>1, <2>2, <2>3, FrameSizes DEF RxTypeOK, RxFollows, UartState
  <1> QED
    BY <1>1, <1>2, <1>3, <1>4 DEF RxTick

LEMMA TxBusyFollows ==
    ASSUME TxFollows, NEW start \in BOOLEAN, NEW byte, TxTick(start, byte)
    PROVE  txBusy' <=> txState' # "IDLE"
  <1>1. CASE TxIdle(start, byte)
    BY <1>1 DEF TxIdle
  <1>2. CASE TxStartBit \/ TxDataBit
    <2>1. txState # "IDLE" /\ txState' # "IDLE" /\ txBusy' = txBusy
      BY <1>2 DEF TxStartBit, TxDataBit
    <2> QED
      BY <2>1 DEF TxFollows
  <1>3. CASE TxStopBit
    <2>1. txBusy
      BY <1>3 DEF TxStopBit, TxFollows
    <2>2. txBusy' <=> ~TxBaudDone
      BY <1>3, <2>1 DEF TxStopBit
    <2>3. txState' # "IDLE" <=> ~TxBaudDone
      BY <1>3 DEF TxStopBit
    <2> QED
      BY <2>2, <2>3
  <1> QED
    BY <1>1, <1>2, <1>3 DEF TxTick

\* A bit of the frame goes on, or the next one begins.
TxSameBit == TxPlace' = TxPlace /\ txState' = txState /\ txBaud' = txBaud + 1 /\ txBaud < BaudDiv - 1
TxNextBit == TxPlace' = TxPlace + 1 /\ txState' # "START" /\ txBaud' = 0 /\ txBaud = BaudDiv - 1

LEMMA TxMoves ==
    ASSUME TxTypeOK, TxFollows, NEW start \in BOOLEAN, NEW byte \in UartByte, TxTick(start, byte)
    PROVE  /\ txState = "IDLE" => txBaud' = 0 /\ txState' = IF start THEN "START" ELSE "IDLE"
           /\ txState # "IDLE" => TxSameBit \/ TxNextBit
  <1>1. CASE TxIdle(start, byte)
    BY <1>1 DEF TxIdle
  <1>2. CASE TxStartBit
    BY <1>2, FrameSizes DEF TxStartBit, TxCount, TxBaudDone, TxTypeOK, TxFollows, TxPlace,
                            TxSameBit, TxNextBit
  <1>3. CASE TxDataBit
    BY <1>3, FrameSizes, NextBit DEF TxDataBit, TxCount, TxBaudDone, TxTypeOK, TxPlace,
                            TxSameBit, TxNextBit, StopPlace
  <1>4. CASE TxStopBit
    BY <1>4, FrameSizes DEF TxStopBit, TxCount, TxBaudDone, TxTypeOK, TxPlace,
                            TxSameBit, TxNextBit, StopPlace
  <1> QED
    BY <1>1, <1>2, <1>3, <1>4 DEF TxTick

LEMMA TxStep ==
    ASSUME TxTypeOK, TxFollows, latched \in UartByte,
           NEW start \in BOOLEAN, NEW byte \in UartByte, TxTick(start, byte),
           latched' = IF Sends(start) THEN byte ELSE latched
    PROVE  TxFollows'
  <1>1. CASE TxIdle(start, byte)
    <2>1. /\ txState' = (IF start THEN "START" ELSE "IDLE") /\ txBaud' = 0 /\ txBit' = 0 /\ tx' = 1
          /\ start => txShift' = byte /\ latched' = byte
      BY <1>1 DEF TxIdle, Sends
    <2> QED
      BY <2>1, TxBusyFollows, FrameSizes DEF TxFollows, TxPlace, StopPlace, Wire
  <1>2. CASE TxStartBit
    <2>1. /\ txState' \in {"START", "DATA"} /\ txBit' = 0 /\ tx' = 0
          /\ txState' = "DATA" <=> txBaud' = 0
          /\ txShift' = txShift /\ txShift = latched /\ latched' = latched
      BY <1>2, FrameSizes DEF TxStartBit, TxCount, TxBaudDone, Sends, TxTypeOK, TxFollows
    <2> QED
      BY <2>1, TxBusyFollows, FrameSizes DEF TxFollows, TxPlace, Wire
  <1>3. CASE TxDataBit
    <2>0. latched' = latched /\ txState = "DATA" /\ txBit \in 0 .. DataBits - 1
      BY <1>3 DEF TxDataBit, Sends, TxTypeOK
    <2>1. tx' = latched[1 + txBit] /\ latched[1 + txBit] = Wire(TxPlace) /\ TxPlace = 1 + txBit
      BY <1>3, <2>0, FrameSizes DEF TxDataBit, TxFollows, TxPlace, Wire
    <2>2. CASE ~TxBaudDone
      <3>1. /\ txState' = "DATA" /\ txBit' = txBit /\ txShift' = txShift
            /\ txBaud' # 0
        BY <1>3, <2>2, FrameSizes DEF TxDataBit, TxCount, TxTypeOK
      <3> QED
        BY <2>0, <2>1, <3>1, TxBusyFollows DEF TxFollows, TxPlace, Wire
    <2>3. CASE TxBaudDone /\ txBit # DataBits - 1
      <3>1. /\ txState' = "DATA" /\ txBit' = txBit + 1 /\ txShift' = ShiftRight(txShift)
            /\ txBaud' = 0
        BY <1>3, <2>0, <2>3, NextBit DEF TxDataBit, TxCount
      <3>2. ASSUME NEW k \in 1 .. DataBits - txBit' PROVE txShift'[k] = latched'[k + txBit']
        <4>1. /\ k \in 1 .. DataBits /\ k # DataBits /\ k + 1 \in 1 .. DataBits - txBit
              /\ (k + 1) + txBit = k + txBit'
          BY <2>0, <3>1, FrameSizes
        <4> QED
          BY <2>0, <3>1, <4>1 DEF TxFollows, ShiftRight
      <3>3. tx' = Wire(TxPlace - 1)'
        BY <2>0, <2>1, <3>1 DEF TxPlace, Wire
      <3> QED
        BY <3>1, <3>2, <3>3, TxBusyFollows DEF TxFollows
    <2>4. CASE TxBaudDone /\ txBit = DataBits - 1
      <3>1. txState' = "STOP" /\ txBit' = 0 /\ txBaud' = 0
        BY <1>3, <2>0, <2>4, NextBit DEF TxDataBit, TxCount
      <3>2. tx' = Wire(TxPlace - 1)'
        BY <2>0, <2>1, <2>4, <3>1, FrameSizes DEF TxPlace, StopPlace, Wire
      <3> QED
        BY <3>1, <3>2, TxBusyFollows DEF TxFollows
    <2> QED
      BY <2>2, <2>3, <2>4
  <1>4. CASE TxStopBit
    <2>1. /\ txState' \in {"STOP", "IDLE"} /\ txBit' = 0 /\ tx' = 1
          /\ txState' = "IDLE" <=> txBaud' = 0
      BY <1>4, FrameSizes DEF TxStopBit, TxCount, TxBaudDone, TxTypeOK, TxFollows
    <2> QED
      BY <2>1, TxBusyFollows, FrameSizes DEF TxFollows, TxPlace, StopPlace, Wire
  <1> QED
    BY <1>1, <1>2, <1>3, <1>4 DEF TxTick

LEMMA RxPlaces ==
    RxTypeOK /\ RxFollows /\ rxState # "IDLE"
        => RxPlace \in 0 .. StopPlace /\ RxPhase \in 0 .. BaudDiv - 1
  BY FrameSizes DEF RxTypeOK, RxFollows, RxPlace, RxPhase, StopPlace, UartState

LEMMA TxPlaces ==
    ASSUME TxTypeOK
    PROVE  /\ TxPlace \in 0 .. StopPlace + 1 /\ StopPlace \in Nat
           /\ txBaud \in 0 .. BaudDiv - 1
           /\ txState = "IDLE" <=> TxPlace = StopPlace + 1
           /\ txState = "STOP" <=> TxPlace = StopPlace
  BY FrameSizes DEF TxTypeOK, TxPlace, StopPlace, UartState

LEMMA TxPlacesNext ==
    ASSUME TxTypeOK', TxPlace' = StopPlace + 1 PROVE txState' = "IDLE"
  <1>1. PICK b \in 0 .. DataBits - 1 : txBit' = b
    BY DEF TxTypeOK
  <1>2. txState' \in UartState
    BY DEF TxTypeOK
  <1> QED
    BY <1>1, <1>2, FrameAssumption DEF TxPlace, StopPlace, UartState

\* Between two samples the receiver counts.
RxCounts == rxState' = rxState /\ RxPlace' = RxPlace /\ RxPhase' = RxPhase + 1 /\ rxShift' = rxShift

LEMMA RxBetween ==
    ASSUME RxTypeOK, RxFollows, rxState # "IDLE", NEW line \in {0, 1}, RxTick(line),
           RxPhase # BaudDiv - 1
    PROVE  RxCounts
  <1>1. CASE RxStartBit(line)
    BY <1>1, FrameSizes DEF RxStartBit, RxMiddle, RxTypeOK, RxPlace, RxPhase, RxCounts
  <1>2. CASE RxDataBit(line)
    BY <1>2, FrameSizes DEF RxDataBit, RxCount, RxBaudDone, RxTypeOK, RxPlace, RxPhase, RxCounts
  <1>3. CASE RxStopBit(line)
    BY <1>3, FrameSizes DEF RxStopBit, RxCount, RxBaudDone, RxTypeOK, RxPlace, RxPhase, RxCounts
  <1> QED
    BY <1>1, <1>2, <1>3 DEF RxTick, RxIdle

\* A sample of the bit at place, and the two that end differently when it is wrong.
RxTakes(place, line) ==
    /\ rxState' # "IDLE" /\ RxPlace' = place + 1 /\ RxPhase' = 0
    /\ rxShift' = IF place = 0 THEN rxShift ELSE [rxShift EXCEPT ![place] = line]
RxDelivers == rxState = "STOP" /\ rxState' = "IDLE" /\ rxValid' /\ rxData' = rxShift

LEMMA RxSamples ==
    ASSUME RxTypeOK, RxFollows, rxState # "IDLE", NEW line \in {0, 1}, RxTick(line),
           RxPhase = BaudDiv - 1, RxPlace = 0 => line = 0, RxPlace = StopPlace => line = 1
    PROVE  IF RxPlace = StopPlace THEN RxDelivers ELSE RxTakes(RxPlace, line)
  <1>1. CASE RxStartBit(line)
    <2>1. RxMiddle /\ RxPlace = 0 /\ line = 0 /\ StopPlace # 0
      BY <1>1, FrameSizes DEF RxStartBit, RxMiddle, RxTypeOK, RxPhase, RxPlace, StopPlace
    <2>2. rxState' = "DATA" /\ rxBaud' = 0 /\ rxBit' = 0 /\ rxShift' = rxShift
      BY <1>1, <2>1 DEF RxStartBit
    <2> QED
      BY <2>1, <2>2 DEF RxTakes, RxPlace, RxPhase
  <1>2. CASE RxDataBit(line)
    <2>1. /\ RxBaudDone /\ RxPlace = rxBit + 1 /\ RxPlace # 0 /\ RxPlace # StopPlace
          /\ rxBit \in 0 .. DataBits - 1
      BY <1>2, FrameSizes DEF RxDataBit, RxBaudDone, RxTypeOK, RxPhase, RxPlace, StopPlace
    <2>2. /\ rxBaud' = 0 /\ rxShift' = [rxShift EXCEPT ![rxBit + 1] = line]
          /\ rxState' = IF rxBit = DataBits - 1 THEN "STOP" ELSE "DATA"
          /\ rxBit' = IF rxBit # DataBits - 1 THEN rxBit + 1 ELSE rxBit
      BY <1>2, <2>1 DEF RxDataBit, RxCount
    <2>3. rxState' # "IDLE" /\ RxPhase' = 0
      BY <2>2 DEF RxPhase
    <2>4. RxPlace' = RxPlace + 1
      BY <2>1, <2>2, FrameSizes DEF RxPlace, StopPlace
    <2> QED
      BY <2>1, <2>2, <2>3, <2>4 DEF RxTakes
  <1>3. CASE RxStopBit(line)
    <2>1. RxBaudDone /\ RxPlace = StopPlace /\ line = 1 /\ rxState = "STOP"
      BY <1>3 DEF RxStopBit, RxBaudDone, RxPhase, RxPlace
    <2>2. rxState' = "IDLE" /\ rxData' = rxShift
      BY <1>3, <2>1 DEF RxStopBit
    <2>3. rxValid'
      BY <1>3, <2>1 DEF RxStopBit
    <2> QED
      BY <2>1, <2>2, <2>3 DEF RxDelivers
  <1> QED
    BY <1>1, <1>2, <1>3 DEF RxTick, RxIdle
-------------------------------------------------------------------------------
(* The two sides together.                                                     *)

\* When the receiver samples, the transmitter has the same bit on the line.
LEMMA SampleIsBit ==
    ASSUME Tolerance, LinkTypeOK, TxFollows, RxFollows, rxState # "IDLE",
           NEW places \in {0, 1, 2}, InStep(places), RxPhase = BaudDiv - 1
    PROVE  /\ tx = Wire(RxPlace)
           /\ \/ places = 1 /\ TxPlace = RxPlace /\ txBaud >= 1
              \/ places = 2 /\ TxPlace = RxPlace + 1 /\ txBaud = 0 /\ slips = MaxSlips
  <1>1. /\ txBaud \in 0 .. BaudDiv - 1 /\ TxPlace \in Int /\ RxPlace \in Int
        /\ slips \in 0 .. MaxSlips
    BY TxPlaces, RxPlaces DEF LinkTypeOK, StopPlace
  <1>2. \/ places = 1 /\ TxPlace = RxPlace /\ txBaud >= 1
        \/ places = 2 /\ TxPlace = RxPlace + 1 /\ txBaud = 0 /\ slips = MaxSlips
    BY <1>1, FrameSizes DEF InStep, Lead, Tolerance
  <1>3. tx = Wire(RxPlace)
    BY <1>1, <1>2 DEF TxFollows
  <1> QED
    BY <1>2, <1>3

\* The transmitter is not done with the frame before the receiver's last sample.
LEMMA IdleIsLast ==
    ASSUME Tolerance, LinkTypeOK, TxFollows, RxFollows, rxState # "IDLE", txState = "IDLE",
           NEW places \in {0, 1, 2}, InStep(places)
    PROVE  RxPlace = StopPlace /\ RxPhase = BaudDiv - 1 /\ slips = MaxSlips
  <1>1. /\ txBaud = 0 /\ TxPlace = StopPlace + 1 /\ RxPlace \in 0 .. StopPlace
        /\ RxPhase \in 0 .. BaudDiv - 1 /\ slips \in 0 .. MaxSlips /\ StopPlace \in Nat
    BY TxPlaces, RxPlaces DEF LinkTypeOK, TxFollows
  <1> QED
    BY <1>1, FrameSizes DEF InStep, Lead, Tolerance

\* One cycle of either side changes the lead by one; a slip allows for it.
LEMMA StaysInStep ==
    ASSUME Tolerance, LinkTypeOK, TxFollows, RxFollows, rxState # "IDLE",
           NEW places \in {0, 1, 2}, InStep(places), slips' \in 0 .. MaxSlips,
           NEW line,
           \/ (TxSameBit \/ TxNextBit) /\ (RxCounts \/ RxTakes(RxPlace, line)) /\ slips' = slips
           \/ (TxSameBit \/ TxNextBit) /\ UNCHANGED rxVars /\ slips' = slips + 1
           \/ UNCHANGED txVars /\ (RxCounts \/ RxTakes(RxPlace, line)) /\ slips' = slips + 1,
           RxTakes(RxPlace, line) => RxPhase = BaudDiv - 1
    PROVE  InStep(0)' \/ InStep(1)' \/ InStep(2)'
  <1>1. /\ txBaud \in 0 .. BaudDiv - 1 /\ TxPlace \in Int /\ RxPlace \in Int
        /\ RxPhase \in 0 .. BaudDiv - 1 /\ slips \in 0 .. MaxSlips
    BY TxPlaces, RxPlaces DEF LinkTypeOK, StopPlace
  <1>2. UNCHANGED rxVars => RxPlace' = RxPlace /\ RxPhase' = RxPhase
    BY DEF rxVars, RxPlace, RxPhase
  <1>3. UNCHANGED txVars => TxPlace' = TxPlace /\ txBaud' = txBaud
    BY DEF txVars, TxPlace
  <1>4. \/ TxPlace' = TxPlace /\ txBaud' = txBaud
        \/ TxPlace' = TxPlace /\ txBaud' = txBaud + 1
        \/ TxPlace' = TxPlace + 1 /\ txBaud' = 0 /\ txBaud = BaudDiv - 1
    BY <1>3 DEF TxSameBit, TxNextBit
  <1>5. \/ RxPlace' = RxPlace /\ RxPhase' = RxPhase
        \/ RxPlace' = RxPlace /\ RxPhase' = RxPhase + 1
        \/ RxPlace' = RxPlace + 1 /\ RxPhase' = 0 /\ RxPhase = BaudDiv - 1
    BY <1>2 DEF RxCounts, RxTakes
  <1>6. \E n \in {0, 1, 2} : InStep(n)'
    <2>1. CASE slips' = slips
      BY <1>1, <1>2, <1>3, <2>1, FrameSizes DEF InStep, Lead, Tolerance, TxSameBit, TxNextBit, RxCounts, RxTakes
    <2>2. CASE slips' = slips + 1
      BY <1>1, <1>4, <1>5, <2>2, FrameSizes DEF InStep, Lead, Tolerance
    <2> QED
      BY <2>1, <2>2
  <1> QED
    BY <1>6

\* What the history is, next to what the two sides do.
LEMMA HistoryFollows ==
    ASSUME ~torn, NEW start \in BOOLEAN, NEW byte, History(start, byte), Len(inFlight) \in Nat
    PROVE  /\ ~torn'
           /\ ~Sends(start) => latched' = latched
           /\ Sends(start) => latched' = byte
           /\ ~Sends(start) /\ ~DeliversNext => inFlight' = inFlight
           /\ ~Sends(start) /\ DeliversNext /\ inFlight = <<latched>> => inFlight' = <<>>
           /\ Sends(start) /\ DeliversNext /\ inFlight = <<latched>> => inFlight' = <<latched'>>
           /\ Sends(start) /\ ~DeliversNext /\ inFlight = <<>> => inFlight' = <<latched'>>
  <1>1. /\ ~torn' /\ latched' = IF Sends(start) THEN byte ELSE latched
        /\ inFlight' = LET left == IF DeliversNext /\ inFlight # <<>> THEN Tail(inFlight) ELSE inFlight
                       IN  IF Sends(start) /\ Len(left) < MaxInFlight THEN Append(left, byte) ELSE left
    BY DEF History
  <1>2. Len(<<>>) = 0 /\ Append(<<>>, byte) = <<byte>> /\ 0 < MaxInFlight
    BY DEF MaxInFlight
  <1>3. Tail(<<latched>>) = <<>> /\ <<latched>> # <<>>
    OBVIOUS
  <1> QED
    BY <1>1, <1>2, <1>3

\* The invariants of a state in which the frame is being received.
InFrame ==
    /\ LinkTypeOK /\ TxFollows /\ RxFollows /\ ~torn
    /\ Receiving

LEMMA InFrameFacts ==
    ASSUME Tolerance, InFrame
    PROVE  /\ \E places \in {0, 1, 2} : InStep(places)
           /\ TxTypeOK /\ RxTypeOK /\ rxState # "IDLE" /\ tx \in {0, 1}
           /\ latched \in UartByte /\ slips \in 0 .. MaxSlips /\ Len(inFlight) \in Nat
           /\ RxPhase = BaudDiv - 1 => tx = Wire(RxPlace)
           /\ txState = "IDLE" => RxPlace = StopPlace /\ RxPhase = BaudDiv - 1 /\ slips = MaxSlips
           /\ Wire(0) = 0 /\ Wire(StopPlace) = 1
           /\ \A k \in 1 .. DataBits : Wire(k) = latched[k]
  <1>1. /\ \E places \in {0, 1, 2} : InStep(places)
        /\ TxTypeOK /\ RxTypeOK /\ rxState # "IDLE" /\ tx \in {0, 1}
        /\ latched \in UartByte /\ slips \in 0 .. MaxSlips /\ Len(inFlight) \in Nat
    BY LenProperties DEF InFrame, Receiving, LinkTypeOK, TxTypeOK
  <1>2. RxPhase = BaudDiv - 1 => tx = Wire(RxPlace)
    BY <1>1, SampleIsBit DEF InFrame
  <1>3. txState = "IDLE" => RxPlace = StopPlace /\ RxPhase = BaudDiv - 1 /\ slips = MaxSlips
    BY <1>1, IdleIsLast DEF InFrame
  <1>4. Wire(0) = 0 /\ Wire(StopPlace) = 1 /\ \A k \in 1 .. DataBits : Wire(k) = latched[k]
    BY FrameSizes DEF Wire, StopPlace
  <1> QED
    BY <1>1, <1>2, <1>3, <1>4

\* One cycle of the receiver in a frame: it counts, or takes the right bit, or
\* delivers the right byte.
RxTakesRight ==
    /\ RxPhase = BaudDiv - 1 /\ RxPlace # StopPlace
    /\ RxTakes(RxPlace, tx) /\ ~DeliversNext
    /\ \A k \in 1 .. DataBits : k < RxPlace' => rxShift'[k] = latched[k]
RxCountsOn ==
    /\ RxPhase # BaudDiv - 1 /\ RxCounts /\ ~DeliversNext /\ rxState' # "IDLE"
    /\ \A k \in 1 .. DataBits : k < RxPlace' => rxShift'[k] = latched[k]
RxDeliversRight ==
    /\ RxPhase = BaudDiv - 1 /\ RxPlace = StopPlace
    /\ DeliversNext /\ rxData' = latched /\ rxState' = "IDLE"

LEMMA ReceiverTick ==
    ASSUME Tolerance, InFrame, RxTick(tx)
    PROVE  RxCountsOn \/ RxTakesRight \/ RxDeliversRight
  <1>1. /\ RxTypeOK /\ RxFollows /\ rxState # "IDLE" /\ tx \in {0, 1}
        /\ RxPlace \in 0 .. StopPlace /\ StopPlace = DataBits + 1
        /\ \A k \in 1 .. DataBits : k < RxPlace => rxShift[k] = latched[k]
    BY InFrameFacts, RxPlaces DEF InFrame, Receiving, StopPlace
  <1>2. CASE RxPhase # BaudDiv - 1
    <2>1. RxCounts
      BY <1>1, <1>2, RxBetween
    <2>2. ~DeliversNext /\ rxState' # "IDLE"
      BY <1>1, <2>1 DEF RxCounts, DeliversNext
    <2> QED
      BY <1>1, <1>2, <2>1, <2>2 DEF RxCounts, RxCountsOn
  <1>3. CASE RxPhase = BaudDiv - 1 /\ RxPlace # StopPlace
    <2>1. tx = Wire(RxPlace) /\ (RxPlace = 0 => tx = 0)
      BY <1>3, InFrameFacts
    <2>2. RxTakes(RxPlace, tx)
      BY <1>1, <1>3, <2>1, RxSamples
    <2>3. ASSUME NEW k \in 1 .. DataBits, k < RxPlace' PROVE rxShift'[k] = latched[k]
      <3>1. k < RxPlace \/ k = RxPlace
        BY <1>1, <2>2, <2>3 DEF RxTakes
      <3>2. CASE k < RxPlace
        BY <1>1, <2>2, <3>2 DEF RxTakes, RxTypeOK, UartByte
      <3>3. CASE k = RxPlace
        <4>1. tx = latched[k] /\ RxPlace # 0
          BY <2>1, <2>3, <3>3, InFrameFacts
        <4> QED
          BY <1>1, <2>2, <2>3, <3>3, <4>1 DEF RxTakes, RxTypeOK, UartByte
      <3> QED
        BY <3>1, <3>2, <3>3
    <2>4. ~DeliversNext
      BY <2>2 DEF RxTakes, DeliversNext
    <2> QED
      BY <1>3, <2>2, <2>3, <2>4 DEF RxTakesRight
  <1>4. CASE RxPhase = BaudDiv - 1 /\ RxPlace = StopPlace
    <2>1. tx = 1 /\ RxPlace # 0
      BY <1>1, <1>4, InFrameFacts, FrameSizes
    <2>2. RxDelivers
      BY <1>1, <1>4, <2>1, RxSamples
    <2>3. rxShift = latched
      <3>1. ASSUME NEW k \in 1 .. DataBits PROVE rxShift[k] = latched[k]
        <4>1. k < RxPlace
          BY <1>1, <1>4, FrameSizes
        <4> QED
          BY <1>1, <4>1
      <3>2. rxShift \in [1 .. DataBits -> {0, 1}] /\ latched \in [1 .. DataBits -> {0, 1}]
        BY <1>1, InFrameFacts DEF RxTypeOK, UartByte
      <3>3. rxShift = [k \in 1 .. DataBits |-> rxShift[k]]
            /\ latched = [k \in 1 .. DataBits |-> latched[k]]
        BY <3>2
      <3> QED
        BY <3>1, <3>3
    <2> QED
      BY <1>4, <2>2, <2>3 DEF RxDelivers, DeliversNext, RxDeliversRight
  <1> QED
    BY <1>2, <1>3, <1>4

\* Both sides have a cycle while a frame is received.
LEMMA ReceivingTogether ==
    ASSUME Tolerance, InFrame, NEW start \in BOOLEAN, NEW byte \in TxBytes, Uses(start),
           Together(start, byte), LinkTypeOK'
    PROVE  /\ ~torn' /\ Tracking'
           /\ DeliversNext => inFlight # <<>> /\ rxData' = Head(inFlight)
  <1>1. /\ TxTick(start, byte) /\ RxTick(tx) /\ History(start, byte) /\ slips' = slips
        /\ TxTypeOK' /\ byte \in UartByte /\ ~torn /\ inFlight = <<latched>>
        /\ slips' \in 0 .. MaxSlips
    BY LinkAssumption, InFrameFacts DEF Together, LinkTypeOK, InFrame, Receiving
  <1>2. /\ txState = "IDLE" => txBaud' = 0 /\ txState' = IF start THEN "START" ELSE "IDLE"
        /\ txState # "IDLE" => TxSameBit \/ TxNextBit
    BY <1>1, TxMoves, InFrameFacts DEF InFrame
  <1>3. txState # "IDLE" => ~Sends(start)
    BY DEF Sends
  <1>4. CASE RxCountsOn \/ RxTakesRight
    <2>1. RxPlace # StopPlace \/ RxPhase # BaudDiv - 1
      BY <1>4 DEF RxCountsOn, RxTakesRight
    <2>2. txState # "IDLE" /\ ~DeliversNext /\ rxState' # "IDLE"
      BY <1>4, <2>1, InFrameFacts DEF RxCountsOn, RxTakesRight, RxTakes
    <2>3. inFlight' = inFlight /\ latched' = latched /\ ~torn'
      BY <1>1, <1>3, <2>2, HistoryFollows, InFrameFacts
    <2>4. RxTakes(RxPlace, tx) => RxPhase = BaudDiv - 1
      BY <1>4, RxPlaces, InFrameFacts DEF RxCountsOn, RxCounts, RxTakes, RxTakesRight, InFrame
    <2>5. InStep(0)' \/ InStep(1)' \/ InStep(2)'
      BY <1>1, <1>2, <1>4, <2>1, <2>2, <2>4, StaysInStep, InFrameFacts
         DEF InFrame, RxCountsOn, RxTakesRight
    <2>6. \A k \in 1 .. DataBits : k < RxPlace' => rxShift'[k] = latched'[k]
      BY <1>4, <2>3 DEF RxCountsOn, RxTakesRight
    <2>7. Receiving'
      BY <1>1, <2>2, <2>3, <2>5, <2>6 DEF Receiving
    <2> QED
      BY <2>2, <2>3, <2>7 DEF Tracking
  <1>5. CASE RxDeliversRight
    <2>1. rxState' = "IDLE" /\ DeliversNext /\ rxData' = latched
      BY <1>5 DEF RxDeliversRight
    <2>2. inFlight # <<>> /\ rxData' = Head(inFlight)
      BY <1>1, <2>1
    <2>3. PICK places \in {0, 1, 2} : InStep(places)
      BY InFrameFacts
    <2>4. \/ TxPlace = StopPlace /\ txBaud >= 1
          \/ TxPlace = StopPlace + 1
      BY <1>5, <2>3, SampleIsBit, InFrameFacts DEF InFrame, RxDeliversRight
    <2>5. CASE TxPlace = StopPlace
      <3>1. txState = "STOP" /\ txBaud >= 1 /\ txBaud \in Nat
        BY <2>4, <2>5, TxPlaces, InFrameFacts
      <3>2. ~torn' /\ inFlight' = <<>>
        BY <1>1, <1>3, <2>1, <3>1, HistoryFollows, InFrameFacts
      <3>3. (txState' = "STOP" /\ txBaud' >= 1) \/ txState' = "IDLE"
        BY <1>1, <1>2, <2>5, <3>1, TxPlacesNext DEF TxSameBit, TxNextBit
      <3> QED
        BY <2>1, <2>2, <3>2, <3>3 DEF Tracking, Ending, Waiting
    <2>6. CASE TxPlace = StopPlace + 1
      <3>1. txState = "IDLE" /\ (Sends(start) <=> start)
        BY <2>6, TxPlaces, InFrameFacts DEF Sends
      <3>2. ~torn' /\ inFlight' = IF start THEN <<latched'>> ELSE <<>>
        BY <1>1, <2>1, <3>1, HistoryFollows, InFrameFacts
      <3> QED
        BY <1>2, <2>1, <2>2, <3>1, <3>2 DEF Tracking, Starting, Waiting
    <2> QED
      BY <2>4, <2>5, <2>6
  <1> QED
    BY <1>1, <1>4, <1>5, ReceiverTick

\* A slip of the transmitter's: it is not done with the frame, and stays close.
LEMMA ReceivingTxAhead ==
    ASSUME Tolerance, InFrame, NEW start \in BOOLEAN, NEW byte \in TxBytes, Uses(start),
           TxAhead(start, byte), LinkTypeOK'
    PROVE  ~torn' /\ Tracking' /\ ~DeliversNext
  <1>1. /\ TxTick(start, byte) /\ History(start, byte) /\ slips' = slips + 1 /\ slips < MaxSlips
        /\ UNCHANGED rxVars /\ byte \in UartByte /\ ~torn /\ inFlight = <<latched>>
        /\ slips' \in 0 .. MaxSlips
    BY LinkAssumption DEF TxAhead, LinkTypeOK, InFrame, Receiving
  <1>2. txState # "IDLE" /\ ~Sends(start)
    BY <1>1, InFrameFacts DEF Sends
  <1>3. TxSameBit \/ TxNextBit
    BY <1>1, <1>2, TxMoves, InFrameFacts DEF InFrame
  <1>4. rxState' = rxState /\ rxShift' = rxShift /\ RxPlace' = RxPlace /\ RxPhase' = RxPhase
    BY <1>1 DEF rxVars, RxPlace, RxPhase
  <1>5. ~DeliversNext /\ rxState' # "IDLE"
    BY <1>4, InFrameFacts DEF DeliversNext
  <1>6. inFlight' = inFlight /\ latched' = latched /\ ~torn'
    BY <1>1, <1>2, <1>5, HistoryFollows, InFrameFacts
  <1>7. InStep(0)' \/ InStep(1)' \/ InStep(2)'
    <2>1. RxTakes(RxPlace, tx) => RxPhase = BaudDiv - 1
      BY <1>4, RxPlaces, InFrameFacts DEF InFrame, RxTakes, StopPlace
    <2> QED
      BY <1>1, <1>3, <2>1, StaysInStep, InFrameFacts DEF InFrame
  <1>8. \A k \in 1 .. DataBits : k < RxPlace' => rxShift'[k] = latched'[k]
    BY <1>4, <1>6 DEF InFrame, Receiving
  <1>9. Receiving'
    BY <1>1, <1>5, <1>6, <1>7, <1>8 DEF Receiving
  <1> QED
    BY <1>5, <1>6, <1>9 DEF Tracking

\* A slip of the receiver's: the transmitter has it coming still.
LEMMA ReceivingRxAhead ==
    ASSUME Tolerance, InFrame, RxAhead, LinkTypeOK'
    PROVE  /\ ~torn' /\ Tracking'
           /\ DeliversNext => inFlight # <<>> /\ rxData' = Head(inFlight)
  <1>1. /\ RxTick(tx) /\ History(FALSE, latched) /\ slips' = slips + 1 /\ slips < MaxSlips
        /\ UNCHANGED txVars /\ ~torn /\ inFlight = <<latched>> /\ slips' \in 0 .. MaxSlips
    BY DEF RxAhead, LinkTypeOK, InFrame, Receiving
  <1>2. /\ txState' = txState /\ txBaud' = txBaud /\ ~Sends(FALSE)
        /\ txState # "IDLE"
    BY <1>1, InFrameFacts DEF txVars, Sends
  <1>3. CASE RxCountsOn \/ RxTakesRight
    <2>1. ~DeliversNext /\ rxState' # "IDLE"
      BY <1>3 DEF RxCountsOn, RxTakesRight, RxTakes
    <2>2. inFlight' = inFlight /\ latched' = latched /\ ~torn'
      BY <1>1, <1>2, <2>1, HistoryFollows, InFrameFacts
    <2>3. RxTakes(RxPlace, tx) => RxPhase = BaudDiv - 1
      BY <1>3, RxPlaces, InFrameFacts DEF RxCountsOn, RxCounts, RxTakes, RxTakesRight, InFrame
    <2>4. InStep(0)' \/ InStep(1)' \/ InStep(2)'
      BY <1>1, <1>3, <2>3, StaysInStep, InFrameFacts DEF InFrame, RxCountsOn, RxTakesRight
    <2>5. \A k \in 1 .. DataBits : k < RxPlace' => rxShift'[k] = latched'[k]
      BY <1>3, <2>2 DEF RxCountsOn, RxTakesRight
    <2>6. Receiving'
      BY <1>1, <2>1, <2>2, <2>4, <2>5 DEF Receiving
    <2> QED
      BY <2>1, <2>2, <2>6 DEF Tracking
  <1>4. CASE RxDeliversRight
    <2>1. rxState' = "IDLE" /\ DeliversNext /\ rxData' = latched
      BY <1>4 DEF RxDeliversRight
    <2>2. inFlight # <<>> /\ rxData' = Head(inFlight)
      BY <1>1, <2>1
    <2>3. PICK places \in {0, 1, 2} : InStep(places)
      BY InFrameFacts
    <2>4. TxPlace = StopPlace /\ txBaud >= 1
      BY <1>1, <1>4, <2>3, SampleIsBit, InFrameFacts DEF InFrame, RxDeliversRight
    <2>5. txState = "STOP"
      BY <2>4, TxPlaces, InFrameFacts
    <2>6. ~torn' /\ inFlight' = <<>>
      BY <1>1, <1>2, <2>1, HistoryFollows, InFrameFacts
    <2> QED
      BY <1>2, <2>1, <2>2, <2>4, <2>5, <2>6 DEF Tracking, Ending
  <1> QED
    BY <1>1, <1>3, <1>4, ReceiverTick

\* The receiver waits: both sides have every cycle, and it sees the line fall when
\* the transmitter is two cycles into the frame.
LEMMA WaitingTogether ==
    ASSUME Tolerance, LinkTypeOK, TxFollows,
           torn => inFlight = <<>> /\ Quiet, ~torn => Waiting \/ Starting \/ Ending,
           NEW start \in BOOLEAN, NEW byte \in TxBytes, Uses(start), Together(start, byte),
           LinkTypeOK'
    PROVE  ~torn' /\ Tracking' /\ ~DeliversNext
  <1>1. /\ TxTick(start, byte) /\ RxIdle(tx) /\ History(start, byte)
        /\ slips' = 0 /\ rxState = "IDLE" /\ byte \in UartByte
        /\ TxTypeOK /\ TxTypeOK' /\ RxTypeOK
    BY LinkAssumption DEF Together, LinkTypeOK, Quiet, Waiting, Starting, Ending,
          RxTick, RxStartBit, RxDataBit, RxStopBit
  <1>2. ~DeliversNext
    BY <1>1 DEF DeliversNext
  <1>3. /\ txState = "IDLE" => txBaud' = 0 /\ txState' = IF start THEN "START" ELSE "IDLE"
        /\ txState # "IDLE" => TxSameBit \/ TxNextBit
    BY <1>1, TxMoves
  <1>4. /\ rxState' = IF tx = 0 THEN "START" ELSE "IDLE"
        /\ rxBaud' = 0
    BY <1>1 DEF RxIdle
  <1>5. BaudDiv >= 3 /\ Wire(-1) = 1 /\ Wire(0) = 0 /\ Wire(StopPlace) = 1
    BY FrameSizes DEF Tolerance, Wire, StopPlace
  <1>6. CASE txState = "IDLE"
    <2>1. ~torn' /\ inFlight' = IF start THEN <<latched'>> ELSE <<>>
      <3>1. inFlight = <<>> /\ (Sends(start) <=> start)
        BY <1>6 DEF Waiting, Starting, Ending, Sends
      <3>2. ~torn'
        BY <1>1 DEF History
      <3>3. inFlight' = IF start /\ Len(<<>>) < MaxInFlight THEN Append(<<>>, byte) ELSE <<>>
        BY <1>1, <1>2, <3>1, <3>2 DEF History
      <3>4. start => latched' = byte
        BY <1>1, <3>1 DEF History
      <3> QED
        BY <3>2, <3>3, <3>4 DEF MaxInFlight
    <2>2. tx = 1
      <3>1. TxPlace - 1 = StopPlace /\ txBaud = 0
        BY <1>6, FrameSizes DEF TxFollows, TxPlace, StopPlace
      <3> QED
        BY <1>5, <3>1 DEF TxFollows
    <2> QED
      BY <1>2, <1>3, <1>4, <1>6, <2>1, <2>2 DEF Tracking, Waiting, Starting
  <1>7. CASE txState # "IDLE"
    <2>1. ~torn /\ (Starting \/ Ending) /\ ~Sends(start) /\ Len(inFlight) \in Nat
      BY <1>7, LenProperties DEF Quiet, Waiting, Sends, LinkTypeOK
    <2>2. ~torn' /\ inFlight' = inFlight /\ latched' = latched
      BY <1>1, <1>2, <2>1, HistoryFollows
    <2>3. CASE Ending
      <3>1. TxPlace = StopPlace /\ txBaud # 0 /\ txBaud \in Nat
        BY <1>1, <2>3 DEF Ending, TxPlace, TxTypeOK
      <3>2. tx = 1
        BY <1>5, <3>1 DEF TxFollows
      <3>3. (txState' = "STOP" /\ txBaud' >= 1) \/ txState' = "IDLE"
        BY <1>1, <1>3, <1>7, <2>3, <3>1, TxPlacesNext DEF TxSameBit, TxNextBit, Ending
      <3> QED
        BY <1>2, <1>4, <2>2, <2>3, <3>2, <3>3 DEF Tracking, Ending, Waiting
    <2>4. CASE Starting
      <3>1. TxPlace = 0 /\ txBaud \in {0, 1} /\ TxSameBit
        <4>1. TxPlace = 0 /\ txBaud \in Nat /\ txBaud <= 1
          BY <1>1, <2>4 DEF Starting, TxPlace, TxTypeOK
        <4>2. ~TxNextBit
          BY <1>5, <4>1, FrameSizes DEF TxNextBit
        <4> QED
          BY <1>3, <1>7, <4>1, <4>2
      <3>2. CASE txBaud = 0
        <4>1. tx = 1
          BY <1>5, <3>1, <3>2 DEF TxFollows
        <4> QED
          BY <1>2, <1>4, <2>2, <2>4, <3>1, <3>2, <4>1 DEF Tracking, Starting, TxSameBit
      <3>3. CASE txBaud = 1
        <4>1. tx = 0 /\ rxState' = "START"
          BY <1>4, <1>5, <3>1, <3>3 DEF TxFollows
        <4>2. RxPlace' = 0 /\ RxPhase' = BaudDiv - (BaudDiv \div 2) - 1
          BY <1>4, <4>1, FrameSizes DEF RxPlace, RxPhase
        <4>3. TxPlace' = 0 /\ txBaud' = 2
          BY <3>1, <3>3 DEF TxSameBit
        <4>4. InStep(1)'
          BY <1>1, <4>2, <4>3, FrameSizes DEF InStep, Lead
        <4>5. \A k \in 1 .. DataBits : ~(k < RxPlace')
          BY <4>2
        <4> QED
          BY <1>2, <2>2, <2>4, <4>1, <4>4, <4>5 DEF Tracking, Receiving, Starting
      <3> QED
        BY <3>1, <3>2, <3>3
    <2> QED
      BY <2>1, <2>3, <2>4
  <1> QED
    BY <1>6, <1>7
-------------------------------------------------------------------------------
(* The invariant is inductive.                                                 *)

LEMMA HistoryType ==
    ASSUME LinkTypeOK, torn => inFlight = <<>>,
           NEW start \in BOOLEAN, NEW byte, byte \in TxBytes \/ ~Sends(start), History(start, byte)
    PROVE  /\ torn' \in BOOLEAN /\ inFlight' \in Seq(TxBytes) /\ latched' \in UartByte
           /\ torn' => inFlight' = <<>>
           /\ latched' = IF Sends(start) THEN byte ELSE latched
  <1> DEFINE left == IF DeliversNext /\ inFlight # <<>> THEN Tail(inFlight) ELSE inFlight
  <1>1. left \in Seq(TxBytes)
    BY HeadTailProperties DEF LinkTypeOK
  <1>2. inFlight' = IF torn' THEN <<>>
                    ELSE IF Sends(start) /\ Len(left) < MaxInFlight THEN Append(left, byte)
                    ELSE left
    BY DEF History
  <1>3. byte \in TxBytes => Append(left, byte) \in Seq(TxBytes)
    BY <1>1, AppendProperties
  <1>4. <<>> \in Seq(TxBytes)
    OBVIOUS
  <1> HIDE DEF left
  <1>5. inFlight' \in Seq(TxBytes)
    BY <1>1, <1>2, <1>3, <1>4
  <1>6. torn' \in BOOLEAN
    BY DEF History
  <1>7. latched' = (IF Sends(start) THEN byte ELSE latched) /\ latched' \in UartByte
    BY LinkAssumption DEF History, LinkTypeOK
  <1> QED
    BY <1>2, <1>5, <1>6, <1>7

\* The next values of the two sides, given what the line's are.
LEMMA SidesHold ==
    ASSUME SideInv, NEW start \in BOOLEAN, NEW byte, byte \in TxBytes \/ ~Sends(start),
           History(start, byte), slips' \in 0 .. MaxSlips,
           (TxTick(start, byte) /\ byte \in UartByte) \/ (UNCHANGED txVars /\ ~Sends(start)),
           RxTick(tx) \/ UNCHANGED rxVars
    PROVE  SideInv'
  <1>1. /\ torn' \in BOOLEAN /\ inFlight' \in Seq(TxBytes) /\ latched' \in UartByte
        /\ torn' => inFlight' = <<>>
        /\ latched' = IF Sends(start) THEN byte ELSE latched
    BY HistoryType DEF SideInv
  <1>2. TxTypeOK' /\ TxFollows'
    <2>1. CASE TxTick(start, byte) /\ byte \in UartByte
      BY <1>1, <2>1, TxTickType, TxStep DEF SideInv, LinkTypeOK
    <2>2. CASE UNCHANGED txVars /\ ~Sends(start)
      BY <1>1, <2>2 DEF SideInv, LinkTypeOK, TxTypeOK, txVars, TxFollows, TxPlace, Wire
    <2> QED
      BY <2>1, <2>2
  <1>3. RxTypeOK' /\ RxFollows'
    <2>1. CASE RxTick(tx)
      BY <2>1, RxTickType DEF SideInv, LinkTypeOK, TxTypeOK
    <2>2. CASE UNCHANGED rxVars
      BY <2>2 DEF SideInv, LinkTypeOK, RxTypeOK, RxFollows, rxVars
    <2> QED
      BY <2>1, <2>2
  <1> QED
    BY <1>1, <1>2, <1>3 DEF SideInv, LinkTypeOK

LEMMA TickSides == ASSUME SideInv, Tick PROVE SideInv'
  <1>0. slips \in 0 .. MaxSlips
    BY DEF SideInv, LinkTypeOK
  <1>1. ASSUME NEW start \in BOOLEAN, NEW byte \in TxBytes, Together(start, byte) PROVE SideInv'
    <2>1. slips' \in 0 .. MaxSlips
      BY <1>0, <1>1, FrameSizes DEF Together
    <2>2. /\ TxTick(start, byte) /\ RxTick(tx) /\ History(start, byte)
          /\ byte \in UartByte /\ byte \in TxBytes
      BY <1>1, LinkAssumption DEF Together
    <2> QED
      BY <1>1, <2>1, <2>2, SidesHold
  <1>2. ASSUME NEW start \in BOOLEAN, NEW byte \in TxBytes, TxAhead(start, byte) PROVE SideInv'
    <2>1. slips' \in 0 .. MaxSlips
      BY <1>0, <1>2, FrameSizes DEF TxAhead
    <2>2. /\ TxTick(start, byte) /\ UNCHANGED rxVars /\ History(start, byte)
          /\ byte \in UartByte /\ byte \in TxBytes
      BY <1>2, LinkAssumption DEF TxAhead
    <2> QED
      BY <1>2, <2>1, <2>2, SidesHold
  <1>3. ASSUME RxAhead PROVE SideInv'
    <2>1. slips' \in 0 .. MaxSlips
      BY <1>0, <1>3, FrameSizes DEF RxAhead
    <2>2. ~Sends(FALSE)
      BY DEF Sends
    <2> QED
      BY <1>3, <2>1, <2>2, SidesHold DEF RxAhead
  <1> QED
    BY <1>1, <1>2, <1>3 DEF Tick

\* The wire and the two machines after a reset.
LEMMA AfterReset ==
    /\ TxReset => TxTypeOK' /\ TxFollows'
    /\ RxReset => RxTypeOK' /\ RxFollows'
  <1>1. ASSUME TxReset PROVE TxTypeOK' /\ TxFollows'
    <2>1. ~txBusy' /\ txBusy' \in BOOLEAN
      BY <1>1 DEF TxReset
    <2>2. /\ txState' = "IDLE" /\ tx' = 1 /\ txBaud' = 0 /\ txBit' = 0 /\ txShift' \in UartByte
      BY <1>1, FrameSizes DEF TxReset
    <2>3. Wire(TxPlace - 1)' = 1
      BY <2>2, FrameSizes DEF Wire, TxPlace, StopPlace
    <2> QED
      BY <2>1, <2>2, <2>3, FrameSizes DEF TxTypeOK, TxFollows, UartState
  <1>2. ASSUME RxReset PROVE RxTypeOK' /\ RxFollows'
    <2>1. ~rxValid' /\ rxValid' \in BOOLEAN
      BY <1>2 DEF RxReset
    <2>2. /\ rxState' = "IDLE" /\ rxBaud' = 0 /\ rxBit' = 0
          /\ rxShift' \in UartByte /\ rxData' \in UartByte
      BY <1>2, FrameSizes DEF RxReset
    <2> QED
      BY <2>1, <2>2, FrameSizes DEF RxTypeOK, RxFollows, UartState
  <1> QED
    BY <1>1, <1>2

LEMMA ResetSides ==
    ASSUME SideInv, LinkReset \/ SenderReset \/ ReceiverReset
    PROVE  SideInv' /\ (torn' \/ Waiting')
  <1>0. <<>> \in Seq(TxBytes) /\ 0 \in 0 .. MaxSlips
    BY FrameSizes
  <1>1. CASE LinkReset
    <2>1. ~torn' /\ torn' \in BOOLEAN
      BY <1>1 DEF LinkReset
    <2>2. slips' = 0 /\ inFlight' = <<>> /\ latched' = latched /\ TxReset /\ RxReset
      BY <1>1 DEF LinkReset
    <2> QED
      BY <1>0, <2>1, <2>2, AfterReset DEF SideInv, LinkTypeOK, Waiting, TxReset, RxReset
  <1>2. CASE SenderReset
    <2>1. torn' /\ torn' \in BOOLEAN
      BY <1>2 DEF SenderReset
    <2>2. /\ slips' = slips /\ inFlight' = <<>> /\ latched' = latched /\ TxReset
          /\ UNCHANGED rxVars
      BY <1>2 DEF SenderReset
    <2>3. RxTypeOK' /\ RxFollows'
      BY <2>2 DEF SideInv, LinkTypeOK, RxTypeOK, RxFollows, rxVars
    <2> QED
      BY <1>0, <2>1, <2>2, <2>3, AfterReset DEF SideInv, LinkTypeOK
  <1>3. CASE ReceiverReset
    <2>1. torn' /\ torn' \in BOOLEAN
      BY <1>3 DEF ReceiverReset
    <2>2. /\ slips' = 0 /\ inFlight' = <<>> /\ latched' = latched /\ RxReset
          /\ UNCHANGED txVars
      BY <1>3 DEF ReceiverReset
    <2>3. TxTypeOK' /\ TxFollows'
      BY <2>2 DEF SideInv, LinkTypeOK, TxTypeOK, txVars, TxFollows, TxPlace, Wire
    <2> QED
      BY <1>0, <2>1, <2>2, <2>3, AfterReset DEF SideInv, LinkTypeOK
  <1> QED
    BY <1>1, <1>2, <1>3

LEMMA StillSides ==
    ASSUME UNCHANGED linkVars
    PROVE  /\ SideInv' <=> SideInv
           /\ Tracking' <=> Tracking
  <1>1. SideInv' <=> SideInv
    BY DEF linkVars, txVars, rxVars, SideInv, LinkTypeOK, TxTypeOK, RxTypeOK, TxFollows, RxFollows,
           TxPlace, Wire
  <1>2. Tracking' <=> Tracking
    BY DEF linkVars, txVars, rxVars, Tracking, Waiting, Starting, Receiving, Ending, InStep, Lead,
           TxPlace, RxPlace, RxPhase
  <1> QED
    BY <1>1, <1>2

LEMMA InitSides == LinkInit => SideInv /\ Waiting
  <1> SUFFICES ASSUME LinkInit PROVE SideInv /\ Waiting
    OBVIOUS
  <1>1. /\ ~txBusy /\ txBusy \in BOOLEAN /\ ~rxValid /\ rxValid \in BOOLEAN
        /\ ~torn /\ torn \in BOOLEAN
    BY DEF LinkInit, TxInit, RxInit
  <1>2. /\ txState = "IDLE" /\ tx = 1 /\ txBaud = 0 /\ txBit = 0 /\ txShift \in UartByte
        /\ rxState = "IDLE" /\ rxBaud = 0 /\ rxBit = 0 /\ rxShift \in UartByte /\ rxData \in UartByte
        /\ slips = 0 /\ inFlight = <<>> /\ latched \in UartByte
    BY FrameSizes DEF LinkInit, TxInit, RxInit
  <1>3. Wire(TxPlace - 1) = 1
    BY <1>2, FrameSizes DEF Wire, TxPlace, StopPlace
  <1>4. <<>> \in Seq(TxBytes)
    OBVIOUS
  <1> QED
    BY <1>1, <1>2, <1>3, <1>4, FrameSizes
       DEF SideInv, LinkTypeOK, TxTypeOK, RxTypeOK, TxFollows, RxFollows, UartState, Waiting

LEMMA SidesInductive == SideInv /\ [LinkNext]_linkVars => SideInv'
  BY TickSides, ResetSides, StillSides DEF LinkNext

\* What a tick does to the two sides together.
LEMMA TickTracks ==
    ASSUME Tolerance, LinkInv, Tick
    PROVE  /\ ~torn' => Tracking'
           /\ DeliversNext /\ ~torn => inFlight # <<>> /\ rxData' = Head(inFlight)
  <1>1. LinkTypeOK /\ TxFollows /\ RxFollows /\ LinkTypeOK' /\ (torn => inFlight = <<>>)
    BY TickSides DEF LinkInv, SideInv
  <1>2. CASE ~torn /\ Receiving
    <2>1. InFrame
      BY <1>1, <1>2 DEF InFrame
    <2> QED
      BY <1>1, <2>1, ReceivingTogether, ReceivingTxAhead, ReceivingRxAhead DEF Tick
  <1>3. CASE IF torn THEN Quiet ELSE Waiting \/ Starting \/ Ending
    <2>1. rxState = "IDLE"
      BY <1>3 DEF Quiet, Waiting, Starting, Ending
    <2>2. PICK start \in BOOLEAN, byte \in TxBytes : Uses(start) /\ Together(start, byte)
      BY <2>1 DEF Tick, TxAhead, RxAhead
    <2> QED
      BY <1>1, <1>3, <2>2, WaitingTogether
  <1>4. CASE torn /\ ~Quiet
    <2>1. \A start, byte : History(start, byte) => torn'
      BY <1>4 DEF History
    <2> QED
      BY <1>4, <2>1 DEF Tick, Together, TxAhead, RxAhead
  <1> QED
    BY <1>2, <1>3, <1>4 DEF LinkInv, Tracking

LEMMA NoDeliveryInReset ==
    LinkReset \/ SenderReset \/ ReceiverReset => ~DeliversNext
  BY DEF LinkReset, SenderReset, ReceiverReset, RxReset, rxVars, DeliversNext

LEMMA LinkInductive == Tolerance /\ LinkInv /\ [LinkNext]_linkVars => LinkInv'
  <1> SUFFICES ASSUME Tolerance, LinkInv, [LinkNext]_linkVars PROVE LinkInv'
    OBVIOUS
  <1>1. SideInv'
    BY SidesInductive DEF LinkInv
  <1>2. ~torn' => Tracking'
    <2>1. CASE Tick
      BY <2>1, TickTracks
    <2>2. CASE LinkReset \/ SenderReset \/ ReceiverReset
      BY <2>2, ResetSides DEF LinkInv, Tracking
    <2>3. CASE UNCHANGED linkVars
      BY <2>3, StillSides DEF LinkInv, linkVars
    <2> QED
      BY <2>1, <2>2, <2>3 DEF LinkNext
  <1> QED
    BY <1>1, <1>2 DEF LinkInv
-------------------------------------------------------------------------------
(* The theorems.                                                               *)

LEMMA SidesAlways == LinkSpec => []SideInv
  <1>1. LinkInit => SideInv
    BY InitSides
  <1> QED
    BY <1>1, SidesInductive, PTL DEF LinkSpec

\* The counters and shift registers of both machines keep the widths uart.sv and
\* uart_rx.sv give them, at any drift and with resets at any time.
THEOREM LinkTypeCorrect == LinkSpec => []LinkTypeOK
  <1>1. SideInv => LinkTypeOK
    BY DEF SideInv
  <1> QED
    BY <1>1, SidesAlways, PTL

\* Within the tolerance the two machines stay in step from the falling edge of the
\* start bit to the last sample, whatever the drift does in between.
THEOREM LinkInvariant == ASSUME Tolerance PROVE LinkSpec => []LinkInv
  <1>1. LinkInit => LinkInv
    BY InitSides DEF LinkInv, Tracking
  <1>2. LinkInv /\ [LinkNext]_linkVars => LinkInv'
    BY LinkInductive
  <1> QED
    BY <1>1, <1>2, PTL DEF LinkSpec

\* The receiver is free again before the transmitter can accept another byte, and
\* never sleeps through a start bit.
THEOREM NeverAFrameBehind == ASSUME Tolerance PROVE LinkSpec => []AtMostOneFrameBehind
  <1>1. ASSUME LinkInv PROVE AtMostOneFrameBehind
    <2>1. Len(<<>>) <= 1 /\ Len(<<latched>>) <= 1
      OBVIOUS
    <2>2. inFlight = <<>> \/ (inFlight = <<latched>> /\ ~torn /\ Tracking)
      BY <1>1 DEF LinkInv, SideInv, Tracking, Waiting, Starting, Receiving, Ending
    <2>3. Len(inFlight) <= 1
      <3>1. CASE inFlight = <<>>
        BY <2>1, <3>1, Zenon
      <3>2. CASE inFlight = <<latched>>
        BY <2>1, <3>2, Zenon
      <3> QED
        BY <2>2, <3>1, <3>2
    <2>4. inFlight # <<>> /\ rxState = "IDLE" => txState = "START" /\ txBaud <= 1
      BY <2>2 DEF Tracking, Waiting, Starting, Receiving, Ending
    <2> QED
      BY <2>3, <2>4 DEF AtMostOneFrameBehind
  <1> QED
    BY <1>1, LinkInvariant, PTL

\* Every byte the receiver of uart_rx.sv reports is the one the transmitter of
\* uart.sv was given, in order, for any length of the byte, any number of cycles per
\* bit and any drift up to the tolerance, and from the first frame after a reset
\* of one side once both have been idle.
THEOREM BytesAreIntact == ASSUME Tolerance PROVE LinkSpec => BytesArriveIntact
  <1>1. LinkInv /\ [LinkNext]_linkVars
           => [DeliversNext /\ ~torn => inFlight # <<>> /\ rxData' = Head(inFlight)]_linkVars
    BY TickTracks, NoDeliveryInReset DEF LinkNext
  <1> QED
    BY <1>1, LinkInvariant, PTL DEF LinkSpec, BytesArriveIntact

\* To its user the transmitter takes only the steps of TxPort, which the theorems about
\* the processor are stated against: busy rises with the start pulse that latches a
\* byte, and the byte stays until busy has fallen. That it falls is left to the runs.
THEOREM TransmitterIsThePort == LinkSpec => ~txBusy /\ [][Port!PortNext]_<<txBusy, latched>>
  <1>1. LinkInit => ~txBusy
    BY DEF LinkInit, TxInit
  <1>2. ASSUME SideInv, LinkNext PROVE Port!PortNext \/ UNCHANGED <<txBusy, latched>>
    <2>1. ASSUME NEW start \in BOOLEAN, NEW byte, TxTick(start, byte), Uses(start),
                 History(start, byte)
          PROVE  Port!PortNext
      <3>1. CASE start
        <4>1. ~txBusy /\ txState = "IDLE"
          BY <1>2, <2>1, <3>1 DEF Uses, SideInv, TxFollows
        <4>2. txBusy' = TRUE
          BY <2>1, <3>1, <4>1 DEF TxTick, TxIdle, TxStartBit, TxDataBit, TxStopBit
        <4> QED
          BY <3>1, <4>1, <4>2 DEF Port!PortNext, Port!TxSend
      <3>2. CASE ~start
        <4>1. latched' = latched
          BY <2>1, <3>2 DEF History, Sends
        <4>2. txBusy' \in {txBusy, FALSE}
          <5>1. CASE TxIdle(start, byte)
            BY <3>2, <5>1 DEF TxIdle
          <5>2. CASE TxStartBit \/ TxDataBit
            BY <5>2 DEF TxStartBit, TxDataBit
          <5>3. CASE TxStopBit
            <6>1. txBusy' => txBusy
              BY <5>3 DEF TxStopBit
            <6>2. txBusy' \in BOOLEAN /\ txBusy \in BOOLEAN
              BY <1>2, <5>3 DEF TxStopBit, SideInv, LinkTypeOK, TxTypeOK
            <6> QED
              BY <6>1, <6>2
          <5> QED
            BY <2>1, <5>1, <5>2, <5>3 DEF TxTick
        <4> QED
          BY <3>2, <4>1, <4>2 DEF Port!PortNext, Port!TxSend
      <3> QED
        BY <3>1, <3>2
    <2>2. CASE Tick
      <3>1. CASE RxAhead
        BY <3>1 DEF RxAhead, txVars, History, Sends
      <3> QED
        BY <2>1, <2>2, <3>1 DEF Tick, Together, TxAhead
    <2>3. CASE ReceiverReset
      BY <2>3 DEF ReceiverReset, txVars
    <2>4. CASE LinkReset \/ SenderReset
      <3>1. txBusy' = FALSE /\ latched' = latched
        BY <2>4 DEF LinkReset, SenderReset, TxReset
      <3> QED
        BY <3>1 DEF Port!PortNext, Port!TxSend
    <2> QED
      BY <1>2, <2>2, <2>3, <2>4 DEF LinkNext
  <1>3. SideInv /\ [LinkNext]_linkVars => [Port!PortNext]_<<txBusy, latched>>
    BY <1>2 DEF linkVars, txVars
  <1> QED
    BY <1>1, <1>3, SidesAlways, PTL DEF LinkSpec
================================================================================
