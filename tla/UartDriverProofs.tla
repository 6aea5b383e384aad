---------------------------- MODULE UartDriverProofs ----------------------------
(* drivers/uart.c neither drops nor doubles a character, for any bytes, any    *)
(* length of lines and any pace of the line and of the transmitter; and it is  *)
(* fast enough when bytes come no closer than two of its steps. The invariant  *)
(* adds to the properties where the driver can be with a byte waiting, and how *)
(* old that byte can be.                                                       *)
EXTENDS UartDriver, SequenceTheorems, TLAPS

DriverTypeOK ==
    /\ rx_buffer \in Byte /\ rx_data_ready \in BOOLEAN /\ tx_busy \in BOOLEAN
    /\ at \in {"uart_getc", "read", "uart_gets", "uart_puts", "uart_putc", "write"}
    /\ c \in Byte /\ buffer \in Seq(Byte) /\ str \in Seq(Byte) /\ sent \in Seq(Byte)
    /\ gap \in 0 .. MinGap /\ early \in BOOLEAN /\ typed \in Seq(Byte)

\* After a poll the answer still holds when the next access relies on it: only the
\* driver takes the byte out of the holding buffer, and str moves on only at a write.
PollHolds ==
    /\ at = "read" => rx_data_ready
    /\ at \in {"uart_putc", "write"} => Head(str) # NUL

\* uart_puts does not run past the end of the string.
Terminated == ~Reading => NUL \in Range(str)

DriverInv == DriverTypeOK /\ PollHolds /\ Terminated /\ LinesAsTyped /\ AnswerBegun

\* A byte that waits while uart_gets runs, and is not a leftover of the sending, is
\* younger than the way from its arrival to the access that reads it.
FreshByte ==
    /\ ~Reading => early
    /\ Reading /\ rx_data_ready /\ ~early =>
          /\ at = "uart_gets" => gap = 0
          /\ at = "uart_getc" => gap <= 1
-------------------------------------------------------------------------------
(* Sequences.                                                                  *)

LEMMA FrontOfAppend ==
    ASSUME NEW S, NEW p \in Seq(S), NEW e \in S PROVE Front(p \o <<e>>) = p
  <1>1. /\ Append(p, e) \in Seq(S) /\ Len(Append(p, e)) = Len(p) + 1 /\ Len(p) \in Nat
        /\ \A i \in 1 .. Len(p) : Append(p, e)[i] = p[i]
        /\ p \o <<e>> = Append(p, e)
    BY AppendProperties, AppendIsConcat, LenProperties
  <1> DEFINE f == SubSeq(Append(p, e), 1, Len(p))
  <1>2. /\ f \in Seq(S) /\ Len(f) = Len(p)
        /\ \A i \in 1 .. Len(p) : f[i] = Append(p, e)[i]
    <2>1. \A i \in 1 .. Len(p) : Append(p, e)[i] \in S
      BY <1>1, ElementOfSeq
    <2> QED
      BY <1>1, <2>1, SubSeqProperties
  <1> HIDE DEF f
  <1>3. f = p
    BY <1>1, <1>2, SeqEqual
  <1> QED
    BY <1>1, <1>3 DEF f, Front

LEMMA RestOfConcat ==
    ASSUME NEW S, NEW p \in Seq(S), NEW q \in Seq(S)
    PROVE  SubSeq(p \o q, Len(p) + 1, Len(p \o q)) = q
  <1>1. /\ p \o q \in Seq(S) /\ Len(p \o q) = Len(p) + Len(q) /\ Len(p) \in Nat /\ Len(q) \in Nat
        /\ \A i \in 1 .. Len(p) + Len(q) : (p \o q)[i] = IF i <= Len(p) THEN p[i] ELSE q[i - Len(p)]
    BY ConcatProperties, LenProperties
  <1>2. CASE q = <<>>
    <2>1. Len(q) = 0
      BY <1>2
    <2> QED
      BY <1>1, <1>2, <2>1, SubSeqEmpty
  <1>3. CASE q # <<>>
    <2>1. Len(q) >= 1
      BY <1>1, <1>3, EmptySeq
    <2>2. /\ Len(p) + 1 \in Len(p) + 1 .. Len(p) + Len(q)
          /\ Len(p) + Len(q) \in Len(p) + 1 .. Len(p) + Len(q)
      BY <1>1, <2>1
    <2>3. SubSeq(p \o q, Len(p) + 1, Len(p) + Len(q)) = SubSeq(q, 1, Len(q))
      <3>1. (Len(p) + 1) - Len(p) = 1 /\ (Len(p) + Len(q)) - Len(p) = Len(q)
        BY <1>1
      <3> QED
        BY <2>2, <3>1, SubSeqOfConcat2
    <2> QED
      BY <1>1, <2>3, SubSeqFull
  <1> QED
    BY <1>2, <1>3

LEMMA HeadThenTail ==
    ASSUME NEW S, NEW p \in Seq(S), NEW q \in Seq(S), q # <<>>
    PROVE  /\ Head(q) \in S /\ Tail(q) \in Seq(S)
           /\ Append(p, Head(q)) \o Tail(q) = p \o q
  <1>1. Head(q) \in S /\ Tail(q) \in Seq(S)
    BY HeadTailProperties
  <1>2. q = <<Head(q)>> \o Tail(q)
    <2>1. Len(q) \in Nat \ {0}
      BY EmptySeq
    <2>2. SubSeq(q, 1, Len(q)) = <<q[1]>> \o SubSeq(q, 2, Len(q))
      BY <2>1, SubSeqRecursiveFirst
    <2> QED
      BY <2>2, SubSeqFull, TailIsSubSeq DEF Head
  <1>3. Append(p, Head(q)) = p \o <<Head(q)>>
    BY <1>1, AppendIsConcat
  <1>4. <<Head(q)>> \in Seq(S)
    BY <1>1
  <1>5. (p \o <<Head(q)>>) \o Tail(q) = p \o (<<Head(q)>> \o Tail(q))
    BY <1>1, <1>4, ConcatAssociative
  <1> QED
    BY <1>1, <1>2, <1>3, <1>5
LEMMA RangeOfAppend ==
    ASSUME NEW S, NEW p \in Seq(S), NEW e PROVE Range(Append(p, e)) = Range(p) \cup {e}
  <1>1. Len(p) \in Nat /\ DOMAIN p = 1 .. Len(p)
    BY LenProperties
  <1>2. /\ DOMAIN Append(p, e) = 1 .. Len(p) + 1 /\ Append(p, e)[Len(p) + 1] = e
        /\ \A i \in 1 .. Len(p) : Append(p, e)[i] = p[i]
    BY <1>1
  <1> QED
    BY <1>1, <1>2 DEF Range

\* Behind a character that is not the NUL, the NUL is still ahead.
LEMMA RangeOfTail ==
    ASSUME NEW S, NEW q \in Seq(S), NEW e \in Range(q), Head(q) # e
    PROVE  e \in Range(Tail(q))
  <1>1. PICK k \in DOMAIN q : q[k] = e
    BY DEF Range
  <1>2. Len(q) \in Nat /\ k \in 1 .. Len(q) /\ k # 1
    BY <1>1, LenProperties DEF Head
  <1>3. k - 1 \in DOMAIN Tail(q) /\ Tail(q)[k - 1] = q[k]
    BY <1>2
  <1> QED
    BY <1>1, <1>3 DEF Range

LEMMA TextBeforeNul ==
    ASSUME NEW S, NUL \in S, NEW p \in Seq(S), NEW q \in Seq(S),
           NUL \in Range(q), Head(q) = NUL, NUL \notin Range(p)
    PROVE  IsText(p, p \o q)
  <1>1. q # <<>>
    BY DEF Range
  <1>2. Append(p, NUL) \o Tail(q) = p \o q /\ Tail(q) \in Seq(S) /\ Append(p, NUL) \in Seq(S)
    BY <1>1, HeadThenTail
  <1>3. \A a, b \in Seq(S) : IsPrefix(a, a \o b)
    <2> SUFFICES ASSUME NEW a \in Seq(S), NEW b \in Seq(S) PROVE IsPrefix(a, a \o b)
      OBVIOUS
    <2>1. /\ a \o b \in Seq(S) /\ Len(a \o b) = Len(a) + Len(b) /\ Len(a) \in Nat /\ Len(b) \in Nat
          /\ \A i \in 1 .. Len(a) : (a \o b)[i] = a[i]
      BY ConcatProperties, LenProperties
    <2>2. SubSeq(a, 1, Len(a)) = SubSeq(a \o b, 1, Len(a))
      BY <2>1
    <2> QED
      BY <2>1, <2>2 DEF IsPrefix
  <1> QED
    BY <1>2, <1>3 DEF IsText
-------------------------------------------------------------------------------
(* The device: what a poll says, and what a step of the line leaves.           *)

LEMMA StatusBits ==
    ASSUME DriverTypeOK
    PROVE  /\ UART_RX_READY <=> rx_data_ready
           /\ UART_TX_BUSY <=> tx_busy
           /\ MmioRead(UartData, 0) = rx_buffer
  <1>1. MmioBase \in Int
    BY SizeAssumption DEF MmioBase
  <1>2. MmioRead(UartStatus, 0) = 2 * Bit(rx_data_ready) + Bit(tx_busy)
    BY <1>1 DEF MmioRead, UartStatus, SwitchAddr
  <1>3. MmioRead(UartData, 0) = rx_buffer
    BY <1>1 DEF MmioRead, UartStatus, UartData, SwitchAddr
  <1>4. CASE rx_data_ready
    BY <1>2, <1>3, <1>4 DEF DriverTypeOK, UART_RX_READY, UART_TX_BUSY, Bit
  <1>5. CASE ~rx_data_ready
    BY <1>2, <1>3, <1>5 DEF DriverTypeOK, UART_RX_READY, UART_TX_BUSY, Bit
  <1> QED
    BY <1>4, <1>5

LEMMA ArrivingType ==
    ASSUME NEW rx \in Arriving PROVE rx = NoRx \/ (rx \in Byte /\ rx # NoRx)
  BY RxAssumption, DriverAssumption DEF Arriving

LEMMA HeldType ==
    /\ DriverTypeOK => Held \in Seq(Byte)
    /\ rx_buffer' \in Byte => Held' \in Seq(Byte)
  <1>1. \A b \in Byte : <<b>> \in Seq(Byte)
    OBVIOUS
  <1>2. <<>> \in Seq(Byte)
    OBVIOUS
  <1> QED
    BY <1>1, <1>2 DEF Held, DriverTypeOK

LEMMA LineType ==
    ASSUME DriverTypeOK, NEW read \in BOOLEAN, NEW rx \in Arriving, NEW n, Line(read, rx, n)
    PROVE  /\ rx_buffer' \in Byte /\ rx_data_ready' \in BOOLEAN
           /\ gap' \in 0 .. MinGap /\ early' \in BOOLEAN /\ Held' \in Seq(Byte)
  <1>1. rx_buffer' \in Byte /\ rx_data_ready' \in BOOLEAN
    BY ArrivingType DEF Line, RxHold, DriverTypeOK
  <1>2. gap' \in 0 .. MinGap
    BY DriverAssumption DEF Line, DriverTypeOK
  <1>3. early' \in BOOLEAN
    BY DEF Line
  <1> QED
    BY <1>1, <1>2, <1>3, HeldType

\* Of what is typed and not in the driver's hands, only the byte in the holding
\* buffer can be overwritten, and the new byte takes its place.
LEMMA LineUnread ==
    ASSUME DriverTypeOK, NEW p \in Seq(Byte), typed = p \o Held,
           NEW rx \in Arriving, NEW n \in Nat, Line(FALSE, rx, n)
    PROVE  typed' = SubSeq(p \o Held', n + 1, Len(p \o Held'))
  <1>1. CASE rx = NoRx
    <2>1. Held' = Held
      BY <1>1 DEF Line, RxHold, Held
    <2> QED
      BY <1>1, <2>1 DEF Line
  <1>2. CASE rx # NoRx
    <2>1. rx \in Byte /\ Held' = <<rx>>
      BY <1>2, ArrivingType DEF Line, RxHold, Held
    <2>2. Kept(FALSE) = p
      BY FrontOfAppend, ConcatEmptySeq DEF Kept, Held, DriverTypeOK
    <2>3. Append(p, rx) = p \o <<rx>>
      BY <2>1, AppendIsConcat
    <2> QED
      BY <1>2, <2>1, <2>2, <2>3 DEF Line
  <1> QED
    BY <1>1, <1>2

\* The same, in the step that takes the byte out of the holding buffer.
LEMMA LineRead ==
    ASSUME DriverTypeOK, rx_data_ready, NEW rx \in Arriving, Line(TRUE, rx, 0)
    PROVE  typed' = typed \o Held'
  <1>1. typed \in Seq(Byte) /\ Len(typed) \in Nat
    BY LenProperties DEF DriverTypeOK
  <1>2. CASE rx = NoRx
    <2>1. Held' = <<>>
      BY <1>2 DEF Line, RxHold, Held
    <2>2. typed' = SubSeq(typed, 1, Len(typed))
      BY <1>2 DEF Line
    <2> QED
      BY <1>1, <2>1, <2>2, SubSeqFull, ConcatEmptySeq
  <1>3. CASE rx # NoRx
    <2>1. rx \in Byte /\ Held' = <<rx>>
      BY <1>3, ArrivingType DEF Line, RxHold, Held
    <2>2. Append(typed, rx) = typed \o <<rx>> /\ Append(typed, rx) \in Seq(Byte)
      BY <1>1, <2>1, AppendIsConcat, AppendProperties
    <2>3. typed' = SubSeq(Append(typed, rx), 1, Len(Append(typed, rx)))
      BY <1>3 DEF Line, Kept
    <2> QED
      BY <2>1, <2>2, <2>3, SubSeqFull
  <1> QED
    BY <1>2, <1>3

\* A step that leaves the holding buffer alone: the driver keeps p, or is done with it.
LEMMA MeanwhileTyped ==
    ASSUME DriverTypeOK, NEW p \in Seq(Byte), typed = p \o Held,
           NEW rx \in Arriving, NEW n \in Nat, Line(FALSE, rx, n)
    PROVE  /\ n = 0 => typed' = p \o Held'
           /\ n = Len(p) => typed' = Held'
           /\ (n = 0 \/ n = Len(p)) => typed' \in Seq(Byte)
  <1>1. Held' \in Seq(Byte)
    BY LineType
  <1>2. p \o Held' \in Seq(Byte)
    BY <1>1, ConcatProperties
  <1>3. typed' = SubSeq(p \o Held', n + 1, Len(p \o Held'))
    BY LineUnread
  <1>4. n = 0 => typed' = p \o Held'
    BY <1>2, <1>3, SubSeqFull
  <1>5. n = Len(p) => typed' = Held'
    BY <1>1, <1>3, RestOfConcat
  <1> QED
    BY <1>1, <1>2, <1>4, <1>5
-------------------------------------------------------------------------------
(* One step per access.                                                        *)

\* The characters the driver has taken and not yet answered.
Hands == IF Reading THEN buffer \o (IF at = "uart_gets" THEN <<c>> ELSE <<>>) ELSE <<>>

LEMMA HandsType ==
    DriverTypeOK =>
        /\ Hands \in Seq(Byte) /\ Held \in Seq(Byte)
        /\ at \in {"uart_getc", "read"} => Hands = buffer
        /\ at = "uart_gets" => Hands = Append(buffer, c)
        /\ ~Reading => Hands = <<>>
  <1> SUFFICES ASSUME DriverTypeOK
               PROVE  /\ Hands \in Seq(Byte) /\ Held \in Seq(Byte)
                      /\ at \in {"uart_getc", "read"} => Hands = buffer
                      /\ at = "uart_gets" => Hands = Append(buffer, c)
                      /\ ~Reading => Hands = <<>>
    OBVIOUS
  <1>1. buffer \o <<>> = buffer /\ buffer \o <<c>> = Append(buffer, c)
    BY ConcatEmptySeq, AppendIsConcat DEF DriverTypeOK
  <1>2. Append(buffer, c) \in Seq(Byte) /\ <<>> \in Seq(Byte)
    BY AppendProperties DEF DriverTypeOK
  <1>3. Held \in Seq(Byte)
    BY HeldType
  <1> QED
    BY <1>1, <1>2, <1>3 DEF Hands, Reading, DriverTypeOK

LEMMA TypedByHands == LinesAsTyped <=> typed = Hands \o Held
  BY DEF LinesAsTyped, Hands

LEMMA HandsNext ==
    /\ DriverTypeOK' =>
          /\ at' \in {"uart_getc", "read"} => Hands' = buffer'
          /\ at' = "uart_gets" => Hands' = Append(buffer', c')
          /\ ~Reading' => Hands' = <<>>
    /\ LinesAsTyped' <=> typed' = Hands' \o Held'
  <1>1. LinesAsTyped' <=> typed' = Hands' \o Held'
    BY DEF LinesAsTyped, Hands
  <1>2. ASSUME DriverTypeOK'
        PROVE  buffer' \o <<>> = buffer' /\ buffer' \o <<c'>> = Append(buffer', c')
    BY <1>2, ConcatEmptySeq, AppendIsConcat DEF DriverTypeOK
  <1>3. <<>> \o <<>> = <<>>
    OBVIOUS
  <1> QED
    BY <1>1, <1>2, <1>3 DEF Hands, Reading

\* A step in which the driver takes nothing, moves on, and may finish the line.
LEMMA MeanwhileStep ==
    ASSUME DriverInv, NEW rx \in Arriving, NEW n \in Nat, Line(FALSE, rx, n),
           tx_busy' \in BOOLEAN, n = 0 \/ n = Len(Hands)
    PROVE  /\ rx_buffer' \in Byte /\ rx_data_ready' \in BOOLEAN /\ gap' \in 0 .. MinGap
           /\ early' \in BOOLEAN /\ Held' \in Seq(Byte) /\ typed' \in Seq(Byte)
           /\ n = 0 => typed' = Hands \o Held'
           /\ n = Len(Hands) => typed' = Held'
           /\ rx_data_ready => rx_data_ready'
  <1>1. DriverTypeOK /\ typed = Hands \o Held /\ Hands \in Seq(Byte)
    BY HandsType, TypedByHands DEF DriverInv
  <1>2. rx_data_ready => rx_data_ready'
    BY DEF Line, RxHold
  <1> QED
    BY <1>1, <1>2, LineType, MeanwhileTyped

LEMMA InitDriver == Init => DriverInv
  <1> SUFFICES ASSUME Init PROVE DriverInv
    OBVIOUS
  <1>3. <<>> \in Seq(Byte)
    OBVIOUS
  <1>1. DriverTypeOK
    <2>1. 0 \in Byte /\ MinGap \in 0 .. MinGap
      BY SizeAssumption, DriverAssumption DEF Byte
    <2> QED
      BY <1>3, <2>1 DEF Init, PortsInit, DriverTypeOK
  <1>2. Held = <<>> /\ Reading
    BY DEF Init, PortsInit, Held, Reading
  <1>4. <<>> \o <<>> = <<>>
    BY <1>3, ConcatEmptySeq
  <1> QED
    BY <1>1, <1>2, <1>4 DEF Init, DriverInv, PollHolds, Terminated, LinesAsTyped, AnswerBegun

LEMMA PollReceiverStep == DriverInv /\ PollReceiver => DriverInv'
  <1> SUFFICES ASSUME DriverInv, PollReceiver PROVE DriverInv'
    OBVIOUS
  <1>1. PICK rx \in Arriving : Line(FALSE, rx, 0)
    BY DEF PollReceiver, Meanwhile
  <1>2. DriverTypeOK /\ at = "uart_getc" /\ Reading /\ Reading'
    BY DEF DriverInv, PollReceiver, Goto, Reading
  <1>3. tx_busy' \in BOOLEAN
    BY DEF PollReceiver, Meanwhile, TxSend, DriverInv, DriverTypeOK
  <1>4. /\ rx_buffer' \in Byte /\ rx_data_ready' \in BOOLEAN /\ gap' \in 0 .. MinGap
        /\ early' \in BOOLEAN /\ typed' \in Seq(Byte)
        /\ typed' = Hands \o Held'
        /\ rx_data_ready => rx_data_ready'
    BY <1>1, <1>3, MeanwhileStep
  <1>5. DriverTypeOK'
    BY <1>2, <1>3, <1>4 DEF DriverTypeOK, PollReceiver, Goto
  <1>6. PollHolds'
    BY <1>2, <1>4, StatusBits DEF PollHolds, PollReceiver, Goto
  <1>7. Hands = buffer /\ Hands' = buffer'
    BY <1>2, <1>5, HandsType, HandsNext DEF PollReceiver, Goto
  <1>8. LinesAsTyped'
    BY <1>4, <1>7, HandsNext DEF PollReceiver
  <1> QED
    BY <1>2, <1>5, <1>6, <1>8 DEF DriverInv, Terminated, AnswerBegun

LEMMA StoreCharacterStep == DriverInv /\ StoreCharacter => DriverInv'
  <1> SUFFICES ASSUME DriverInv, StoreCharacter PROVE DriverInv'
    OBVIOUS
  <1>1. PICK rx \in Arriving : Line(FALSE, rx, 0)
    BY DEF StoreCharacter, Meanwhile
  <1>2. DriverTypeOK /\ at = "uart_gets" /\ Hands \in Seq(Byte)
    BY HandsType DEF DriverInv, StoreCharacter, Goto
  <1>3. tx_busy' \in BOOLEAN
    BY DEF StoreCharacter, Meanwhile, TxSend, DriverInv, DriverTypeOK
  <1>4. /\ rx_buffer' \in Byte /\ rx_data_ready' \in BOOLEAN /\ gap' \in 0 .. MinGap
        /\ early' \in BOOLEAN /\ Held' \in Seq(Byte) /\ typed' \in Seq(Byte)
        /\ typed' = Hands \o Held'
    BY <1>1, <1>3, MeanwhileStep
  <1>5. DriverTypeOK'
    <2>1. buffer' \in Seq(Byte)
      BY <1>2, AppendProperties DEF StoreCharacter, DriverTypeOK
    <2> QED
      BY <1>2, <1>3, <1>4, <2>1 DEF DriverTypeOK, StoreCharacter, Goto
  <1>6. Hands = Append(buffer, c) /\ Hands' = Append(buffer, c)
    BY <1>2, <1>5, HandsType, HandsNext DEF StoreCharacter, Goto
  <1>7. LinesAsTyped'
    BY <1>4, <1>6, HandsNext
  <1> QED
    BY <1>5, <1>7 DEF DriverInv, PollHolds, Terminated, AnswerBegun, Reading, StoreCharacter, Goto

LEMMA FinishLineStep == DriverInv /\ FinishLine => DriverInv'
  <1> SUFFICES ASSUME DriverInv, FinishLine PROVE DriverInv'
    OBVIOUS
  <1>1. PICK rx \in Arriving : Line(FALSE, rx, Len(buffer) + 1)
    BY DEF FinishLine, Meanwhile
  <1>2. DriverTypeOK /\ at = "uart_gets" /\ Hands \in Seq(Byte)
    BY HandsType DEF DriverInv, FinishLine, Goto
  <1>3. tx_busy' \in BOOLEAN
    BY DEF FinishLine, Meanwhile, TxSend, DriverInv, DriverTypeOK
  <1>4. Hands = Append(buffer, c) /\ Len(Hands) = Len(buffer) + 1 /\ Len(Hands) \in Nat
    BY <1>2, HandsType, AppendProperties, LenProperties DEF DriverTypeOK
  <1>5. /\ rx_buffer' \in Byte /\ rx_data_ready' \in BOOLEAN /\ gap' \in 0 .. MinGap
        /\ early' \in BOOLEAN /\ Held' \in Seq(Byte) /\ typed' \in Seq(Byte)
        /\ typed' = Held'
    BY <1>1, <1>3, <1>4, MeanwhileStep
  <1>6. /\ <<>> \in Seq(Byte) /\ <<>> \o buffer = buffer /\ <<>> \o Held' = Held'
    BY <1>2, <1>5, ConcatEmptySeq DEF DriverTypeOK
  <1>7. str' \in Seq(Byte) /\ buffer' = str' /\ <<>> \o str' = buffer' /\ NUL \in Range(str')
    <2>1. NUL \in Byte
      BY SizeAssumption DEF NUL, Byte
    <2>2. str' = Append(buffer, NUL) /\ buffer' = str' /\ str' \in Seq(Byte)
      BY <1>2, <2>1, AppendProperties DEF FinishLine, DriverTypeOK
    <2> QED
      BY <1>2, <2>2, ConcatEmptySeq, RangeOfAppend DEF DriverTypeOK
  <1>8. DriverTypeOK'
    BY <1>2, <1>3, <1>5, <1>6, <1>7 DEF DriverTypeOK, FinishLine, Goto
  <1>9. Hands' = <<>> /\ ~Reading'
    BY <1>8, HandsNext DEF FinishLine, Goto, Reading
  <1>10. LinesAsTyped'
    BY <1>5, <1>6, <1>9, HandsNext
  <1>11. sent' = <<>> /\ AnswerBegun' /\ Terminated'
    BY <1>7 DEF AnswerBegun, Terminated, FinishLine, Range
  <1> QED
    BY <1>8, <1>10, <1>11 DEF DriverInv, PollHolds, FinishLine, Goto

LEMMA PutCharacterStep == DriverInv /\ PutCharacter => DriverInv'
  <1> SUFFICES ASSUME DriverInv, PutCharacter PROVE DriverInv'
    OBVIOUS
  <1>1. PICK rx \in Arriving : Line(FALSE, rx, 0)
    BY DEF PutCharacter, Meanwhile
  <1>2. DriverTypeOK /\ at = "uart_puts" /\ Hands \in Seq(Byte)
    BY HandsType DEF DriverInv, PutCharacter, Goto
  <1>3. tx_busy' \in BOOLEAN
    BY DEF PutCharacter, Meanwhile, TxSend, DriverInv, DriverTypeOK
  <1>4. /\ rx_buffer' \in Byte /\ rx_data_ready' \in BOOLEAN /\ gap' \in 0 .. MinGap
        /\ early' \in BOOLEAN /\ Held' \in Seq(Byte) /\ typed' \in Seq(Byte)
        /\ typed' = Hands \o Held'
    BY <1>1, <1>3, MeanwhileStep
  <1>5. DriverTypeOK'
    BY <1>2, <1>3, <1>4 DEF DriverTypeOK, PutCharacter, Goto
  <1>6. ~Reading /\ ~Reading' /\ Hands = <<>> /\ Hands' = <<>>
    BY <1>2, <1>5, HandsType, HandsNext DEF PutCharacter, Goto, Reading
  <1>7. LinesAsTyped' /\ AnswerBegun'
    BY <1>4, <1>6, HandsNext DEF DriverInv, AnswerBegun, PutCharacter
  <1> QED
    BY <1>5, <1>6, <1>7 DEF DriverInv, PollHolds, Terminated, PutCharacter, Goto

LEMMA PollTransmitterStep == DriverInv /\ PollTransmitter => DriverInv'
  <1> SUFFICES ASSUME DriverInv, PollTransmitter PROVE DriverInv'
    OBVIOUS
  <1>1. PICK rx \in Arriving : Line(FALSE, rx, 0)
    BY DEF PollTransmitter, Meanwhile
  <1>2. DriverTypeOK /\ at = "uart_putc" /\ Hands \in Seq(Byte)
    BY HandsType DEF DriverInv, PollTransmitter, Goto
  <1>3. tx_busy' \in BOOLEAN
    BY DEF PollTransmitter, Meanwhile, TxSend, DriverInv, DriverTypeOK
  <1>4. /\ rx_buffer' \in Byte /\ rx_data_ready' \in BOOLEAN /\ gap' \in 0 .. MinGap
        /\ early' \in BOOLEAN /\ Held' \in Seq(Byte) /\ typed' \in Seq(Byte)
        /\ typed' = Hands \o Held'
    BY <1>1, <1>3, MeanwhileStep
  <1>5. DriverTypeOK'
    BY <1>2, <1>3, <1>4 DEF DriverTypeOK, PollTransmitter, Goto
  <1>6. ~Reading /\ ~Reading' /\ Hands = <<>> /\ Hands' = <<>>
    BY <1>2, <1>5, HandsType, HandsNext DEF PollTransmitter, Goto, Reading
  <1>7. LinesAsTyped' /\ AnswerBegun'
    BY <1>4, <1>6, HandsNext DEF DriverInv, AnswerBegun, PollTransmitter
  <1> QED
    BY <1>5, <1>6, <1>7 DEF DriverInv, PollHolds, Terminated, PollTransmitter, Goto

LEMMA WriteDataStep == DriverInv /\ WriteData => DriverInv'
  <1> SUFFICES ASSUME DriverInv, WriteData PROVE DriverInv'
    OBVIOUS
  <1>1. PICK rx \in Arriving : Line(FALSE, rx, 0)
    BY DEF WriteData, Meanwhile
  <1>2. DriverTypeOK /\ at = "write" /\ Hands \in Seq(Byte)
    BY HandsType DEF DriverInv, WriteData, Goto
  <1>3. tx_busy' \in BOOLEAN
    BY DEF WriteData, Meanwhile, TxSend, DriverInv, DriverTypeOK
  <1>4. /\ rx_buffer' \in Byte /\ rx_data_ready' \in BOOLEAN /\ gap' \in 0 .. MinGap
        /\ early' \in BOOLEAN /\ Held' \in Seq(Byte) /\ typed' \in Seq(Byte)
        /\ typed' = Hands \o Held'
    BY <1>1, <1>3, MeanwhileStep
  <1>5. /\ Head(str) \in Byte /\ Tail(str) \in Seq(Byte)
        /\ Append(sent, Head(str)) \o Tail(str) = sent \o str
        /\ Append(sent, Head(str)) \in Seq(Byte)
        /\ NUL \in Range(Tail(str)) /\ NUL \notin Range(Append(sent, Head(str)))
    <2>1. Head(str) # NUL /\ NUL \in Range(str) /\ NUL \notin Range(sent) /\ str # <<>>
      BY <1>2 DEF DriverInv, PollHolds, Terminated, AnswerBegun, Reading, Range
    <2>2. sent \in Seq(Byte) /\ str \in Seq(Byte)
      BY <1>2 DEF DriverTypeOK
    <2>3. /\ Head(str) \in Byte /\ Tail(str) \in Seq(Byte)
          /\ Append(sent, Head(str)) \o Tail(str) = sent \o str
      BY <2>1, <2>2, HeadThenTail
    <2>4. Append(sent, Head(str)) \in Seq(Byte)
      BY <2>2, <2>3, AppendProperties
    <2>5. NUL \in Range(Tail(str))
      BY <2>1, <2>2, RangeOfTail
    <2>6. Range(Append(sent, Head(str))) = Range(sent) \cup {Head(str)}
      BY <2>2, RangeOfAppend
    <2> QED
      BY <2>1, <2>3, <2>4, <2>5, <2>6
  <1>6. DriverTypeOK'
    BY <1>2, <1>3, <1>4, <1>5 DEF DriverTypeOK, WriteData, Goto
  <1>7. ~Reading /\ ~Reading' /\ Hands = <<>> /\ Hands' = <<>>
    BY <1>2, <1>6, HandsType, HandsNext DEF WriteData, Goto, Reading
  <1>8. LinesAsTyped' /\ AnswerBegun'
    BY <1>4, <1>5, <1>7, HandsNext DEF DriverInv, AnswerBegun, WriteData
  <1> QED
    BY <1>5, <1>6, <1>8 DEF DriverInv, PollHolds, Terminated, WriteData, Goto

LEMMA PutsReturnsStep == DriverInv /\ PutsReturns => DriverInv'
  <1> SUFFICES ASSUME DriverInv, PutsReturns PROVE DriverInv'
    OBVIOUS
  <1>1. PICK rx \in Arriving : Line(FALSE, rx, 0)
    BY DEF PutsReturns, Meanwhile
  <1>2. DriverTypeOK /\ at = "uart_puts" /\ Hands \in Seq(Byte)
    BY HandsType DEF DriverInv, PutsReturns, Goto
  <1>3. tx_busy' \in BOOLEAN
    BY DEF PutsReturns, Meanwhile, TxSend, DriverInv, DriverTypeOK
  <1>4. /\ rx_buffer' \in Byte /\ rx_data_ready' \in BOOLEAN /\ gap' \in 0 .. MinGap
        /\ early' \in BOOLEAN /\ Held' \in Seq(Byte) /\ typed' \in Seq(Byte)
        /\ typed' = Hands \o Held'
    BY <1>1, <1>3, MeanwhileStep
  <1>5. DriverTypeOK'
    <2>1. buffer' \in Seq(Byte)
      BY DEF PutsReturns
    <2> QED
      BY <1>2, <1>3, <1>4, <2>1 DEF DriverTypeOK, PutsReturns, Goto
  <1>6. Hands = <<>> /\ Hands' = <<>> /\ Reading'
    BY <1>2, <1>5, HandsType, HandsNext DEF PutsReturns, Goto, Reading
  <1>7. LinesAsTyped'
    BY <1>4, <1>6, HandsNext
  <1> QED
    BY <1>5, <1>6, <1>7 DEF DriverInv, PollHolds, Terminated, AnswerBegun, PutsReturns, Goto

LEMMA ReadDataStep == DriverInv /\ ReadData => DriverInv'
  <1> SUFFICES ASSUME DriverInv, ReadData PROVE DriverInv'
    OBVIOUS
  <1>1. PICK rx \in Arriving : Line(TRUE, rx, 0)
    BY DEF ReadData
  <1>2. /\ DriverTypeOK /\ at = "read" /\ rx_data_ready
        /\ Hands = buffer /\ Held = <<rx_buffer>> /\ typed = buffer \o <<rx_buffer>>
    BY HandsType, TypedByHands DEF DriverInv, PollHolds, ReadData, Goto, Held
  <1>3. /\ rx_buffer' \in Byte /\ rx_data_ready' \in BOOLEAN /\ gap' \in 0 .. MinGap
        /\ early' \in BOOLEAN /\ Held' \in Seq(Byte)
    BY <1>1, <1>2, LineType
  <1>4. typed' = typed \o Held' /\ c' = rx_buffer
    BY <1>1, <1>2, LineRead, StatusBits DEF ReadData
  <1>5. typed = Append(buffer, c')
    BY <1>2, <1>4, AppendIsConcat DEF DriverTypeOK
  <1>6. DriverTypeOK'
    <2>1. typed' \in Seq(Byte)
      BY <1>2, <1>3, <1>4, ConcatProperties DEF DriverTypeOK
    <2>2. tx_busy' \in BOOLEAN
      BY <1>2 DEF ReadData, TxSend, DriverTypeOK
    <2> QED
      BY <1>2, <1>3, <1>4, <2>1, <2>2 DEF DriverTypeOK, ReadData, Goto
  <1>7. Hands' = Append(buffer, c')
    BY <1>6, HandsNext DEF ReadData, Goto
  <1>8. LinesAsTyped'
    BY <1>4, <1>5, <1>7, HandsNext
  <1> QED
    BY <1>6, <1>8 DEF DriverInv, PollHolds, Terminated, AnswerBegun, Reading, ReadData, Goto

LEMMA StepDriver == DriverInv /\ [Next]_vars => DriverInv'
  <1>1. ASSUME DriverInv, UNCHANGED vars PROVE DriverInv'
    BY <1>1 DEF vars, portVars, driverVars, lineVars, DriverInv, DriverTypeOK, PollHolds,
                Terminated, LinesAsTyped, AnswerBegun, Reading, Held
  <1> QED
    BY <1>1, PollReceiverStep, ReadDataStep, StoreCharacterStep, FinishLineStep,
       PutCharacterStep, PollTransmitterStep, WriteDataStep, PutsReturnsStep DEF Next

\* The driver's invariant, whatever comes on the line and whenever.
THEOREM DriverInvariant == Spec => []DriverInv
  BY InitDriver, StepDriver, PTL DEF Spec

\* uart_getc and uart_gets hand over exactly what the line delivered: a byte that
\* arrives before, between or at the driver's two accesses is taken once.
THEOREM LinesAreAsTyped == Spec => []LinesAsTyped
  <1>1. DriverInv => LinesAsTyped
    BY DEF DriverInv
  <1> QED
    BY <1>1, DriverInvariant, PTL

\* uart_puts sends the text of the line it was given, up to the first NUL, in it or
\* behind it, character for character, and returns when it has sent it all.
THEOREM AnswersAreTheLine == Spec => AnswersTheLine
  <1>1. DriverInv' => AnswerBegun'
    BY DEF DriverInv
  <1>2. ASSUME DriverInv, Next, ~Reading, Reading' PROVE IsText(sent, buffer)
    <2>1. at = "uart_puts" /\ Head(str) = NUL
      BY <1>2 DEF Next, PollReceiver, ReadData, StoreCharacter, FinishLine, PutCharacter,
                  PollTransmitter, WriteData, PutsReturns, Goto, Reading
    <2>2. NUL \in Byte /\ sent \in Seq(Byte) /\ str \in Seq(Byte)
      BY <1>2, SizeAssumption DEF DriverInv, DriverTypeOK, NUL, Byte
    <2>3. NUL \in Range(str) /\ NUL \notin Range(sent) /\ buffer = sent \o str
      BY <1>2 DEF DriverInv, Terminated, AnswerBegun
    <2> QED
      BY <2>1, <2>2, <2>3, TextBeforeNul
  <1>3. DriverInv /\ DriverInv' /\ [Next]_vars
          => [AnswerBegun' /\ (~Reading /\ Reading' => IsText(sent, buffer))]_vars
    BY <1>1, <1>2
  <1> QED
    BY <1>3, DriverInvariant, PTL DEF Spec, AnswersTheLine
-------------------------------------------------------------------------------
(* How fast the driver has to be.                                              *)

LEMMA InitFresh == Init => FreshByte
  BY DEF Init, PortsInit, FreshByte, Reading

LEMMA StepFresh == MinGap >= 2 /\ DriverInv /\ FreshByte /\ [Next]_vars => FreshByte'
  <1> SUFFICES ASSUME MinGap >= 2, DriverInv, FreshByte, [Next]_vars PROVE FreshByte'
    OBVIOUS
  <1>0. /\ gap \in 0 .. MinGap /\ early \in BOOLEAN /\ rx_data_ready \in BOOLEAN
        /\ MinGap \in Nat
    BY DriverAssumption DEF DriverInv, DriverTypeOK
  <1>1. ASSUME NEW rx \in Arriving, NEW n, Line(FALSE, rx, n),
               at' = "uart_getc" => at = "uart_gets" \/ ~Reading \/ (at = "uart_getc" /\ ~rx_data_ready),
               at' # "uart_gets"
        PROVE  FreshByte'
    <2>1. early' = (~Reading' \/ (rx = NoRx /\ early))
      BY <1>1 DEF Line
    <2>2. CASE rx # NoRx
      <3>1. gap' = 0 /\ gap' <= 1
        BY <1>1, <2>2 DEF Line
      <3>2. ~Reading' => early'
        BY <2>1
      <3> QED
        BY <3>1, <3>2 DEF FreshByte
    <2>3. CASE rx = NoRx
      <3>1. rx_data_ready' = rx_data_ready /\ gap' = IF gap < MinGap THEN gap + 1 ELSE gap
        BY <1>1, <2>3 DEF Line, RxHold
      <3>2. at = "uart_gets" /\ rx_data_ready /\ ~early => gap = 0
        BY DEF FreshByte, Reading
      <3>3. ~Reading => early
        BY DEF FreshByte
      <3>4. rx_data_ready' /\ ~early' /\ at' = "uart_getc" => gap' <= 1
        BY <1>0, <1>1, <2>1, <2>3, <3>1, <3>2, <3>3
      <3> QED
        BY <1>1, <2>1, <3>4 DEF FreshByte
    <2> QED
      BY <2>2, <2>3
  <1>2. ASSUME ReadData PROVE FreshByte'
    <2>1. PICK rx \in Arriving : Line(TRUE, rx, 0)
      BY <1>2 DEF ReadData
    <2> QED
      BY <1>0, <1>2, <2>1 DEF FreshByte, Line, RxHold, ReadData, Goto, Reading
  <1>3. ASSUME PollReceiver PROVE FreshByte'
    BY <1>1, <1>3, StatusBits DEF PollReceiver, Goto, Meanwhile, DriverInv
  <1>4. ASSUME StoreCharacter \/ FinishLine \/ PutCharacter PROVE FreshByte'
    BY <1>1, <1>4 DEF StoreCharacter, FinishLine, PutCharacter, Goto, Meanwhile
  <1>5. ASSUME PollTransmitter \/ WriteData \/ PutsReturns PROVE FreshByte'
    BY <1>1, <1>5 DEF PollTransmitter, WriteData, PutsReturns, Goto, Meanwhile, Reading
  <1>6. CASE UNCHANGED vars
    BY <1>6 DEF vars, portVars, driverVars, lineVars, FreshByte, Reading
  <1> QED
    BY <1>2, <1>3, <1>4, <1>5, <1>6 DEF Next

\* A byte that arrives while uart_gets runs finds the holding buffer empty, or in
\* the very access that empties it, when bytes are two steps apart: with
\* MinGap = 1 the loop of uart_gets, three accesses long, would fall behind.
THEOREM NoOverrun == ASSUME MinGap >= 2 PROVE Spec => NoOverrunWhileReading
  <1>1. ASSUME DriverInv, FreshByte, Next, Reading, gap' = 0, rx_data_ready, ~early
        PROVE  at = "read"
    <2>0. gap \in 0 .. MinGap /\ MinGap \in Nat
      BY <1>1, DriverAssumption DEF DriverInv, DriverTypeOK
    <2>1. PICK read \in BOOLEAN, rx \in Arriving, n \in {0, Len(buffer) + 1} : Line(read, rx, n)
      BY <1>1 DEF Next, PollReceiver, ReadData, StoreCharacter, FinishLine, PutCharacter,
                  PollTransmitter, WriteData, PutsReturns, Meanwhile
    <2>2. gap = MinGap
      BY <1>1, <2>0, <2>1 DEF Line, Arriving
    <2> QED
      BY <1>1, <2>0, <2>2 DEF FreshByte, Reading
  <1>2. DriverInv /\ FreshByte /\ [Next]_vars
           => [Reading /\ gap' = 0 /\ rx_data_ready /\ ~early => at = "read"]_vars
    BY <1>1
  <1>3. DriverInv /\ FreshByte /\ [Next]_vars => FreshByte'
    BY StepFresh
  <1> QED
    BY <1>2, <1>3, InitFresh, DriverInvariant, PTL DEF Spec, NoOverrunWhileReading
-------------------------------------------------------------------------------
(* How much a line needs.                                                      *)

\* Room for n characters of a line that has not ended, and the one that waits.
Fits(n, ready, byte, col) ==
    IF ready THEN IF byte \in LineEnds THEN n <= MaxLine ELSE n + 1 <= col ELSE n <= col

\* The characters of a line that has not ended are among those the operator has typed
\* since the last line end, which the holding buffer may still have.
InRoom ==
    /\ column \in 0 .. MaxLine
    /\ at \in {"uart_getc", "read"} => Fits(Len(buffer), rx_data_ready, rx_buffer, column)
    /\ at = "uart_gets" =>
          IF c \in LineEnds THEN Len(buffer) <= MaxLine /\ Fits(0, rx_data_ready, rx_buffer, column)
          ELSE Fits(Len(buffer) + 1, rx_data_ready, rx_buffer, column)
    /\ ~Reading => Len(buffer) <= MaxLine + 1 /\ Fits(0, rx_data_ready, rx_buffer, column)

\* A byte left over from the sending is the first of its line that is read.
LeftoverFirst == Reading /\ Leftover => at \in {"uart_getc", "read"} /\ buffer = <<>>

LineInv == DriverInv /\ FreshByte /\ LeftoverFirst /\ InRoom

LEMMA LineRoom ==
    ASSUME DriverTypeOK, column \in 0 .. MaxLine, NEW read, NEW rx \in Arriving, NEW n, Line(read, rx, n)
    PROVE  /\ column' \in 0 .. MaxLine
           /\ \A m \in Nat : /\ Fits(m, rx_data_ready, rx_buffer, column)
                            /\ read = FALSE /\ (rx # NoRx => ~rx_data_ready \/ m = 0)
                            => Fits(m, rx_data_ready', rx_buffer', column')
           /\ \A m \in Nat : /\ Fits(m, rx_data_ready, rx_buffer, column)
                            /\ read = TRUE /\ rx_data_ready
                            => IF rx_buffer \in LineEnds
                               THEN m <= MaxLine /\ Fits(0, rx_data_ready', rx_buffer', column')
                               ELSE Fits(m + 1, rx_data_ready', rx_buffer', column')
  <1>1. MaxLine \in Nat /\ rx_data_ready \in BOOLEAN
    BY DriverAssumption DEF DriverTypeOK
  <1>2. /\ rx_buffer' = IF rx # NoRx THEN rx ELSE rx_buffer
        /\ rx_data_ready' = IF rx # NoRx THEN TRUE ELSE IF read THEN FALSE ELSE rx_data_ready
        /\ column' = IF rx = NoRx THEN column ELSE IF rx \in LineEnds THEN 0 ELSE column + 1
    BY DEF Line, RxHold
  <1>3. rx # NoRx /\ rx \notin LineEnds => column < MaxLine
    BY <1>1 DEF Arriving
  <1> QED
    BY <1>1, <1>2, <1>3 DEF Fits

\* When a byte comes while uart_gets runs, the byte that waits is a leftover or is
\* being read.
LEMMA NoneWaits ==
    ASSUME MinGap >= 2, DriverInv, FreshByte, Reading, at # "read", rx_data_ready, ~early,
           NEW rx \in Arriving
    PROVE  rx = NoRx
  <1>1. gap \in 0 .. MinGap /\ MinGap \in Nat
    BY DriverAssumption DEF DriverInv, DriverTypeOK
  <1>2. gap <= 1
    BY <1>1 DEF FreshByte, Reading
  <1> QED
    BY <1>1, <1>2 DEF Arriving

LEMMA InitLine == Init => LineInv
  <1> SUFFICES ASSUME Init PROVE LineInv
    OBVIOUS
  <1>1. DriverInv /\ FreshByte
    BY InitDriver, InitFresh
  <1>2. Len(buffer) = 0 /\ MaxLine \in Nat
    BY DriverAssumption DEF Init
  <1>3. LeftoverFirst /\ InRoom
    BY <1>2 DEF Init, PortsInit, LeftoverFirst, Leftover, InRoom, Fits, Reading
  <1> QED
    BY <1>1, <1>3 DEF LineInv

LEMMA StepLine == MinGap >= 2 /\ LineInv /\ [Next]_vars => LineInv'
  <1> SUFFICES ASSUME MinGap >= 2, LineInv, [Next]_vars PROVE LineInv'
    OBVIOUS
  <1>1. /\ DriverInv /\ DriverTypeOK /\ FreshByte /\ LeftoverFirst /\ InRoom
        /\ column \in 0 .. MaxLine /\ MaxLine \in Nat
        /\ buffer \in Seq(Byte) /\ Len(buffer) \in Nat /\ rx_data_ready \in BOOLEAN
    BY DriverAssumption, LenProperties DEF LineInv, DriverInv, DriverTypeOK, InRoom
  <1>2. DriverInv' /\ FreshByte'
    BY <1>1, StepDriver, StepFresh
  <1>3. ASSUME PollReceiver PROVE LeftoverFirst' /\ InRoom'
    <2>1. PICK rx \in Arriving : Line(FALSE, rx, 0)
      BY <1>3 DEF PollReceiver, Meanwhile
    <2>2. at = "uart_getc" /\ at' \in {"uart_getc", "read"} /\ buffer' = buffer
      BY <1>3 DEF PollReceiver, Goto
    <2>3. rx # NoRx => ~rx_data_ready \/ Len(buffer) = 0
      <3>1. Leftover => Len(buffer) = 0
        BY <1>1, <2>2 DEF LeftoverFirst, Reading
      <3> QED
        BY <1>1, <2>1, <2>2, <3>1, NoneWaits DEF Reading, Leftover
    <2>4. Fits(Len(buffer), rx_data_ready', rx_buffer', column') /\ column' \in 0 .. MaxLine
      BY <1>1, <2>1, <2>2, <2>3, LineRoom DEF InRoom
    <2>5. InRoom'
      BY <2>2, <2>4 DEF InRoom, Reading
    <2>6. LeftoverFirst'
      BY <1>1, <2>1, <2>2 DEF LeftoverFirst, Leftover, Line, RxHold, Reading
    <2> QED
      BY <2>5, <2>6
  <1>4. ASSUME ReadData PROVE LeftoverFirst' /\ InRoom'
    <2>1. PICK rx \in Arriving : Line(TRUE, rx, 0)
      BY <1>4 DEF ReadData
    <2>2. at = "read" /\ at' = "uart_gets" /\ buffer' = buffer /\ rx_data_ready /\ c' = rx_buffer
      BY <1>1, <1>4, StatusBits DEF ReadData, Goto, DriverInv, PollHolds
    <2>3. /\ column' \in 0 .. MaxLine
          /\ IF rx_buffer \in LineEnds
             THEN Len(buffer) <= MaxLine /\ Fits(0, rx_data_ready', rx_buffer', column')
             ELSE Fits(Len(buffer) + 1, rx_data_ready', rx_buffer', column')
      BY <1>1, <2>1, <2>2, LineRoom DEF InRoom
    <2>4. InRoom'
      BY <2>2, <2>3 DEF InRoom, Reading
    <2>5. LeftoverFirst'
      BY <2>1, <2>2 DEF LeftoverFirst, Leftover, Line, RxHold, Reading
    <2> QED
      BY <2>4, <2>5
  <1>5. ASSUME StoreCharacter PROVE LeftoverFirst' /\ InRoom'
    <2>1. PICK rx \in Arriving : Line(FALSE, rx, 0)
      BY <1>5 DEF StoreCharacter, Meanwhile
    <2>2. at = "uart_gets" /\ at' = "uart_getc" /\ Len(buffer') = Len(buffer) + 1 /\ c \notin LineEnds
      BY <1>1, <1>5, AppendProperties DEF StoreCharacter, Goto, EndsLine, DriverTypeOK
    <2>3. ~Leftover /\ (rx # NoRx => ~rx_data_ready)
      BY <1>1, <2>1, <2>2, NoneWaits DEF LeftoverFirst, Leftover, Reading
    <2>4. Fits(Len(buffer) + 1, rx_data_ready', rx_buffer', column') /\ column' \in 0 .. MaxLine
      <3>1. Len(buffer) + 1 \in Nat
        BY <1>1
      <3> QED
        BY <1>1, <2>1, <2>2, <2>3, <3>1, LineRoom DEF InRoom
    <2>5. InRoom'
      BY <2>2, <2>4 DEF InRoom, Reading
    <2>6. LeftoverFirst'
      BY <2>1, <2>2, <2>3 DEF LeftoverFirst, Leftover, Line, RxHold, Reading
    <2> QED
      BY <2>5, <2>6
  <1>6. ASSUME FinishLine PROVE LeftoverFirst' /\ InRoom'
    <2>1. PICK rx \in Arriving : Line(FALSE, rx, Len(buffer) + 1)
      BY <1>6 DEF FinishLine, Meanwhile
    <2>2. /\ at = "uart_gets" /\ at' = "uart_puts" /\ c \in LineEnds /\ buffer' = Append(buffer, NUL)
      BY <1>6 DEF FinishLine, Goto, EndsLine
    <2>3. Len(buffer') = Len(buffer) + 1
      BY <1>1, <2>2
    <2>4. Fits(0, rx_data_ready', rx_buffer', column') /\ column' \in 0 .. MaxLine
      BY <1>1, <2>1, <2>2, LineRoom DEF InRoom
    <2>5. InRoom'
      BY <1>1, <2>2, <2>3, <2>4 DEF InRoom, Reading
    <2> QED
      BY <2>2, <2>5 DEF LeftoverFirst, Reading
  <1>7. ASSUME PutCharacter \/ PollTransmitter \/ WriteData PROVE LeftoverFirst' /\ InRoom'
    <2>1. PICK rx \in Arriving : Line(FALSE, rx, 0)
      BY <1>7 DEF PutCharacter, PollTransmitter, WriteData, Meanwhile
    <2>2. ~Reading /\ ~Reading' /\ buffer' = buffer
      BY <1>7 DEF PutCharacter, PollTransmitter, WriteData, Goto, Reading
    <2>3. Fits(0, rx_data_ready', rx_buffer', column') /\ column' \in 0 .. MaxLine
      BY <1>1, <2>1, <2>2, LineRoom DEF InRoom
    <2> QED
      BY <1>1, <2>2, <2>3 DEF InRoom, LeftoverFirst, Reading
  <1>8. ASSUME PutsReturns PROVE LeftoverFirst' /\ InRoom'
    <2>1. PICK rx \in Arriving : Line(FALSE, rx, 0)
      BY <1>8 DEF PutsReturns, Meanwhile
    <2>2. ~Reading /\ at' = "uart_getc" /\ buffer' = <<>>
      BY <1>8 DEF PutsReturns, Goto, Reading
    <2>3. Fits(0, rx_data_ready', rx_buffer', column') /\ column' \in 0 .. MaxLine
      BY <1>1, <2>1, <2>2, LineRoom DEF InRoom
    <2>4. Len(buffer') = 0
      BY <2>2
    <2> QED
      BY <2>2, <2>3, <2>4 DEF InRoom, LeftoverFirst, Reading
  <1>9. ASSUME UNCHANGED vars PROVE LeftoverFirst' /\ InRoom'
    <2>1. UNCHANGED <<at, c, buffer, rx_data_ready, rx_buffer, column, early>>
      BY <1>9 DEF vars, portVars, driverVars, lineVars
    <2> QED
      BY <1>1, <2>1 DEF LeftoverFirst, Leftover, InRoom, Fits, Reading
  <1>10. LeftoverFirst' /\ InRoom'
    BY <1>3, <1>4, <1>5, <1>6, <1>7, <1>8, <1>9 DEF Next
  <1> QED
    BY <1>2, <1>10 DEF LineInv

\* uart_gets, which stores without a bound, stores no more than the longest line and
\* its NUL: a line end that a later byte replaced would let two lines run together,
\* but the only byte that can be replaced is the first of what uart_gets reads.
THEOREM LinesFit == ASSUME MinGap >= 2 PROVE Spec => []LineFitsBuffer
  <1>1. ASSUME LineInv PROVE LineFitsBuffer
    <2>1. MaxLine \in Nat /\ Len(buffer) \in Nat /\ column \in 0 .. MaxLine
      BY <1>1, DriverAssumption, LenProperties DEF LineInv, DriverInv, DriverTypeOK, InRoom
    <2>2. at \in {"uart_getc", "read", "uart_gets"} \/ ~Reading
      BY DEF Reading
    <2> QED
      BY <1>1, <2>1, <2>2 DEF LineInv, InRoom, Fits, LineFitsBuffer
  <1>2. LineInv /\ [Next]_vars => LineInv'
    BY StepLine
  <1> QED
    BY <1>1, <1>2, InitLine, PTL DEF Spec
================================================================================
