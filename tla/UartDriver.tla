------------------------------- MODULE UartDriver ------------------------------
(* drivers/uart.c on the processor side of the UART (UartPorts): polling reads *)
(* and writes, in a program that answers each line with the line. One step is  *)
(* one access of the driver to the device, or one turn of a loop; meanwhile    *)
(* bytes arrive and the transmitter sends at its own pace. Strings are C's: a  *)
(* line goes from uart_gets to uart_puts through memory, up to the first NUL.  *)
EXTENDS UartPorts, SequencesExt

CONSTANTS
    LineEnds,       \* '\n' and '\r'
    MinGap,         \* steps without a byte between two of the line, at least
    MaxLine         \* characters the operator types in a line, at most

ASSUME DriverAssumption == LineEnds \subseteq Byte /\ MinGap \in Nat /\ MaxLine \in Nat

NUL == 0                \* '\0'

VARIABLES
    at,             \* where the program is
    c,              \* the character uart_getc returned
    buffer,         \* the memory uart_gets has written
    str,            \* the memory from uart_puts' pointer on
    gap,            \* steps since the last byte arrived, up to MinGap
    column,         \* characters typed since the last line end
    early,          \* history: the program was sending since the last byte arrived
    typed,          \* history: bytes arrived, neither overwritten nor in a finished line
    sent            \* history: bytes sent since uart_puts was called

driverVars == <<at, c, buffer, str>>
lineVars == <<gap, column, early, typed>>
vars == <<portVars, driverVars, lineVars, sent>>

\* The two bits of the status word (bit 1: a byte was received; bit 0: busy).
UART_RX_READY == MmioRead(UartStatus, 0) \div 2 = 1
UART_TX_BUSY == MmioRead(UartStatus, 0) % 2 = 1
-------------------------------------------------------------------------------
(* The line: a byte, or none, arrives in each step.                            *)

Arriving ==
    IF gap < MinGap THEN {NoRx}
    ELSE {NoRx} \cup (IF column = MaxLine THEN LineEnds ELSE RxBytes)

\* A byte that nobody read is overwritten.
Kept(read) == IF rx_data_ready /\ ~read THEN Front(typed) ELSE typed

Reading == at \in {"uart_getc", "read", "uart_gets"}
Line(read, rx, finished) ==
    /\ RxHold(read, rx)
    /\ gap' = IF rx # NoRx THEN 0 ELSE IF gap < MinGap THEN gap + 1 ELSE gap
    /\ column' = IF rx = NoRx THEN column ELSE IF rx \in LineEnds THEN 0 ELSE column + 1
    /\ early' = (~Reading' \/ (rx = NoRx /\ early))
    /\ LET now == IF rx = NoRx THEN typed ELSE Append(Kept(read), rx)
       IN  typed' = SubSeq(now, finished + 1, Len(now))

\* A step that leaves the device alone.
Meanwhile(finished) ==
    /\ \E rx \in Arriving : Line(FALSE, rx, finished)
    /\ TxSend(FALSE, 0) /\ UNCHANGED led_out

Goto(from, to) == at = from /\ at' = to
-------------------------------------------------------------------------------
(* uart_getc and uart_gets                                                     *)

\* Faulty variant of PollReceiver: the status is not waited for.
PollReceiverOnce ==
    /\ Goto("uart_getc", "read") /\ Meanwhile(0) /\ UNCHANGED <<c, buffer, str, sent>>
PollReceiver ==
    /\ Goto("uart_getc", IF UART_RX_READY THEN "read" ELSE "uart_getc")
    /\ Meanwhile(0) /\ UNCHANGED <<c, buffer, str, sent>>

ReadData ==
    /\ Goto("read", "uart_gets")
    /\ c' = MmioRead(UartData, 0)
    /\ \E rx \in Arriving : Line(TRUE, rx, 0)
    /\ TxSend(FALSE, 0) /\ UNCHANGED <<led_out, buffer, str, sent>>

\* Faulty variant of EndsLine: '\n' (10) is tested, '\r' is not.
EndsLineFeed(char) == char = 10
EndsLine(char) == char \in LineEnds

StoreCharacter ==
    /\ Goto("uart_gets", "uart_getc") /\ ~EndsLine(c)
    /\ buffer' = Append(buffer, c)
    /\ Meanwhile(0) /\ UNCHANGED <<c, str, sent>>

\* Either line end finishes the line, and its place is the NUL's; the program
\* answers with uart_puts(buffer).
FinishLine ==
    /\ Goto("uart_gets", "uart_puts") /\ EndsLine(c)
    /\ buffer' = Append(buffer, NUL) /\ str' = buffer' /\ sent' = <<>>
    /\ Meanwhile(Len(buffer) + 1) /\ UNCHANGED c
-------------------------------------------------------------------------------
(* uart_putc and uart_puts                                                     *)

PutCharacter ==
    /\ Goto("uart_puts", "uart_putc") /\ Head(str) # NUL
    /\ Meanwhile(0) /\ UNCHANGED <<c, buffer, str, sent>>

\* Faulty variant of PollTransmitter: the other bit of the status is tested.
PollTransmitterRxBit ==
    /\ Goto("uart_putc", IF UART_RX_READY THEN "uart_putc" ELSE "write")
    /\ Meanwhile(0) /\ UNCHANGED <<c, buffer, str, sent>>
PollTransmitter ==
    /\ Goto("uart_putc", IF UART_TX_BUSY THEN "uart_putc" ELSE "write")
    /\ Meanwhile(0) /\ UNCHANGED <<c, buffer, str, sent>>

\* Faulty variant of WriteData: the pointer moves before the character is read.
WriteDataNext ==
    /\ Goto("write", "uart_puts") /\ ~tx_busy
    /\ \E rx \in Arriving : Line(FALSE, rx, 0)
    /\ TxSend(TRUE, str[2]) /\ CountStart(TRUE)
    /\ sent' = Append(sent, str[2]) /\ str' = Tail(str) /\ UNCHANGED <<c, buffer>>
\* The processor holds a store to DATA until the transmitter is free.
WriteData ==
    /\ Goto("write", "uart_puts") /\ ~tx_busy
    /\ \E rx \in Arriving : Line(FALSE, rx, 0)
    /\ TxSend(TRUE, Head(str)) /\ CountStart(TRUE)
    /\ sent' = Append(sent, Head(str)) /\ str' = Tail(str) /\ UNCHANGED <<c, buffer>>

\* uart_puts ends at the first NUL, the one uart_gets wrote or one that was typed;
\* the program calls uart_gets with the same buffer.
PutsReturns ==
    /\ Goto("uart_puts", "uart_getc") /\ Head(str) = NUL
    /\ buffer' = <<>>
    /\ Meanwhile(0) /\ UNCHANGED <<c, str, sent>>
-------------------------------------------------------------------------------
Init ==
    /\ PortsInit
    /\ at = "uart_getc" /\ c = 0 /\ buffer = <<>> /\ str = <<>>
    /\ gap = MinGap /\ column = 0 /\ early = FALSE /\ typed = <<>> /\ sent = <<>>

Next ==
    \/ PollReceiver \/ ReadData \/ StoreCharacter \/ FinishLine
    \/ PutCharacter \/ PollTransmitter \/ WriteData \/ PutsReturns

Spec == Init /\ [][Next]_vars

\* The program goes on wherever it can, and the transmitter ends every byte (TxPort).
\* A poll that finds nothing is no progress, and no byte has to arrive: where the
\* program waits for one, it may wait for ever.
Progress == Next /\ at' # at
TxDone == Next /\ tx_busy /\ ~tx_busy'
FairSpec == Spec /\ WF_vars(Progress) /\ WF_vars(TxDone)
-------------------------------------------------------------------------------
(* Properties.                                                                 *)

Held == IF rx_data_ready THEN <<rx_buffer>> ELSE <<>>

\* What is in the buffer, in the driver's hand and in the holding buffer is what
\* was typed, character for character: polling the status and reading the data in
\* two accesses, with bytes arriving before, between and at them, neither doubles
\* nor drops one.
LinesAsTyped ==
    typed = (IF Reading THEN buffer \o (IF at = "uart_gets" THEN <<c>> ELSE <<>>) ELSE <<>>) \o Held

\* The one-byte holding buffer is enough for a program that reads: of bytes that come
\* no faster than MinGap, uart_gets loses none that arrives while it runs. Only what
\* was waiting while the program was sending may be overwritten.
NoOverrunWhileReading ==
    [][Reading /\ gap' = 0 /\ rx_data_ready /\ ~early => at = "read"]_vars

\* uart_gets does not know the size of the buffer it is given. A caller that makes
\* room for the longest line and the NUL has made enough: no line end is lost that
\* would let two lines run together, in whatever step the bytes arrive.
LineFitsBuffer == Len(buffer) <= MaxLine + 1

\* s is the C string in the memory m.
IsText(s, m) == NUL \notin Range(s) /\ IsPrefix(Append(s, NUL), m)

\* What was sent is a beginning of the line's text.
AnswerBegun == ~Reading => sent \o str = buffer /\ NUL \notin Range(sent)

\* The answer is the line up to its first NUL, character for character, whatever the
\* transmitter's pace: a beginning of it at any time, the whole when uart_puts returns.
AnswersTheLine == [][AnswerBegun' /\ (~Reading /\ Reading' => IsText(sent, buffer))]_vars

\* A line end that is typed and not yet read or answered.
LineEnded == \E k \in DOMAIN typed : typed[k] \in LineEnds
\* A byte that came while the program was sending, and still waits.
Leftover == early /\ rx_data_ready

\* A line whose end comes while uart_gets runs is answered, though nothing be typed
\* after it; so is one whose end waited while the program was sending, unless a
\* later byte takes its place. And every answer comes to its end.
EveryLineAnswered ==
    /\ LineEnded /\ ~Leftover ~> ~Reading
    /\ LineEnded ~> (~Reading \/ ~LineEnded)
    /\ ~Reading ~> Reading
================================================================================
