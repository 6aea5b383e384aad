----------------------------- MODULE HelloRunProofs -----------------------------
(* The program of hello_world.py prints its box on this pipeline, for every    *)
(* width and number of rows, every pace of the transmitter and any resets. The *)
(* pipeline runs the program as RV32I does (PipelineRefinementProofs), so the  *)
(* argument is about the program: where it is, what is in its registers, and   *)
(* how much of the box has been printed.                                       *)
EXTENDS HelloRun, PipelineRefinementProofs

-------------------------------------------------------------------------------
(* The program, word by word.                                                  *)

\* <<word, register, value>>: addi(register, 0, value).
Constants ==
    {<<0, 5, 1>>, <<1, 6, TopBit>>, <<12, 9, Rows>>, <<34, 8, Width>>, <<39, 7, HASH>>,
     <<55, 7, NEWLINE>>, <<66, 7, HASH>>, <<76, 8, Width - 2>>, <<81, 7, SPACE>>,
     <<97, 7, HASH>>, <<107, 7, NEWLINE>>}
\* <<word, link register, target>>: calls from main, and those of putchar.
Calls == {<<7, 1, 34>>, <<17, 1, 66>>, <<28, 1, 34>>, <<44, 2, 118>>, <<60, 2, 118>>,
          <<71, 2, 118>>, <<86, 2, 118>>, <<102, 2, 118>>, <<112, 2, 118>>}
PutCalls == {44, 60, 71, 86, 102, 112}
\* <<word, register>>: one less to count.
Countdowns == {<<22, 9>>, <<49, 8>>, <<91, 8>>}
\* <<word, register, target>>: back to the target until the register is 0.
Loops == {<<27, 9, 17>>, <<54, 8, 39>>, <<96, 8, 81>>}
\* <<word, link register>>.
Returns == {<<65, 1>>, <<117, 1>>, <<123, 2>>}
\* The words that are no NOP: these, the shift that makes the MMIO address, the end,
\* and the store to the UART.
Working == {0, 1, 2, 7, 12, 17, 22, 27, 28, 33, 34, 39, 44, 49, 54, 55, 60, 65, 66, 71, 76, 81,
            86, 91, 96, 97, 102, 107, 112, 117, 118, 123}

Listing(w) ==
    /\ \A p \in Constants : w[p[1]] = addi(p[2], 0, p[3])
    /\ \A p \in Calls : w[p[1]] = jal(p[2], 4 * (p[3] - p[1]))
    /\ \A p \in Countdowns : w[p[1]] = addi(p[2], p[2], -1)
    /\ \A p \in Loops : w[p[1]] = bne(p[2], 0, -4 * (p[1] - p[3]))
    /\ \A p \in Returns : w[p[1]] = jalr(0, p[2], 0)
    /\ w[2] = sll(5, 5, 6) /\ w[33] = jal(0, 0) /\ w[118] = sw(7, 5, 12)
    /\ \A k \in RomWord : k \notin Working => w[k] = Nop

\* Every working word is in one of the tables.
LEMMA WorkingWords ==
  ASSUME NEW k \in Working
  PROVE  \/ \E p \in Constants : k = p[1]
         \/ \E p \in Calls : k = p[1]
         \/ \E p \in Countdowns : k = p[1]
         \/ \E p \in Loops : k = p[1]
         \/ \E p \in Returns : k = p[1]
         \/ k \in {2, 33, 118}
  BY DEF Working, Constants, Calls, Countdowns, Loops, Returns

\* The script's list of words before it patches the offsets.
LEMMA Unlinked ==
  /\ Len(Main) = 34 /\ Len(DrawTop) = 32 /\ Len(DrawMiddle) = 52 /\ Len(PutChar) = 6
  /\ Len(Unpatched) = 124 /\ DOMAIN Unpatched = 1 .. 124
  /\ \A p \in Constants : Unpatched[p[1] + 1] = addi(p[2], 0, p[3])
  /\ \A p \in Countdowns : Unpatched[p[1] + 1] = addi(p[2], p[2], -1)
  /\ \A p \in Loops : Unpatched[p[1] + 1] = bne(p[2], 0, -4 * (p[1] - p[3]))
  /\ \A p \in Returns : Unpatched[p[1] + 1] = jalr(0, p[2], 0)
  /\ Unpatched[3] = sll(5, 5, 6) /\ Unpatched[34] = jal(0, 0) /\ Unpatched[119] = sw(7, 5, 12)
  /\ \A k \in 0 .. 123 : k \notin Working => Unpatched[k + 1] = Nop
<1>1. /\ Len(Main) = 34 /\ Len(DrawTop) = 32 /\ Len(DrawMiddle) = 52 /\ Len(PutChar) = 6
      /\ Len(Unpatched) = 124 /\ DOMAIN Unpatched = 1 .. 124
  BY DEF Unpatched, Main, DrawTop, DrawMiddle, PutChar, CountedLoop, Put, Call, Nops
<1>2. \A p \in Constants : Unpatched[p[1] + 1] = addi(p[2], 0, p[3])
  BY DEF Unpatched, Main, DrawTop, DrawMiddle, PutChar, CountedLoop, Put, Call, Nops, Constants
<1>3. \A p \in Countdowns : Unpatched[p[1] + 1] = addi(p[2], p[2], -1)
  BY DEF Unpatched, Main, DrawTop, DrawMiddle, PutChar, CountedLoop, Put, Call, Nops, Countdowns
<1>4. \A p \in Loops : Unpatched[p[1] + 1] = bne(p[2], 0, -4 * (p[1] - p[3]))
  BY DEF Unpatched, Main, DrawTop, DrawMiddle, PutChar, CountedLoop, Put, Call, Nops, Loops
<1>5. \A p \in Returns : Unpatched[p[1] + 1] = jalr(0, p[2], 0)
  BY DEF Unpatched, Main, DrawTop, DrawMiddle, PutChar, CountedLoop, Put, Call, Nops, Returns
<1>6. Unpatched[3] = sll(5, 5, 6) /\ Unpatched[34] = jal(0, 0) /\ Unpatched[119] = sw(7, 5, 12)
  BY DEF Unpatched, Main, DrawTop, DrawMiddle, PutChar, CountedLoop, Put, Call, Nops
<1>7. \A k \in 0 .. 123 : k \notin Working => Unpatched[k + 1] = Nop
  BY DEF Unpatched, Main, DrawTop, DrawMiddle, PutChar, CountedLoop, Put, Call, Nops,
         Working
<1> QED
  BY <1>1, <1>2, <1>3, <1>4, <1>5, <1>6, <1>7

\* The calls, once the labels are known: no word remains that is no instruction.
LEMMA Linked ==
  /\ Len(Patched) = 124
  /\ Len(Patched) <= RomWords => Listing([w \in RomWord |-> IF w < Len(Patched) THEN Patched[w + 1] ELSE Nop])
<1>1. Len(Patched) = 124
  <2>1. Patched = [k \in 1 .. 124 |-> Patched[k]]
    BY Unlinked DEF Patched
  <2>2. Len([k \in 1 .. 124 |-> Patched[k]]) = 124
    OBVIOUS
  <2> QED
    BY <2>1, <2>2
<1>2. \A p \in Calls : Patched[p[1] + 1] = jal(p[2], 4 * (p[3] - p[1]))
  <2> DEFINE Placeholder(rd, f) == [Nop EXCEPT !.opcode = "CALL", !.rd = rd, !.funct = f]
  <2>1. /\ Unpatched[8] = Placeholder(1, "draw_top") /\ Unpatched[18] = Placeholder(1, "draw_middle")
        /\ Unpatched[29] = Placeholder(1, "draw_top")
        /\ \A c \in PutCalls : Unpatched[c + 1] = Placeholder(2, "putchar")
    BY DEF Unpatched, Main, DrawTop, DrawMiddle, PutChar, CountedLoop, Put, Call, Nops, PutCalls
  <2>2. \A rd, f : /\ Placeholder(rd, f).opcode = "CALL"
                   /\ Placeholder(rd, f).rd = rd /\ Placeholder(rd, f).funct = f
    BY DEF Nop
  <2>3. Label("draw_top") = 34 /\ Label("draw_middle") = 66 /\ Label("putchar") = 118
    BY Unlinked DEF Label
  <2>4. \A k \in 0 .. 123 : \A rd, f : Unpatched[k + 1] = Placeholder(rd, f)
                                          => Patched[k + 1] = jal(rd, 4 * (Label(f) - k))
    <3> SUFFICES ASSUME NEW k \in 0 .. 123, NEW rd, NEW f, Unpatched[k + 1] = Placeholder(rd, f)
                 PROVE  Patched[k + 1] = jal(rd, 4 * (Label(f) - k))
      OBVIOUS
    <3>1. k + 1 \in DOMAIN Unpatched /\ (k + 1) - 1 = k
      BY Unlinked
    <3> HIDE DEF Placeholder
    <3> QED
      BY <2>2, <3>1 DEF Patched
  <2> HIDE DEF Placeholder
  <2>5. \A c \in PutCalls : Patched[c + 1] = jal(2, 4 * (118 - c))
    BY <2>1, <2>3, <2>4 DEF PutCalls
  <2>6. /\ Patched[8] = jal(1, 4 * (34 - 7)) /\ Patched[18] = jal(1, 4 * (66 - 17))
        /\ Patched[29] = jal(1, 4 * (34 - 28))
    BY <2>1, <2>3, <2>4
  <2> QED
    BY <2>5, <2>6 DEF Calls, PutCalls
<1>3. \A k \in 1 .. 124 : Unpatched[k].opcode # "CALL" => Patched[k] = Unpatched[k]
  BY Unlinked DEF Patched
<1>4. /\ \A rd, rs1, imm : /\ addi(rd, rs1, imm).opcode # "CALL"
                           /\ bne(rd, rs1, imm).opcode # "CALL"
                           /\ jalr(rd, rs1, imm).opcode # "CALL"
                           /\ sw(rd, rs1, imm).opcode # "CALL"
                           /\ sll(rd, rs1, imm).opcode # "CALL"
      /\ jal(0, 0).opcode # "CALL" /\ Nop.opcode # "CALL"
  BY DEF addi, bne, jalr, sw, sll, jal, Fields, Nop
<1>5. /\ \A p \in Constants : Patched[p[1] + 1] = addi(p[2], 0, p[3])
      /\ \A p \in Countdowns : Patched[p[1] + 1] = addi(p[2], p[2], -1)
      /\ \A p \in Loops : Patched[p[1] + 1] = bne(p[2], 0, -4 * (p[1] - p[3]))
      /\ \A p \in Returns : Patched[p[1] + 1] = jalr(0, p[2], 0)
      /\ Patched[3] = sll(5, 5, 6) /\ Patched[34] = jal(0, 0) /\ Patched[119] = sw(7, 5, 12)
      /\ \A k \in 0 .. 123 : k \notin Working => Patched[k + 1] = Nop
  <2>1. \A k \in 0 .. 123 : \A i : Unpatched[k + 1] = i /\ i.opcode # "CALL" => Patched[k + 1] = i
    <3> TAKE k \in 0 .. 123
    <3> TAKE i
    <3>1. k + 1 \in 1 .. 124
      OBVIOUS
    <3> QED
      BY <1>3, <3>1
  <2>2. \A p \in Constants : Patched[p[1] + 1] = addi(p[2], 0, p[3])
    <3> TAKE p \in Constants
    <3>1. p[1] \in 0 .. 123
      BY DEF Constants
    <3>2. Unpatched[p[1] + 1] = addi(p[2], 0, p[3]) /\ addi(p[2], 0, p[3]).opcode # "CALL"
      BY <1>4, Unlinked
    <3> QED
      BY <2>1, <3>1, <3>2
  <2>3. \A p \in Countdowns : Patched[p[1] + 1] = addi(p[2], p[2], -1)
    <3> TAKE p \in Countdowns
    <3>1. p[1] \in 0 .. 123
      BY DEF Countdowns
    <3>2. Unpatched[p[1] + 1] = addi(p[2], p[2], -1) /\ addi(p[2], p[2], -1).opcode # "CALL"
      BY <1>4, Unlinked
    <3> QED
      BY <2>1, <3>1, <3>2
  <2>4. \A p \in Loops : Patched[p[1] + 1] = bne(p[2], 0, -4 * (p[1] - p[3]))
    <3> TAKE p \in Loops
    <3>1. p[1] \in 0 .. 123
      BY DEF Loops
    <3>2. Unpatched[p[1] + 1] = bne(p[2], 0, -4 * (p[1] - p[3])) /\ bne(p[2], 0, -4 * (p[1] - p[3])).opcode # "CALL"
      BY <1>4, Unlinked
    <3> QED
      BY <2>1, <3>1, <3>2
  <2>5. \A p \in Returns : Patched[p[1] + 1] = jalr(0, p[2], 0)
    <3> TAKE p \in Returns
    <3>1. p[1] \in 0 .. 123
      BY DEF Returns
    <3>2. Unpatched[p[1] + 1] = jalr(0, p[2], 0) /\ jalr(0, p[2], 0).opcode # "CALL"
      BY <1>4, Unlinked
    <3> QED
      BY <2>1, <3>1, <3>2
  <2>6. Patched[3] = sll(5, 5, 6) /\ Patched[34] = jal(0, 0) /\ Patched[119] = sw(7, 5, 12)
    BY <1>3, <1>4, Unlinked
  <2>7. \A k \in 0 .. 123 : k \notin Working => Patched[k + 1] = Nop
    <3> TAKE k \in 0 .. 123
    <3> QED
      BY <1>4, <2>1, Unlinked
  <2> QED
    BY <2>2, <2>3, <2>4, <2>5, <2>6, <2>7
<1> SUFFICES ASSUME 124 <= RomWords
             PROVE  Listing([w \in RomWord |-> IF w < Len(Patched) THEN Patched[w + 1] ELSE Nop])
  BY <1>1
<1> DEFINE r == [w \in RomWord |-> IF w < Len(Patched) THEN Patched[w + 1] ELSE Nop]
<1>6. \A k \in 0 .. 123 : k \in RomWord /\ r[k] = Patched[k + 1]
  BY <1>1, SizeAssumption DEF RomWord
<1>7. \A k \in RomWord : k \notin 0 .. 123 => r[k] = Nop
  BY <1>1, SizeAssumption DEF RomWord
<1> HIDE DEF r
<1>8. /\ \A p \in Constants : p[1] \in 0 .. 123
      /\ \A p \in Calls : p[1] \in 0 .. 123
      /\ \A p \in Countdowns : p[1] \in 0 .. 123
      /\ \A p \in Loops : p[1] \in 0 .. 123
      /\ \A p \in Returns : p[1] \in 0 .. 123
  BY DEF Constants, Calls, Countdowns, Loops, Returns
<1>9. Listing(r)
  <2>1. \A p \in Constants : r[p[1]] = addi(p[2], 0, p[3])
    BY <1>5, <1>6, <1>8
  <2>2. \A p \in Calls : r[p[1]] = jal(p[2], 4 * (p[3] - p[1]))
    BY <1>2, <1>6, <1>8
  <2>3. \A p \in Countdowns : r[p[1]] = addi(p[2], p[2], -1)
    BY <1>5, <1>6, <1>8
  <2>4. \A p \in Loops : r[p[1]] = bne(p[2], 0, -4 * (p[1] - p[3]))
    BY <1>5, <1>6, <1>8
  <2>5. \A p \in Returns : r[p[1]] = jalr(0, p[2], 0)
    BY <1>5, <1>6, <1>8
  <2>6. r[2] = sll(5, 5, 6) /\ r[33] = jal(0, 0) /\ r[118] = sw(7, 5, 12)
    BY <1>5, <1>6
  <2>7. \A k \in RomWord : k \notin Working => r[k] = Nop
    <3> TAKE k \in RomWord
    <3>1. CASE k \in 0 .. 123
      BY <1>5, <1>6, <3>1
    <3>2. CASE k \notin 0 .. 123
      BY <1>7, <3>2
    <3> QED
      BY <3>1, <3>2
  <2> QED
    BY <2>1, <2>2, <2>3, <2>4, <2>5, <2>6, <2>7 DEF Listing
<1> QED
  BY <1>9 DEF r

\* The image is the listing, whatever the size of the ROM.
LEMMA ImageListed ==
  ASSUME NEW r \in Programs
  PROVE  Listing(r)
<1>1. Len(Patched) = 124 /\ RomWords \in Nat /\ RomWords >= 126
  BY Linked, HelloAssumption, SizeAssumption
<1>2. r \in Images /\ ~ (Len(Patched) > RomWords)
  BY <1>1, HelloAssumption
<1>3. r = [w \in RomWord |-> IF w < Len(Patched) THEN Patched[w + 1] ELSE Nop]
  BY <1>2 DEF Images
<1> QED
  BY <1>1, <1>3, Linked

\* What the branch slots need: a word two behind a transfer is a NOP.
LEMMA ImageWellWritten == ProgramsWellWritten
<1> SUFFICES ASSUME NEW r \in Programs, NEW k \in RomWord
             PROVE  /\ r[k].opcode \in Transfers => r[(k + 2) % RomWords] = Nop
                    /\ r[k].opcode = "LUI" => r[k].rs1 = 0
                    /\ r[k].opcode = "OP" => r[k].funct \in AluOp
                    /\ r[k].opcode = "OP_IMM" => r[k].funct \in {"ADD", "XOR", "OR", "AND", "SLT", "SLTU"}
  BY DEF ProgramsWellWritten, WellWritten
<1>1. Listing(r)
  BY ImageListed
<1> DEFINE Jumping == {p[1] : p \in Calls \cup Loops \cup Returns} \cup {33}
<1>2. k \in Working => k \in Jumping \/ k \in {p[1] : p \in Constants \cup Countdowns} \cup {2, 118}
  BY WorkingWords
<1>3. CASE k \in Jumping
  <2>1. k + 2 \in 0 .. 125 /\ k + 2 \notin Working
    BY <1>3 DEF Working, Constants, Calls, Countdowns, Loops, Returns
  <2>2. (k + 2) % RomWords = k + 2 /\ k + 2 \in RomWord
    BY <2>1, HelloAssumption, SizeAssumption DEF RomWord
  <2>3. r[(k + 2) % RomWords] = Nop
    BY <1>1, <2>1, <2>2 DEF Listing
  <2>4. r[k].opcode \in Transfers
    <3>1. /\ \A a, b : jal(a, b).opcode = "JAL"
          /\ \A a, b, c : bne(a, b, c).opcode = "BRANCH" /\ jalr(a, b, c).opcode = "JALR"
      BY DEF jal, bne, jalr, Fields
    <3> QED
      BY <1>1, <1>3, <3>1 DEF Listing, Transfers
  <2> QED
    BY <2>3, <2>4 DEF Transfers
<1>4. CASE k \notin Jumping
  <2>1. /\ \A a, b, c : addi(a, b, c).opcode = "OP_IMM" /\ addi(a, b, c).funct = "ADD"
        /\ sll(5, 5, 6).opcode = "OP" /\ sll(5, 5, 6).funct = "SLL"
        /\ sw(7, 5, 12).opcode = "STORE"
        /\ Nop.opcode = "OP_IMM" /\ Nop.funct = "ADD"
    BY DEF addi, sll, sw, Fields, Nop
  <2>2. \/ r[k] = Nop \/ r[k] = sll(5, 5, 6) \/ r[k] = sw(7, 5, 12)
        \/ \E a, b, c : r[k] = addi(a, b, c)
    BY <1>1, <1>2, <1>4 DEF Listing
  <2> QED
    BY <2>1, <2>2 DEF Transfers, AluOp, BitOp
<1> QED
  BY <1>3, <1>4

-------------------------------------------------------------------------------
(* What each instruction of the program does on the documented machine.        *)

\* A byte leaves the UART in this step.
Leaves == ~tx_busy /\ tx_busy'

\* The MMIO addresses lie above the program, below the end of the address space.
LEMMA HelloSizes ==
  /\ WordSize \in Nat /\ WordSize >= 504 /\ MmioBase \in 252 .. WordSize - 13
  /\ Reg = 0 .. 31 /\ Word = 0 .. WordSize - 1
<1>1. WordSize \in Nat /\ RomWords \in Nat /\ WordSize >= 32 /\ RomWords >= 126 /\ WordSize % 2 = 0
  BY SizeAssumption, HelloAssumption
<1> DEFINE n == 4 * RomWords
<1>2. n \in Nat /\ n >= 504 /\ WordSize % n = 0
  BY <1>1, HelloAssumption
<1>3. WordSize >= n
  <2> HIDE DEF n
  <2> SUFFICES ASSUME WordSize < n PROVE FALSE
    BY <1>1, <1>2
  <2>1. WordSize % n = WordSize
    BY <1>1, <1>2
  <2> QED
    BY <1>1, <1>2, <2>1
<1>4. WordSize >= 504
  BY <1>1, <1>2, <1>3
<1>5. MmioBase \in 252 .. WordSize - 13
  BY <1>1, <1>4 DEF MmioBase
<1> QED
  BY <1>1, <1>4, <1>5, HelloAssumption DEF Reg, Word

\* Adding an offset, encoded modulo the word size, does not wrap inside the ROM.
LEMMA Offset ==
  ASSUME NEW a \in Word, NEW b \in Int, a + b \in Word
  PROVE  Plus(a, b % WordSize) = a + b
<1>1. WordSize \in Nat \ {0} /\ a \in Int
  BY HelloSizes
<1>2. (b + a) % WordSize = ((b % WordSize) + a) % WordSize
  BY <1>1, ModuloSum
<1>3. (b + a) % WordSize = a + b
  BY <1>1, HelloSizes
<1>4. b % WordSize \in Int
  BY <1>1
<1> QED
  BY <1>1, <1>2, <1>3, <1>4 DEF Plus

\* The word fetched at address 4k is word k.
LEMMA WordAt ==
  ASSUME NEW k \in RomWord, 4 * k \in Word
  PROVE  InstrIn(4 * k) = rom[k]
<1>1. k \in Int /\ 0 <= k /\ k < RomWords /\ RomWords \in Nat
  BY SizeAssumption DEF RomWord
<1>2. (4 * k) \div 4 = k /\ k % RomWords = k
  BY <1>1
<1> QED
  BY <1>2 DEF InstrIn, WordIndex

\* One step of RV32I with the instruction at its program counter known.
LEMMA DocRuns ==
  ASSUME NEW switch, NEW rx, DocMachine!Step(switch, rx), NEW i, InstrIn(DocPc) = i
  PROVE  /\ WrittenRegs' = IF DocMachine!Writes(i)
                           THEN [WrittenRegs EXCEPT ![i.rd] = DocMachine!Result(i, DocPc, switch)]
                           ELSE WrittenRegs
         /\ DocPc' = IF DocMachine!Taken(i) THEN DocMachine!Target(i, DocPc) ELSE Plus(DocPc, 4)
         /\ Leaves <=> DocMachine!SendsByte(i)
         /\ Leaves => tx_byte' = DocMachine!X(i.rs2) % ByteSize
<1>1. DocMachine!InstrAt(DocPc) = i
  BY DocAsSlot, IsaInPipeline
<1>2. /\ DocMachine!Effect(i, DocMachine!Result(i, DocPc, switch), rx)
      /\ DocPc' = IF DocMachine!Taken(i) THEN DocMachine!Target(i, DocPc) ELSE Plus(DocPc, 4)
  BY <1>1, DocAsSlot DEF DocMachine!Step, DocPc
<1> QED
  BY <1>2 DEF DocMachine!Effect, DocMachine!CanComplete, DocMachine!TxSend, Leaves

\* RV32I computes with the operators of the pipeline.
LEMMA DocOperators ==
  /\ \A r : DocMachine!X(r) = ReadReg(r)
  /\ \A a, b : DocMachine!Plus(a, b) = Plus(a, b)
  /\ \A op, a, b : DocMachine!AluResult(op, a, b) = AluResult(op, a, b)
  /\ \A a : DocMachine!EvenPart(a) = EvenPart(a)
  /\ DocMachine!UartData = UartData
  BY AluInPipeline
     DEF DocMachine!X, ReadReg, DocMachine!Plus, Plus, DocMachine!AluResult, AluResult,
         DocMachine!Minus, Minus, DocMachine!Less, Less, DocMachine!Signed, Signed,
         DocMachine!MmioBase, MmioBase, DocMachine!Bit, Bit, DocMachine!EvenPart, EvenPart,
         DocMachine!UartData, UartData

\* The instructions of the program, one lemma each: what a step of RV32I does.
LEMMA NopRuns ==
  ASSUME NEW switch, NEW rx, DocMachine!Step(switch, rx), InstrIn(DocPc) = Nop
  PROVE  WrittenRegs' = WrittenRegs /\ DocPc' = Plus(DocPc, 4) /\ ~Leaves
  BY DocRuns DEF Nop, DocMachine!Writes, DocMachine!Taken, DocMachine!SendsByte

LEMMA AddiRuns ==
  ASSUME NEW switch, NEW rx, DocMachine!Step(switch, rx), NEW rd, rd # 0, NEW rs1, NEW imm,
         InstrIn(DocPc) = addi(rd, rs1, imm)
  PROVE  /\ WrittenRegs' = [WrittenRegs EXCEPT ![rd] = Plus(ReadReg(rs1), imm % WordSize)]
         /\ DocPc' = Plus(DocPc, 4) /\ ~Leaves
<1> DEFINE i == addi(rd, rs1, imm)
<1>1. /\ i.opcode = "OP_IMM" /\ i.funct = "ADD" /\ i.rd = rd /\ i.rs1 = rs1
      /\ i.imm = imm % WordSize
  BY DEF addi, Fields
<1> HIDE DEF i
<1>2. /\ DocMachine!Writes(i) /\ ~DocMachine!Taken(i) /\ ~DocMachine!SendsByte(i)
      /\ DocMachine!Result(i, DocPc, switch) = Plus(ReadReg(rs1), imm % WordSize)
  BY <1>1, DocOperators
     DEF DocMachine!Writes, DocMachine!Taken, DocMachine!SendsByte, DocMachine!Result, AluResult
<1> QED
  BY <1>1, <1>2, DocRuns DEF i

LEMMA SllRuns ==
  ASSUME NEW switch, NEW rx, DocMachine!Step(switch, rx), InstrIn(DocPc) = sll(5, 5, 6)
  PROVE  /\ WrittenRegs' = [WrittenRegs EXCEPT ![5] = BitResult("SLL", ReadReg(5), ReadReg(6))]
         /\ DocPc' = Plus(DocPc, 4) /\ ~Leaves
<1> DEFINE i == sll(5, 5, 6)
<1>1. /\ i.opcode = "OP" /\ i.funct = "SLL" /\ i.rd = 5 /\ i.rs1 = 5 /\ i.rs2 = 6
  BY DEF sll, Fields
<1> HIDE DEF i
<1>2. /\ DocMachine!Writes(i) /\ ~DocMachine!Taken(i) /\ ~DocMachine!SendsByte(i)
      /\ DocMachine!Result(i, DocPc, switch) = BitResult("SLL", ReadReg(5), ReadReg(6))
  BY <1>1, DocOperators
     DEF DocMachine!Writes, DocMachine!Taken, DocMachine!SendsByte, DocMachine!Result, AluResult
<1> QED
  BY <1>1, <1>2, DocRuns DEF i

LEMMA JalRuns ==
  ASSUME NEW switch, NEW rx, DocMachine!Step(switch, rx), NEW rd, NEW imm,
         InstrIn(DocPc) = jal(rd, imm)
  PROVE  /\ WrittenRegs' = IF rd # 0 THEN [WrittenRegs EXCEPT ![rd] = Plus(DocPc, 4)]
                           ELSE WrittenRegs
         /\ DocPc' = Plus(DocPc, imm % WordSize) /\ ~Leaves
<1> DEFINE i == jal(rd, imm)
<1>1. i.opcode = "JAL" /\ i.rd = rd /\ i.imm = imm % WordSize
  BY DEF jal, Fields
<1> HIDE DEF i
<1>2. /\ DocMachine!Writes(i) <=> rd # 0
      /\ DocMachine!Taken(i) /\ ~DocMachine!SendsByte(i)
      /\ DocMachine!Result(i, DocPc, switch) = Plus(DocPc, 4)
      /\ DocMachine!Target(i, DocPc) = Plus(DocPc, imm % WordSize)
  BY <1>1, DocOperators
     DEF DocMachine!Writes, DocMachine!Taken, DocMachine!SendsByte, DocMachine!Result,
         DocMachine!Target
<1> QED
  BY <1>1, <1>2, DocRuns DEF i

LEMMA BneRuns ==
  ASSUME NEW switch, NEW rx, DocMachine!Step(switch, rx), NEW r, NEW imm,
         InstrIn(DocPc) = bne(r, 0, imm)
  PROVE  /\ WrittenRegs' = WrittenRegs
         /\ DocPc' = IF ReadReg(r) # 0 THEN Plus(DocPc, imm % WordSize) ELSE Plus(DocPc, 4)
         /\ ~Leaves
<1> DEFINE i == bne(r, 0, imm)
<1>1. /\ i.opcode = "BRANCH" /\ i.funct = "BNE" /\ i.rs1 = r /\ i.rs2 = 0
      /\ i.imm = imm % WordSize
  BY DEF bne, Fields
<1> HIDE DEF i
<1>2. /\ ~DocMachine!Writes(i) /\ ~DocMachine!SendsByte(i)
      /\ DocMachine!Taken(i) <=> ReadReg(r) # 0
      /\ DocMachine!Target(i, DocPc) = Plus(DocPc, imm % WordSize)
  BY <1>1, DocOperators
     DEF DocMachine!Writes, DocMachine!Taken, DocMachine!SendsByte, DocMachine!Target, ReadReg
<1> QED
  BY <1>1, <1>2, DocRuns DEF i

LEMMA JalrRuns ==
  ASSUME NEW switch, NEW rx, DocMachine!Step(switch, rx), NEW r, InstrIn(DocPc) = jalr(0, r, 0)
  PROVE  /\ WrittenRegs' = WrittenRegs /\ ~Leaves
         /\ DocPc' = EvenPart(Plus(ReadReg(r), 0 % WordSize))
<1> DEFINE i == jalr(0, r, 0)
<1>1. i.opcode = "JALR" /\ i.rd = 0 /\ i.rs1 = r /\ i.imm = 0 % WordSize
  BY DEF jalr, Fields
<1> HIDE DEF i
<1>2. /\ ~DocMachine!Writes(i) /\ ~DocMachine!SendsByte(i) /\ DocMachine!Taken(i)
      /\ DocMachine!Target(i, DocPc) = EvenPart(Plus(ReadReg(r), 0 % WordSize))
  BY <1>1, DocOperators
     DEF DocMachine!Writes, DocMachine!Taken, DocMachine!SendsByte, DocMachine!Target,
         DocMachine!DataAddr
<1> QED
  BY <1>1, <1>2, DocRuns DEF i

LEMMA SwRuns ==
  ASSUME NEW switch, NEW rx, DocMachine!Step(switch, rx), InstrIn(DocPc) = sw(7, 5, 12),
         ReadReg(5) = MmioBase
  PROVE  /\ WrittenRegs' = WrittenRegs /\ DocPc' = Plus(DocPc, 4)
         /\ Leaves /\ tx_byte' = ReadReg(7) % ByteSize
<1> DEFINE i == sw(7, 5, 12)
<1>1. i.opcode = "STORE" /\ i.rs1 = 5 /\ i.rs2 = 7 /\ i.imm = 12 % WordSize
  BY DEF sw, Fields
<1> HIDE DEF i
<1>2. Plus(ReadReg(5), 12 % WordSize) = UartData
  BY Offset, HelloSizes DEF UartData
<1>3. ~DocMachine!Writes(i) /\ DocMachine!SendsByte(i) /\ ~DocMachine!Taken(i)
  BY <1>1, <1>2, DocOperators
     DEF DocMachine!Writes, DocMachine!Taken, DocMachine!SendsByte, DocMachine!DataAddr
<1> QED
  BY <1>1, <1>3, DocRuns, DocOperators DEF i

-------------------------------------------------------------------------------
(* A step of the program, from word k and registers r to word k2 and r2.       *)

Walk(k, r, k2, r2) ==
    \/ k \notin Working /\ k2 = k + 1 /\ r2 = r
    \/ \E p \in Constants : k = p[1] /\ k2 = k + 1 /\ r2 = [r EXCEPT ![p[2]] = p[3]]
    \/ \E p \in Calls : k = p[1] /\ k2 = p[3] /\ r2 = [r EXCEPT ![p[2]] = 4 * (k + 1)]
    \/ \E p \in Countdowns : k = p[1] /\ k2 = k + 1 /\ r2 = [r EXCEPT ![p[2]] = r[p[2]] - 1]
    \/ \E p \in Loops : k = p[1] /\ k2 = (IF r[p[2]] # 0 THEN p[3] ELSE k + 1) /\ r2 = r
    \/ \E p \in Returns : k = p[1] /\ r[p[2]] = 4 * k2 /\ r2 = r
    \/ k = 2 /\ k2 = 3 /\ r2 = [r EXCEPT ![5] = MmioBase]
    \/ k = 33 /\ k2 = 33 /\ r2 = r
    \/ k = 118 /\ k2 = 119 /\ r2 = r

\* What a step relies on: the MMIO address, counts that are not over, and link
\* registers that hold the address of a word.
Ready(k, r) ==
    /\ k = 2 => r[5] = 1 /\ r[6] = TopBit
    /\ k = 118 => r[5] = MmioBase
    /\ \A p \in Countdowns : k = p[1] => r[p[2]] >= 1
    /\ \A p \in Returns : k = p[1] => \E k2 \in 0 .. 123 : r[p[2]] = 4 * k2

LEMMA Walks ==
  ASSUME TypeOK, Listing(rom), NEW k \in 0 .. 123, DocPc = 4 * k, Ready(k, WrittenRegs),
         NEW switch, NEW rx, DocMachine!Step(switch, rx)
  PROVE  /\ \E k2 \in 0 .. 123 : DocPc' = 4 * k2 /\ Walk(k, WrittenRegs, k2, WrittenRegs')
         /\ Leaves <=> k = 118
         /\ Leaves => tx_byte' = WrittenRegs[7] % ByteSize
<1> DEFINE r == WrittenRegs
<1>1. r \in [Reg -> Word]
  BY WritebackType
<1> HIDE DEF r
<1>2. /\ k \in RomWord /\ 4 * k \in Word /\ InstrIn(DocPc) = rom[k]
      /\ \A m \in 0 .. 123 : 4 * m \in Word
  <2>1. \A m \in 0 .. 123 : 4 * m \in Word /\ m \in RomWord
    BY HelloSizes, HelloAssumption, SizeAssumption DEF RomWord
  <2> QED
    BY <2>1, WordAt
<1>3. k < 123 => Plus(DocPc, 4) = 4 * (k + 1) /\ k + 1 \in 0 .. 123
  <2> SUFFICES ASSUME k < 123
               PROVE  Plus(DocPc, 4) = 4 * (k + 1) /\ k + 1 \in 0 .. 123
    OBVIOUS
  <2>2. 4 % WordSize = 4 /\ 4 * k + 4 = 4 * (k + 1) /\ k + 1 \in 0 .. 123
    BY HelloSizes
  <2>3. 4 * k \in Word /\ 4 * k + 4 \in Word /\ 4 \in Int
    BY HelloSizes
  <2>4. Plus(4 * k, 4 % WordSize) = 4 * k + 4
    BY <2>3, Offset
  <2> QED
    BY <2>2, <2>4
<1>4. \A j \in Reg : j # 0 => ReadReg(j) = r[j] /\ r[j] \in Word
  BY <1>1 DEF ReadReg, r
<1>5. CASE k \notin Working
  <2>1. k # 123 /\ k # 118
    BY <1>5 DEF Working
  <2>2. rom[k] = Nop
    BY <1>2, <1>5 DEF Listing
  <2>3. WrittenRegs' = r /\ DocPc' = 4 * (k + 1) /\ ~Leaves
    BY <1>2, <1>3, <2>1, <2>2, NopRuns DEF r
  <2> QED
    BY <1>3, <1>5, <2>1, <2>3 DEF Walk, r
<1>6. ASSUME NEW p \in Constants, k = p[1]
      PROVE  /\ \E k2 \in 0 .. 123 : DocPc' = 4 * k2 /\ Walk(k, r, k2, WrittenRegs')
             /\ ~Leaves /\ k # 118
  <2>1. k < 118 /\ p[2] \in Reg \ {0} /\ p[3] \in Word
    <3>1. k < 118 /\ p[2] \in {5, 6, 7, 8, 9}
      BY <1>6 DEF Constants
    <3>2. p[3] \in {1, TopBit, Rows, Width, Width - 2, HASH, SPACE, NEWLINE}
      BY DEF Constants
    <3>3. {1, TopBit, Rows, Width, Width - 2, HASH, SPACE, NEWLINE} \subseteq Word
      BY HelloSizes, HelloAssumption DEF HASH, SPACE, NEWLINE
    <3>4. {5, 6, 7, 8, 9} \subseteq Reg \ {0}
      BY HelloSizes
    <3>5. p[2] \in Reg \ {0}
      BY <3>1, <3>4
    <3>6. p[3] \in Word
      BY <3>2, <3>3
    <3> QED
      BY <3>1, <3>5, <3>6
  <2>2. rom[k] = addi(p[2], 0, p[3])
    BY <1>6 DEF Listing
  <2>3. Plus(ReadReg(0), p[3] % WordSize) = p[3]
    <3>1. p[3] \in Int /\ 0 \in Word /\ 0 + p[3] = p[3]
      BY <2>1, HelloSizes
    <3> QED
      BY <2>1, <3>1, Offset DEF ReadReg
  <2>4. WrittenRegs' = [r EXCEPT ![p[2]] = p[3]] /\ DocPc' = 4 * (k + 1) /\ ~Leaves
    <3>1. InstrIn(DocPc) = addi(p[2], 0, p[3]) /\ p[2] # 0 /\ k < 123
      BY <1>2, <2>1, <2>2
    <3>2. /\ WrittenRegs' = [WrittenRegs EXCEPT ![p[2]] = Plus(ReadReg(0), p[3] % WordSize)]
          /\ DocPc' = Plus(DocPc, 4) /\ ~Leaves
      BY <3>1, AddiRuns
    <3> QED
      BY <1>3, <2>3, <3>1, <3>2 DEF r
  <2>5. Walk(k, r, k + 1, WrittenRegs')
    BY <1>6, <2>4 DEF Walk
  <2> QED
    BY <1>3, <2>1, <2>4, <2>5
<1>7. ASSUME NEW p \in Calls, k = p[1]
      PROVE  /\ \E k2 \in 0 .. 123 : DocPc' = 4 * k2 /\ Walk(k, r, k2, WrittenRegs')
             /\ ~Leaves /\ k # 118
  <2>1. k < 118 /\ p[2] # 0 /\ p[3] \in 0 .. 123
    BY <1>7 DEF Calls
  <2>2. rom[k] = jal(p[2], 4 * (p[3] - k))
    BY <1>7 DEF Listing
  <2>3. Plus(DocPc, (4 * (p[3] - k)) % WordSize) = 4 * p[3]
    <3>1. 4 * (p[3] - k) \in Int /\ 4 * k + 4 * (p[3] - k) = 4 * p[3] /\ 4 * p[3] \in Word
      BY <1>2, <2>1
    <3> QED
      BY <1>2, <3>1, Offset
  <2>4. WrittenRegs' = [r EXCEPT ![p[2]] = 4 * (k + 1)] /\ DocPc' = 4 * p[3] /\ ~Leaves
    BY <1>2, <1>3, <2>1, <2>2, <2>3, JalRuns DEF r
  <2>5. Walk(k, r, p[3], WrittenRegs')
    BY <1>7, <2>4 DEF Walk
  <2> QED
    BY <2>1, <2>4, <2>5
<1>8. ASSUME NEW p \in Countdowns, k = p[1]
      PROVE  /\ \E k2 \in 0 .. 123 : DocPc' = 4 * k2 /\ Walk(k, r, k2, WrittenRegs')
             /\ ~Leaves /\ k # 118
  <2>1. k < 118 /\ p[2] \in Reg \ {0}
    BY <1>8, HelloSizes DEF Countdowns
  <2>2. rom[k] = addi(p[2], p[2], -1)
    BY <1>8 DEF Listing
  <2>3. r[p[2]] \in Word /\ r[p[2]] >= 1 /\ ReadReg(p[2]) = r[p[2]]
    BY <1>4, <1>8, <2>1 DEF Ready, r
  <2>4. Plus(ReadReg(p[2]), (-1) % WordSize) = r[p[2]] - 1
    <3>1. -1 \in Int /\ r[p[2]] + (-1) = r[p[2]] - 1 /\ r[p[2]] - 1 \in Word
      BY <2>3, HelloSizes
    <3> QED
      BY <2>3, <3>1, Offset
  <2>5. WrittenRegs' = [r EXCEPT ![p[2]] = r[p[2]] - 1] /\ DocPc' = 4 * (k + 1) /\ ~Leaves
    BY <1>2, <1>3, <2>1, <2>2, <2>4, AddiRuns DEF r
  <2>6. Walk(k, r, k + 1, WrittenRegs')
    BY <1>8, <2>5 DEF Walk
  <2> QED
    BY <1>3, <2>1, <2>5, <2>6
<1>9. ASSUME NEW p \in Loops, k = p[1]
      PROVE  /\ \E k2 \in 0 .. 123 : DocPc' = 4 * k2 /\ Walk(k, r, k2, WrittenRegs')
             /\ ~Leaves /\ k # 118
  <2>1. k < 118 /\ p[2] \in Reg \ {0} /\ p[3] \in 0 .. 123
    BY <1>9, HelloSizes DEF Loops
  <2>2. rom[k] = bne(p[2], 0, -4 * (k - p[3]))
    BY <1>9 DEF Listing
  <2>3. Plus(DocPc, (-4 * (k - p[3])) % WordSize) = 4 * p[3]
    <3>1. -4 * (k - p[3]) \in Int /\ 4 * k + (-4 * (k - p[3])) = 4 * p[3] /\ 4 * p[3] \in Word
      BY <1>2, <2>1
    <3> QED
      BY <1>2, <3>1, Offset
  <2>4. /\ WrittenRegs' = r /\ ~Leaves
        /\ DocPc' = 4 * (IF r[p[2]] # 0 THEN p[3] ELSE k + 1)
    BY <1>2, <1>3, <1>4, <2>1, <2>2, <2>3, BneRuns DEF r
  <2>5. Walk(k, r, IF r[p[2]] # 0 THEN p[3] ELSE k + 1, WrittenRegs')
    BY <1>9, <2>4 DEF Walk
  <2> QED
    BY <1>3, <2>1, <2>4, <2>5
<1>10. ASSUME NEW p \in Returns, k = p[1]
       PROVE  /\ \E k2 \in 0 .. 123 : DocPc' = 4 * k2 /\ Walk(k, r, k2, WrittenRegs')
              /\ ~Leaves /\ k # 118
  <2>1. k # 118 /\ p[2] \in Reg \ {0}
    BY <1>10, HelloSizes DEF Returns
  <2>2. rom[k] = jalr(0, p[2], 0)
    BY <1>10 DEF Listing
  <2>3. PICK k2 \in 0 .. 123 : r[p[2]] = 4 * k2
    BY <1>10 DEF Ready, r
  <2>4. EvenPart(Plus(ReadReg(p[2]), 0 % WordSize)) = 4 * k2
    <3>1. Plus(4 * k2, 0 % WordSize) = 4 * k2
      <4>1. 4 * k2 \in Word /\ 4 * k2 + 0 = 4 * k2
        BY <1>2
      <4> QED
        BY <4>1, Offset
    <3>2. EvenPart(4 * k2) = 4 * k2
      BY DEF EvenPart
    <3> QED
      BY <1>4, <2>1, <2>3, <3>1, <3>2
  <2>5. WrittenRegs' = r /\ DocPc' = 4 * k2 /\ ~Leaves
    BY <1>2, <2>2, <2>4, JalrRuns DEF r
  <2> QED
    BY <1>10, <2>1, <2>3, <2>5 DEF Walk
<1>11. CASE k = 2
  <2>1. rom[k] = sll(5, 5, 6)
    BY <1>11 DEF Listing
  <2>2. BitResult("SLL", ReadReg(5), ReadReg(6)) = MmioBase
    <3>1. 5 \in Reg /\ 6 \in Reg /\ r[5] = 1 /\ r[6] = TopBit
      BY <1>11, HelloSizes DEF Ready, r
    <3> QED
      BY <1>4, <3>1, HelloAssumption
  <2>3. WrittenRegs' = [r EXCEPT ![5] = MmioBase] /\ DocPc' = 4 * (k + 1) /\ ~Leaves
    BY <1>2, <1>3, <1>11, <2>1, <2>2, SllRuns DEF r
  <2> QED
    BY <1>3, <1>11, <2>3 DEF Walk, r
<1>12. CASE k = 33
  <2>1. rom[k] = jal(0, 0)
    BY <1>12 DEF Listing
  <2>2. Plus(DocPc, 0 % WordSize) = 4 * 33
    <3>1. DocPc \in Word /\ DocPc + 0 = DocPc /\ DocPc = 4 * 33
      BY <1>2, <1>12, HelloSizes
    <3> QED
      BY <3>1, Offset
  <2>3. WrittenRegs' = r /\ DocPc' = 4 * 33 /\ ~Leaves
    BY <1>2, <2>1, <2>2, JalRuns DEF r
  <2> QED
    BY <1>12, <2>3 DEF Walk, r
<1>13. CASE k = 118
  <2>1. rom[k] = sw(7, 5, 12)
    BY <1>13 DEF Listing
  <2>2. ReadReg(5) = MmioBase /\ ReadReg(7) = r[7]
    <3>1. 5 \in Reg /\ 7 \in Reg /\ r[5] = MmioBase
      BY <1>13, HelloSizes DEF Ready, r
    <3> QED
      BY <1>4, <3>1
  <2>3. /\ WrittenRegs' = r /\ DocPc' = 4 * (k + 1)
        /\ Leaves /\ tx_byte' = r[7] % ByteSize
    BY <1>2, <1>3, <1>13, <2>1, <2>2, SwRuns DEF r
  <2> QED
    BY <1>3, <1>13, <2>3 DEF Walk, r
<1> QED
  BY <1>5, <1>6, <1>7, <1>8, <1>9, <1>10, <1>11, <1>12, <1>13, WorkingWords DEF r

-------------------------------------------------------------------------------
(* Where the program is and how much it has printed: line lines, and col       *)
(* characters of the next. Rows are counted in x9, characters in x8; main      *)
(* links in x1, the drawing functions in x2; x7 is the character to print.     *)

InMain(k, r, line) ==
    \/ /\ k \in 0 .. 7 /\ line = 0
       /\ k \in {1, 2} => r[5] = 1
       /\ k = 2 => r[6] = TopBit
    \/ k \in 8 .. 12 /\ line = 1
    \/ k \in 13 .. 17 /\ r[9] \in 1 .. Rows /\ line = Rows + 1 - r[9]
    \/ k \in 18 .. 22 /\ r[9] \in 1 .. Rows /\ line = Rows + 2 - r[9]
    \/ k \in 23 .. 27 /\ r[9] \in 0 .. Rows - 1 /\ line = Rows + 1 - r[9]
    \/ k = 28 /\ line = Rows + 1
    \/ k \in 29 .. 33 /\ line = Rows + 2

InTop(k, r, line, col) ==
    /\ \/ r[1] = 4 * 8 /\ line = 0
       \/ r[1] = 4 * 29 /\ line = Rows + 1
    /\ \/ k = 34 /\ col = 0
       \/ /\ k \in 35 .. 44 /\ r[8] \in 1 .. Width /\ col = Width - r[8]
          /\ k >= 40 => r[7] = HASH
       \/ k \in 45 .. 49 /\ r[8] \in 1 .. Width /\ col = Width + 1 - r[8]
       \/ k \in 50 .. 54 /\ r[8] \in 0 .. Width - 1 /\ col = Width - r[8]
       \/ k \in 55 .. 60 /\ col = Width /\ (k >= 56 => r[7] = NEWLINE)
       \/ k \in 61 .. 65 /\ col = Width + 1

InMiddle(k, r, line, col) ==
    /\ r[1] = 4 * 18 /\ r[9] \in 1 .. Rows /\ line = Rows + 1 - r[9]
    /\ \/ k \in 66 .. 71 /\ col = 0 /\ (k >= 67 => r[7] = HASH)
       \/ k \in 72 .. 76 /\ col = 1
       \/ /\ k \in 77 .. 86 /\ r[8] \in 1 .. Width - 2 /\ col = Width - 1 - r[8]
          /\ k >= 82 => r[7] = SPACE
       \/ k \in 87 .. 91 /\ r[8] \in 1 .. Width - 2 /\ col = Width - r[8]
       \/ k \in 92 .. 96 /\ r[8] \in 0 .. Width - 3 /\ col = Width - 1 - r[8]
       \/ k \in 97 .. 102 /\ col = Width - 1 /\ (k >= 98 => r[7] = HASH)
       \/ k \in 103 .. 112 /\ col = Width /\ (k >= 108 => r[7] = NEWLINE)
       \/ k \in 113 .. 117 /\ col = Width + 1

Drawing(k, r, line, col) == InTop(k, r, line, col) \/ InMiddle(k, r, line, col)

\* In putchar, called from word c: before the store as at c, then as behind it.
InPutChar(k, r, line, col) == \E c \in PutCalls :
    /\ r[2] = 4 * (c + 1)
    /\ \/ k = 118 /\ Drawing(c, r, line, col)
       \/ k \in 119 .. 123 /\ Drawing(c + 1, r, line, col)

Placed(k, r, line, col) ==
    \/ InMain(k, r, line) /\ col = 0
    \/ Drawing(k, r, line, col)
    \/ InPutChar(k, r, line, col)

Located(k, r, line, col) == Placed(k, r, line, col) /\ (k >= 3 => r[5] = MmioBase)

\* The same, word by word. Register j becomes v, the others of the program stay.
Sets(r, j, v, r2) == r2[j] = v /\ \A i \in {1, 2, 5, 6, 7, 8, 9} : i # j => r2[i] = r[i]
WalkTable(k, r, k2, r2) ==
    /\ k \notin Working => k2 = k + 1 /\ r2 = r
    /\ k = 0 => k2 = 1 /\ Sets(r, 5, 1, r2)
    /\ k = 1 => k2 = 2 /\ Sets(r, 6, TopBit, r2)
    /\ k = 2 => k2 = 3 /\ Sets(r, 5, MmioBase, r2)
    /\ k = 7 => k2 = 34 /\ Sets(r, 1, 4 * 8, r2)
    /\ k = 12 => k2 = 13 /\ Sets(r, 9, Rows, r2)
    /\ k = 17 => k2 = 66 /\ Sets(r, 1, 4 * 18, r2)
    /\ k = 22 => k2 = 23 /\ Sets(r, 9, r[9] - 1, r2)
    /\ k = 27 => k2 = (IF r[9] # 0 THEN 17 ELSE 28) /\ r2 = r
    /\ k = 28 => k2 = 34 /\ Sets(r, 1, 4 * 29, r2)
    /\ k = 33 => k2 = 33 /\ r2 = r
    /\ k \in {34, 76} => k2 = k + 1 /\ Sets(r, 8, IF k = 34 THEN Width ELSE Width - 2, r2)
    /\ k \in {39, 66, 97} => k2 = k + 1 /\ Sets(r, 7, HASH, r2)
    /\ k \in {55, 107} => k2 = k + 1 /\ Sets(r, 7, NEWLINE, r2)
    /\ k = 81 => k2 = k + 1 /\ Sets(r, 7, SPACE, r2)
    /\ k \in PutCalls => k2 = 118 /\ Sets(r, 2, 4 * (k + 1), r2)
    /\ k \in {49, 91} => k2 = k + 1 /\ Sets(r, 8, r[8] - 1, r2)
    /\ k = 54 => k2 = (IF r[8] # 0 THEN 39 ELSE 55) /\ r2 = r
    /\ k = 96 => k2 = (IF r[8] # 0 THEN 81 ELSE 97) /\ r2 = r
    /\ k \in {65, 117} => r[1] = 4 * k2 /\ r2 = r
    /\ k = 118 => k2 = 119 /\ r2 = r
    /\ k = 123 => r[2] = 4 * k2 /\ r2 = r

\* What a step does to the seven registers the program uses.
LEMMA WalkFrom ==
  ASSUME NEW k \in 0 .. 123, NEW r \in [Reg -> Word], NEW k2 \in 0 .. 123, NEW r2, Walk(k, r, k2, r2)
  PROVE  WalkTable(k, r, k2, r2)
<1>1. \A j \in {1, 2, 5, 6, 7, 8, 9} : \A v : Sets(r, j, v, [r EXCEPT ![j] = v])
  BY HelloSizes DEF Sets
<1> QED
  BY <1>1 DEF WalkTable, Walk, Working, Constants, Calls, Countdowns, Loops, Returns, PutCalls

\* The invariant keeps the registers an instruction relies on as it relies on them.
LEMMA LocatedReady ==
  ASSUME NEW k \in 0 .. 123, NEW r, NEW line, NEW col, Located(k, r, line, col)
  PROVE  Ready(k, r)
<1>1. /\ k = 2 => r[5] = 1 /\ r[6] = TopBit
      /\ k = 118 => r[5] = MmioBase
  BY DEF Located, Placed, Drawing, InTop, InMiddle, InPutChar, InMain
<1>2. \A p \in Countdowns : k = p[1] => r[p[2]] >= 1
  BY DEF Located, Placed, Drawing, InTop, InMiddle, InPutChar, InMain, Countdowns
<1>3. k \in {65, 117} => \E k2 \in 0 .. 123 : r[1] = 4 * k2
  BY DEF Located, Placed, Drawing, InTop, InMiddle, InPutChar, InMain
<1>4. k = 123 => \E k2 \in 0 .. 123 : r[2] = 4 * k2
  BY DEF Located, Placed, Drawing, InTop, InMiddle, InPutChar, InMain, PutCalls
<1> QED
  BY <1>1, <1>2, <1>3, <1>4 DEF Ready, Returns

\* The counters of rows and characters fit a word.
LEMMA SizesOfBox ==
  /\ Width \in Nat /\ Width >= 3 /\ Rows \in Nat /\ Rows >= 1
  /\ Width < WordSize /\ Rows < WordSize /\ WordSize \in Nat
  BY HelloAssumption, HelloSizes

\* Nothing but words 0 and 2 changes the UART's address in x5.
LEMMA AddressStays ==
  ASSUME NEW k \in 0 .. 123, NEW r, NEW k2, NEW r2, WalkTable(k, r, k2, r2),
         k >= 3 => r[5] = MmioBase
  PROVE  k2 >= 3 => r2[5] = MmioBase
<1>1. CASE k \in {0, 1, 2}
  BY <1>1 DEF WalkTable, Sets
<1>2. CASE k \notin {0, 1, 2}
  <2>1. r2[5] = r[5]
    BY <1>2 DEF WalkTable, Sets, Working, PutCalls
  <2> QED
    BY <1>2, <2>1
<1> QED
  BY <1>1, <1>2

\* Main: from one call to the next.
LEMMA MainAdvances ==
  ASSUME NEW k \in 0 .. 123, NEW r, NEW line, InMain(k, r, line),
         NEW k2, NEW r2, WalkTable(k, r, k2, r2)
  PROVE  Placed(k2, r2, line, 0) /\ k # 118
<1>1. CASE k \notin Working
  <2>1. k2 = k + 1 /\ r2 = r
    BY <1>1 DEF WalkTable
  <2>2. InMain(k2, r2, line)
    BY <1>1, <2>1 DEF InMain, Working
  <2> QED
    BY <2>2 DEF Placed, InMain
<1>2. CASE k \in {0, 1, 2, 12, 22, 27, 33}
  <2>1. InMain(k2, r2, line)
    BY <1>2, SizesOfBox DEF InMain, WalkTable, Sets
  <2> QED
    BY <1>2, <2>1 DEF Placed
<1>3. CASE k \in {7, 17, 28}
  <2>1. Drawing(k2, r2, line, 0)
    BY <1>3, SizesOfBox DEF InMain, Drawing, InTop, InMiddle, WalkTable, Sets
  <2> QED
    BY <1>3, <2>1 DEF Placed
<1> QED
  BY <1>1, <1>2, <1>3 DEF Working, InMain

\* A border: Width times HASH, then the end of the line, then back to main.
LEMMA TopAdvances ==
  ASSUME NEW k \in 0 .. 123, NEW r, NEW line, NEW col, InTop(k, r, line, col),
         NEW k2 \in 0 .. 123, NEW r2, WalkTable(k, r, k2, r2)
  PROVE  /\ \/ Placed(k2, r2, line, col)
            \/ col = Width + 1 /\ Placed(k2, r2, line + 1, 0)
         /\ k # 118
<1>1. CASE k \notin Working
  <2>1. k2 = k + 1 /\ r2 = r
    BY <1>1 DEF WalkTable
  <2>2. InTop(k2, r2, line, col)
    BY <1>1, <2>1 DEF InTop, Working
  <2> QED
    BY <2>2 DEF Placed, Drawing, InTop
<1>2. CASE k \in {34, 39, 49, 54, 55}
  <2>1. InTop(k2, r2, line, col)
    BY <1>2, SizesOfBox DEF InTop, WalkTable, Sets
  <2> QED
    BY <1>2, <2>1 DEF Placed, Drawing
<1>3. CASE k \in {44, 60}
  <2>1. k2 = 118 /\ Sets(r, 2, 4 * (k + 1), r2)
    BY <1>3 DEF WalkTable, PutCalls
  <2>2. InTop(k, r2, line, col)
    BY <1>3, <2>1 DEF InTop, Sets
  <2>3. InPutChar(k2, r2, line, col)
    BY <1>3, <2>1, <2>2 DEF InPutChar, Drawing, PutCalls, Sets
  <2> QED
    BY <1>3, <2>3 DEF Placed
<1>4. CASE k = 65
  <2>1. r[1] = 4 * k2 /\ r2 = r /\ col = Width + 1
    BY <1>4 DEF WalkTable, InTop
  <2>2. InMain(k2, r2, line + 1)
    BY <1>4, <2>1, SizesOfBox DEF InTop, InMain
  <2> QED
    BY <1>4, <2>1, <2>2 DEF Placed
<1> QED
  BY <1>1, <1>2, <1>3, <1>4 DEF Working, InTop

\* A row between the borders.
LEMMA MiddleAdvances ==
  ASSUME NEW k \in 0 .. 123, NEW r, NEW line, NEW col, InMiddle(k, r, line, col),
         NEW k2 \in 0 .. 123, NEW r2, WalkTable(k, r, k2, r2)
  PROVE  /\ \/ Placed(k2, r2, line, col)
            \/ col = Width + 1 /\ Placed(k2, r2, line + 1, 0)
         /\ k # 118
<1>1. CASE k \notin Working
  <2>1. k2 = k + 1 /\ r2 = r
    BY <1>1 DEF WalkTable
  <2>2. InMiddle(k2, r2, line, col)
    BY <1>1, <2>1 DEF InMiddle, Working
  <2> QED
    BY <2>2 DEF Placed, Drawing, InMiddle
<1>2. CASE k \in {66, 76, 81, 91, 96, 97, 107}
  <2>1. InMiddle(k2, r2, line, col)
    BY <1>2, SizesOfBox DEF InMiddle, WalkTable, Sets
  <2> QED
    BY <1>2, <2>1 DEF Placed, Drawing
<1>3. CASE k \in {71, 86, 102, 112}
  <2>1. k2 = 118 /\ Sets(r, 2, 4 * (k + 1), r2)
    BY <1>3 DEF WalkTable, PutCalls
  <2>2. InMiddle(k, r2, line, col)
    BY <1>3, <2>1 DEF InMiddle, Sets
  <2>3. InPutChar(k2, r2, line, col)
    BY <1>3, <2>1, <2>2 DEF InPutChar, Drawing, PutCalls, Sets
  <2> QED
    BY <1>3, <2>3 DEF Placed
<1>4. CASE k = 117
  <2>1. r[1] = 4 * k2 /\ r2 = r /\ col = Width + 1
    BY <1>4 DEF WalkTable, InMiddle
  <2>2. InMain(k2, r2, line + 1)
    BY <1>4, <2>1, SizesOfBox DEF InMiddle, InMain
  <2> QED
    BY <1>4, <2>1, <2>2 DEF Placed
<1> QED
  BY <1>1, <1>2, <1>3, <1>4 DEF Working, InMiddle

\* putchar: the store is one more character, the return is to the caller.
LEMMA PutCharAdvances ==
  ASSUME NEW k \in 0 .. 123, NEW r, NEW line, NEW col, InPutChar(k, r, line, col),
         NEW k2 \in 0 .. 123, NEW r2, WalkTable(k, r, k2, r2)
  PROVE  Placed(k2, r2, line, IF k = 118 THEN col + 1 ELSE col)
<1>1. PICK c \in PutCalls : /\ r[2] = 4 * (c + 1)
                            /\ \/ k = 118 /\ Drawing(c, r, line, col)
                               \/ k \in 119 .. 123 /\ Drawing(c + 1, r, line, col)
  BY DEF InPutChar
<1>2. CASE k = 118
  <2>1. k2 = 119 /\ r2 = r
    BY <1>2 DEF WalkTable
  <2>2. Drawing(c + 1, r, line, col + 1)
    BY <1>1, <1>2, SizesOfBox DEF Drawing, InTop, InMiddle, PutCalls
  <2> QED
    BY <1>1, <1>2, <2>1, <2>2 DEF Placed, InPutChar
<1>3. CASE k \in 119 .. 122
  <2>1. k2 = k + 1 /\ r2 = r /\ k2 \in 119 .. 123
    BY <1>3 DEF WalkTable, Working
  <2> QED
    BY <1>1, <1>3, <2>1 DEF Placed, InPutChar
<1>4. CASE k = 123
  <2>1. r[2] = 4 * k2 /\ r2 = r
    BY <1>4 DEF WalkTable
  <2>2. k2 = c + 1
    BY <1>1, <2>1 DEF PutCalls
  <2> QED
    BY <1>1, <1>4, <2>1, <2>2 DEF Placed
<1> QED
  BY <1>1, <1>2, <1>3, <1>4

-------------------------------------------------------------------------------
(* The characters of the box, and the character that is about to be printed.   *)

\* Line and column of a character in the screen.
LEMMA Quotients ==
  ASSUME NEW n \in Nat \ {0}, NEW q \in Nat, NEW c \in 0 .. n - 1
  PROVE  (n * q + c) \div n = q /\ (n * q + c) % n = c
<1> DEFINE z == n * q + c
<1>1. z \in Int /\ z = n * (z \div n) + (z % n) /\ z \div n \in Int /\ z % n \in 0 .. n - 1
  OBVIOUS
<1>2. n * (q - z \div n) = (z % n) - c
  BY <1>1
<1> DEFINE d == q - z \div n
<1>3. d \in Int /\ n * d = (z % n) - c
  BY <1>1, <1>2
<1> HIDE DEF d, z
<1>4. d = 0
  BY <1>1, <1>3
<1> QED
  BY <1>1, <1>3, <1>4 DEF d, z

\* The characters of one line of the box.
LEMMA RowCharacters ==
  ASSUME NEW c
  PROVE  /\ Row(c)[1] = HASH /\ Row(c)[Width] = HASH /\ Row(c)[Width + 1] = NEWLINE
         /\ \A j \in 2 .. Width - 1 : Row(c)[j] = c
  BY SizesOfBox DEF Row

\* Screen and its length, line by line.
LEMMA ScreenCharacters ==
  ASSUME NEW line \in 0 .. Rows + 1, NEW col \in 0 .. Width
  PROVE  /\ LineLength * line + col + 1 \in 1 .. LineLength * (Rows + 2)
         /\ Screen[LineLength * line + col + 1] =
              Row(IF line \in 1 .. Rows THEN SPACE ELSE HASH)[col + 1]
<1> DEFINE n == LineLength
           i == n * line + col + 1
<1>1. n \in Nat \ {0} /\ col \in 0 .. n - 1 /\ line \in Nat
  BY SizesOfBox DEF LineLength
<1>2. n * line + col + 1 \in 1 .. n * (Rows + 2)
  <2> HIDE DEF n
  <2>1. n * (Rows + 2) = n * line + n * (Rows + 1 - line) + n
    BY <1>1, SizesOfBox
  <2>2. n * (Rows + 1 - line) \in Nat /\ n * line \in Nat
    <3>1. \A a, b \in Nat : a * b \in Nat
      OBVIOUS
    <3>2. Rows + 1 - line \in Nat
      BY SizesOfBox
    <3> QED
      BY <1>1, <3>1, <3>2
  <2>3. n * (Rows + 2) \in Int
    BY <1>1, SizesOfBox
  <2> QED
    BY <1>1, <2>1, <2>2, <2>3
<1>3. (i - 1) \div n = line /\ (i - 1) % n = col
  <2>1. i - 1 = n * line + col
    BY <1>1
  <2> HIDE DEF n, i
  <2> QED
    BY <1>1, <2>1, Quotients
<1>4. Screen[i] = Row(IF line \in 1 .. Rows THEN SPACE ELSE HASH)[col + 1]
  <2> HIDE DEF i
  <2>1. i \in 1 .. LineLength * (Rows + 2)
    BY <1>2 DEF i
  <2> QED
    BY <1>3, <2>1 DEF Screen
<1> QED
  BY <1>2, <1>4

\* In putchar, x7 is the character at the place reached.
LEMMA NextCharacter ==
  ASSUME NEW r, NEW line, NEW col, InPutChar(118, r, line, col)
  PROVE  /\ line \in 0 .. Rows + 1 /\ col \in 0 .. Width
         /\ r[7] = Row(IF line \in 1 .. Rows THEN SPACE ELSE HASH)[col + 1]
         /\ r[7] % ByteSize = r[7]
<1>1. PICK c \in PutCalls : Drawing(c, r, line, col)
  BY DEF InPutChar
<1>2. /\ Row(HASH)[1] = HASH /\ Row(HASH)[Width] = HASH /\ Row(HASH)[Width + 1] = NEWLINE
      /\ Row(SPACE)[1] = HASH /\ Row(SPACE)[Width] = HASH /\ Row(SPACE)[Width + 1] = NEWLINE
      /\ \A j \in 2 .. Width - 1 : Row(HASH)[j] = HASH /\ Row(SPACE)[j] = SPACE
  BY RowCharacters
<1>3. CASE InTop(c, r, line, col)
  <2>1. (line = 0 \/ line = Rows + 1) /\ col \in 0 .. Width
    BY <1>3, SizesOfBox DEF InTop, PutCalls
  <2>2. r[7] = Row(HASH)[col + 1]
    <3>1. CASE c = 44
      <4>1. r[7] = HASH /\ col \in 0 .. Width - 1
        BY <1>3, <3>1, SizesOfBox DEF InTop
      <4>2. Row(HASH)[col + 1] = HASH
        <5>1. col + 1 = 1 \/ col + 1 = Width \/ col + 1 \in 2 .. Width - 1
          BY <4>1, SizesOfBox
        <5> QED
          BY <1>2, <5>1
      <4> QED
        BY <4>1, <4>2
    <3>2. CASE c = 60
      BY <1>2, <1>3, <3>2, SizesOfBox DEF InTop
    <3> QED
      BY <1>3, <3>1, <3>2 DEF PutCalls, InTop
  <2>3. r[7] \in {HASH, NEWLINE}
    BY <1>3, SizesOfBox DEF InTop, PutCalls
  <2>4. line \notin 1 .. Rows /\ line \in 0 .. Rows + 1
    BY <2>1, SizesOfBox
  <2> QED
    BY <2>1, <2>2, <2>3, <2>4, HelloAssumption, SizeAssumption DEF HASH, NEWLINE
<1>4. CASE InMiddle(c, r, line, col)
  <2>1. line \in 1 .. Rows /\ col \in 0 .. Width
    BY <1>4, SizesOfBox DEF InMiddle, PutCalls
  <2>2. r[7] = Row(SPACE)[col + 1]
    <3>1. CASE c = 86
      <4>1. r[7] = SPACE /\ col + 1 \in 2 .. Width - 1
        BY <1>4, <3>1, SizesOfBox DEF InMiddle
      <4> QED
        BY <1>2, <4>1
    <3>2. CASE c \in {71, 102, 112}
      BY <1>2, <1>4, <3>2, SizesOfBox DEF InMiddle
    <3> QED
      BY <1>4, <3>1, <3>2 DEF PutCalls, InMiddle
  <2>3. r[7] \in {HASH, SPACE, NEWLINE}
    BY <1>4, SizesOfBox DEF InMiddle, PutCalls
  <2>4. line \in 0 .. Rows + 1
    BY <2>1, SizesOfBox
  <2> QED
    BY <2>1, <2>2, <2>3, <2>4, HelloAssumption, SizeAssumption DEF HASH, SPACE, NEWLINE
<1> QED
  BY <1>1, <1>3, <1>4 DEF Drawing

\* How far the program can be.
LEMMA LocatedCount ==
  ASSUME NEW k, NEW r, NEW line, NEW col, Placed(k, r, line, col)
  PROVE  line \in Nat /\ col \in Nat /\ LineLength * line + col \in 0 .. LineLength * (Rows + 2)
<1>1. \/ line = Rows + 2 /\ col = 0
      \/ line \in 0 .. Rows + 1 /\ col \in 0 .. Width + 1
  <2>1. CASE InMain(k, r, line) /\ col = 0
    BY <2>1, SizesOfBox DEF InMain
  <2>2. \A c : Drawing(c, r, line, col) => line \in 0 .. Rows + 1 /\ col \in 0 .. Width + 1
    BY SizesOfBox DEF Drawing, InTop, InMiddle
  <2> QED
    BY <2>1, <2>2 DEF Placed, InPutChar
<1> DEFINE n == LineLength
<1>2. n \in Nat /\ n = Width + 1 /\ line \in Nat /\ col \in Nat /\ Rows + 2 \in Nat
  BY <1>1, SizesOfBox DEF LineLength
<1> HIDE DEF n
<1>3. \A a, b \in Nat : a * b \in Nat
  OBVIOUS
<1>4. n * line \in Nat /\ n * (Rows + 2) \in Nat
  BY <1>2, <1>3
<1>5. CASE line = Rows + 2 /\ col = 0
  BY <1>2, <1>4, <1>5 DEF n
<1>6. CASE line \in 0 .. Rows + 1 /\ col \in 0 .. Width + 1
  <2>1. Rows + 1 - line \in Nat
    BY <1>6, SizesOfBox
  <2>2. n * (Rows + 1 - line) \in Nat
    BY <1>2, <1>3, <2>1
  <2>3. n * (Rows + 2) = n * line + n * (Rows + 1 - line) + n
    BY <1>2, SizesOfBox
  <2>4. col <= n
    BY <1>2, <1>6, SizesOfBox
  <2>5. n * line + col \in 0 .. n * (Rows + 2)
    BY <1>2, <1>4, <2>2, <2>3, <2>4
  <2> QED
    BY <1>2, <2>5 DEF n
<1> QED
  BY <1>1, <1>5, <1>6

-------------------------------------------------------------------------------
(* The invariant: what has been sent is the box as far as the program is.      *)

Printed(n) == [i \in 1 .. n |-> Screen[i]]

HelloInv ==
    /\ rom \in Programs
    /\ \E k \in 0 .. 123, line \in Nat, col \in Nat :
          /\ DocPc = 4 * k
          /\ Located(k, WrittenRegs, line, col)
          /\ sent = Printed(LineLength * line + col)

\* The history variable sent does not restrict the pipeline.
LEMMA RunIsPipeline == RunSpec => RSpec
<1>1. RunInit => RInit
  BY DEF RunInit
<1>2. [RunNext]_runVars => [RNext]_allVars
  BY DEF RunNext, RunClock, RunReset, RNext, RClock, runVars
<1> QED
  BY <1>1, <1>2, PTL DEF RunSpec, RSpec

\* What a cycle appends to sent, as the transmitter sees it.
LEMMA SendsWhatLeaves ==
  ASSUME TypeOK, NEW enable \in Enables, NEW switch, NEW rx, RCycle(enable, switch, rx),
         Sends(enable)
  PROVE  sent' = IF Leaves THEN Append(sent, tx_byte') ELSE sent
<1>1. TxSend(UartStart(enable), exmem.write_data % ByteSize)
  BY DEF RCycle, Cycle
<1>2. CASE UartStart(enable)
  <2>1. ~tx_busy /\ tx_busy' = TRUE /\ tx_byte' = exmem.write_data % ByteSize
    BY <1>1, <1>2 DEF TxSend, UartStart
  <2> QED
    BY <1>2, <2>1 DEF Sends, Leaves
<1>3. CASE ~UartStart(enable)
  <2>1. tx_busy' \in {tx_busy, FALSE}
    BY <1>1, <1>3 DEF TxSend
  <2>2. tx_busy \in BOOLEAN
    BY DEF TypeOK, PortsTypeOK
  <2>3. ~Leaves
    BY <2>1, <2>2 DEF Leaves
  <2> QED
    BY <1>3, <2>3 DEF Sends
<1> QED
  BY <1>2, <1>3

\* One character more.
LEMMA PrintedNext ==
  ASSUME NEW n \in Nat
  PROVE  Append(Printed(n), Screen[n + 1]) = Printed(n + 1)
<1>1. Printed(n) \in Seq({Screen[i] : i \in 1 .. n}) /\ Len(Printed(n)) = n
  BY DEF Printed
<1> QED
  BY <1>1 DEF Printed

\* The invariant holds at the start, is kept by a cycle and by a reset.
LEMMA InitHello == RunInit => HelloInv
<1> SUFFICES ASSUME RunInit PROVE HelloInv
  OBVIOUS
<1>1. rom \in Programs /\ sent = <<>>
  BY DEF RunInit, RInit, Init
<1>2. DocPc = 4 * 0
  BY DEF RunInit, RInit, Init, GhostInit, DocPc, OldestTag, Window
<1>3. Located(0, WrittenRegs, 0, 0)
  BY DEF Located, Placed, InMain
<1>4. Printed(LineLength * 0 + 0) = <<>>
  <2>1. LineLength * 0 + 0 = 0
    BY SizesOfBox DEF LineLength
  <2> QED
    BY <2>1 DEF Printed
<1> QED
  BY <1>1, <1>2, <1>3, <1>4 DEF HelloInv

LEMMA StepHello ==
  ASSUME TypeOK, InterlockInv, RefInv, SlotInv, HelloInv,
         NEW enable \in Enables, NEW switch \in SwitchValues, NEW rx \in Rx,
         RCycle(enable, switch, rx), Sends(enable)
  PROVE  HelloInv'
<1>1. PICK k \in 0 .. 123, line \in Nat, col \in Nat :
         /\ DocPc = 4 * k
         /\ Located(k, WrittenRegs, line, col)
         /\ sent = Printed(LineLength * line + col)
  BY DEF HelloInv
<1>2. sent' = IF Leaves THEN Append(sent, tx_byte') ELSE sent
  BY SendsWhatLeaves
<1>3. rom \in Programs /\ rom' = rom
  BY DEF HelloInv, RCycle, Cycle
<1>4. CASE DocMachine!Environment(rx) /\ UNCHANGED DocPc
  <2>1. WrittenRegs' = WrittenRegs /\ ~Leaves
    BY <1>4 DEF DocMachine!Environment, DocMachine!TxSend, Leaves
  <2> QED
    BY <1>1, <1>2, <1>3, <1>4, <2>1 DEF HelloInv
<1>5. CASE DocMachine!Step(switch, rx)
  <2>1. Listing(rom) /\ Ready(k, WrittenRegs)
    BY <1>1, <1>3, ImageListed, LocatedReady
  <2>2. /\ \E k2 \in 0 .. 123 : DocPc' = 4 * k2 /\ Walk(k, WrittenRegs, k2, WrittenRegs')
        /\ Leaves <=> k = 118
        /\ Leaves => tx_byte' = WrittenRegs[7] % ByteSize
    BY <1>1, <1>5, <2>1, Walks
  <2>3. PICK k2 \in 0 .. 123 : DocPc' = 4 * k2 /\ Walk(k, WrittenRegs, k2, WrittenRegs')
    BY <2>2
  <2>4. WalkTable(k, WrittenRegs, k2, WrittenRegs')
    BY <2>3, WritebackType, WalkFrom
  <2>5. k2 >= 3 => WrittenRegs'[5] = MmioBase
    BY <1>1, <2>4, AddressStays DEF Located
  <2> DEFINE n == LineLength * line + col
  <2>6. n \in Nat /\ LineLength \in Nat /\ LineLength = Width + 1
    BY <1>1, LocatedCount, SizesOfBox DEF Located, LineLength
  <2>7. CASE k # 118
    <3>1. sent' = sent
      BY <1>2, <2>2, <2>7
    <3>2. \/ Placed(k2, WrittenRegs', line, col)
          \/ col = Width + 1 /\ Placed(k2, WrittenRegs', line + 1, 0)
      <4>1. CASE InMain(k, WrittenRegs, line) /\ col = 0
        BY <2>4, <4>1, MainAdvances
      <4>2. CASE InTop(k, WrittenRegs, line, col)
        BY <2>4, <4>2, TopAdvances
      <4>3. CASE InMiddle(k, WrittenRegs, line, col)
        BY <2>4, <4>3, MiddleAdvances
      <4>4. CASE InPutChar(k, WrittenRegs, line, col)
        BY <2>4, <2>7, <4>4, PutCharAdvances
      <4> QED
        BY <1>1, <4>1, <4>2, <4>3, <4>4 DEF Located, Placed, Drawing
    <3>3. CASE Placed(k2, WrittenRegs', line, col)
      BY <1>1, <1>3, <2>3, <2>5, <3>1, <3>3 DEF HelloInv, Located
    <3>4. CASE col = Width + 1 /\ Placed(k2, WrittenRegs', line + 1, 0)
      <4>1. LineLength * (line + 1) + 0 = LineLength * line + col
        BY <2>6, <3>4
      <4>2. Located(k2, WrittenRegs', line + 1, 0)
        BY <2>5, <3>4 DEF Located
      <4>3. line + 1 \in Nat /\ 0 \in Nat /\ sent' = Printed(LineLength * (line + 1) + 0)
        BY <1>1, <3>1, <4>1
      <4> QED
        BY <1>3, <2>3, <4>2, <4>3 DEF HelloInv
    <3> QED
      BY <3>2, <3>3, <3>4
  <2>8. CASE k = 118
    <3>1. InPutChar(118, WrittenRegs, line, col)
      BY <1>1, <2>8 DEF Located, Placed, InMain, Drawing, InTop, InMiddle
    <3>2. /\ line \in 0 .. Rows + 1 /\ col \in 0 .. Width
          /\ WrittenRegs[7] % ByteSize = Row(IF line \in 1 .. Rows THEN SPACE ELSE HASH)[col + 1]
      BY <3>1, NextCharacter
    <3>3. tx_byte' = Screen[n + 1]
      BY <2>2, <2>8, <3>2, ScreenCharacters
    <3>4. sent' = Printed(n + 1)
      BY <1>1, <1>2, <2>2, <2>6, <2>8, <3>3, PrintedNext
    <3>5. Placed(k2, WrittenRegs', line, col + 1)
      BY <2>4, <2>8, <3>1, PutCharAdvances
    <3>6. col + 1 \in Nat /\ LineLength * line + (col + 1) = n + 1
      BY <2>6
    <3>7. Located(k2, WrittenRegs', line, col + 1)
      BY <2>5, <3>5 DEF Located
    <3> QED
      BY <1>3, <2>3, <3>4, <3>6, <3>7 DEF HelloInv
  <2> QED
    BY <2>7, <2>8
<1> QED
  BY <1>4, <1>5, CycleDoc DEF DocCycle

LEMMA ResetHello ==
  ASSUME TypeOK, RefInv, SlotInv, HelloInv, NEW enable \in Enables, Reset(enable), GhostReset,
         sent' = <<>>
  PROVE  HelloInv'
<1>1. rom' = rom /\ rom \in Programs
  BY DEF Reset, HelloInv
<1>2. DocPc' = 4 * 0
  BY ResetSlot DEF DocPc
<1>3. Located(0, WrittenRegs', 0, 0)
  BY DEF Located, Placed, InMain
<1>4. Printed(LineLength * 0 + 0) = <<>>
  <2>1. LineLength * 0 + 0 = 0
    BY SizesOfBox DEF LineLength
  <2> QED
    BY <2>1 DEF Printed
<1> QED
  BY <1>1, <1>2, <1>3, <1>4 DEF HelloInv

\* Every step of the run keeps the invariant.
LEMMA NextHello ==
  TypeOK /\ InterlockInv /\ RefInv /\ SlotInv /\ HelloInv /\ [RunNext]_runVars => HelloInv'
<1> SUFFICES ASSUME TypeOK, InterlockInv, RefInv, SlotInv, HelloInv, [RunNext]_runVars
             PROVE  HelloInv'
  OBVIOUS
<1>1. CASE RunClock
  BY <1>1, StepHello DEF RunClock
<1>2. CASE RunReset
  BY <1>2, ResetHello DEF RunReset, RPressReset
<1>3. CASE UNCHANGED runVars
  <2>1. UNCHANGED <<allVars, sent>>
    BY <1>3 DEF runVars
  <2>2. DocPc' = DocPc /\ WrittenRegs' = WrittenRegs /\ rom' = rom
    BY <2>1, StutterWindow DEF DocPc, OldestTag, allVars, vars, ghosts
  <2> QED
    BY <2>1, <2>2 DEF HelloInv
<1> QED
  BY <1>1, <1>2, <1>3 DEF RunNext

\* A beginning of the box is what the invariant says was sent.
LEMMA HelloPrints == HelloInv => PrintsTheScreen
<1> SUFFICES ASSUME HelloInv PROVE PrintsTheScreen
  OBVIOUS
<1>1. PICK k \in 0 .. 123, line \in Nat, col \in Nat :
         /\ Located(k, WrittenRegs, line, col)
         /\ sent = Printed(LineLength * line + col)
  BY DEF HelloInv
<1> DEFINE n == LineLength * line + col
           m == LineLength * (Rows + 2)
<1>2. n \in 0 .. m /\ m \in Nat
  <2>1. LineLength * line + col \in 0 .. LineLength * (Rows + 2)
    BY <1>1, LocatedCount DEF Located
  <2>2. LineLength * (Rows + 2) \in Nat
    BY SizesOfBox DEF LineLength
  <2> QED
    BY <2>1, <2>2
<1>3. sent = [i \in 1 .. n |-> Screen[i]]
  BY <1>1 DEF Printed
<1> HIDE DEF n
<1>4. Len(sent) = n /\ \A i \in 1 .. n : sent[i] = Screen[i]
  BY <1>2, <1>3
<1>5. Len(Screen) = m
  BY <1>2 DEF Screen
<1> HIDE DEF m
<1>6. SubSeq(sent, 1, n) = SubSeq(Screen, 1, n)
  BY <1>2, <1>4, <1>5
<1> QED
  BY <1>2, <1>4, <1>5, <1>6 DEF PrintsTheScreen, IsPrefix

LEMMA HelloInvariant == RunSpec => []HelloInv
  BY InitHello, NextHello, RunIsPipeline, ImageWellWritten, HelloAssumption, SlotsAreEmpty,
     RefInvariant, HistoryHidden, TypeCorrect, InterlockCorrect, PTL DEF RunSpec, RomDivides

\* The program that hello_world.py writes prints its box: whatever the transmitter's
\* pace, and after any reset, the bytes sent are a beginning of the box, of any width
\* and number of rows that fit a word.
THEOREM HelloPrintsTheScreen == RunSpec => []PrintsTheScreen
  BY HelloInvariant, HelloPrints, PTL

\* cpu_top.sv runs the program of hello_world.py as RV32I does, although it executes
\* the slot behind a jump: the script leaves that slot empty.
THEOREM HelloImplementsRV32I == RunSpec => ImplementsRV32I
  BY RunIsPipeline, ImageWellWritten, HelloAssumption, PipelineImplementsRV32I DEF RomDivides
================================================================================
