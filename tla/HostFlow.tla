-------------------------------- MODULE HostFlow -------------------------------
(* The scripts around a simulation. generate_hex.py draws a program and writes *)
(* it with a log; parse_asm_log.py reads the log back. run_reference.py runs a *)
(* program on the reference model while the hardware runs it; the simulator's  *)
(* register records are read by parse_regs.py, and scoreboard.py compares.     *)
(* scoreboard.py imports the two under names they do not have, and reads the   *)
(* registers as the result of a call: it is modelled with those mended, as     *)
(* decoder.py is.                                                              *)
EXTENDS Toolchain, ReferenceModel, FiniteSetsExt

CONSTANTS
    Draws,          \* what one turn of generate_hex.py's loop may draw
    TurnsOfLoop,    \* NUM_INSTRUCTIONS: 100
    Programs        \* programs for the reference model, sequences of words

ASSUME ProgramsAssumption == Programs \subseteq Seq(Word32)

\* The bounds of generate_hex.py's random.randint, in bits.
ASSUME DrawsAssumption ==
    /\ Draws \subseteq [choice: 0 .. 12, rd: Unsigned(5), rs1: Unsigned(5), rs2: Unsigned(5),
                       imm12: SignedBits(12), branch_imm: Offsets(13)]
    /\ TurnsOfLoop \in Nat \ {0}

VARIABLES
    drawn,      \* generate_hex.py: the last draw, and how many there were
    asmLog,     \* the lines of program.asm
    hw,         \* the registers of the hardware that runs the same program
    simLog,     \* the simulator's REG records: <<register, word>>
    exact       \* history: no instruction the reference model is known to get wrong

flowVars == <<vars, refVars, drawn, asmLog, hw, simLog, exact>>
simVars == <<hw, simLog, exact>>
genVars == <<drawn, asmLog>>
-------------------------------------------------------------------------------
(* generate_hex.py. The choice of an instruction is after the loop, so that it *)
(* sees the last draw only.                                                    *)
Functions0to12 == <<"addi", "add", "sub", "and_", "or_", "xor_", "slt", "sltu", "sll", "srl",
                    "lw", "sw", "beq">>
CallOf(d) ==
    [f |-> Functions0to12[d.choice + 1], rd |-> d.rd, rs1 |-> d.rs1, rs2 |-> d.rs2,
     imm |-> IF d.choice = 12 THEN d.branch_imm ELSE d.imm12]

\* The line of text: the operands as they are printed.
\* Faulty variant of TextOf: the store names its registers as a load does.
TextOfSwapped(d) ==
    LET f == CallOf(d).f
    IN  <<f>> \o (IF f = "addi" THEN <<d.rd, d.rs1, d.imm12>>
                  ELSE IF f = "lw" THEN <<d.rd, d.imm12, d.rs1>>
                  ELSE IF f = "sw" THEN <<d.rs1, d.imm12, d.rs2>>
                  ELSE IF f = "beq" THEN <<d.rs1, d.rs2, d.branch_imm>>
                  ELSE <<d.rd, d.rs1, d.rs2>>)
TextOf(d) ==
    LET f == CallOf(d).f
    IN  <<f>> \o (IF f = "addi" THEN <<d.rd, d.rs1, d.imm12>>
                  ELSE IF f = "lw" THEN <<d.rd, d.imm12, d.rs1>>
                  ELSE IF f = "sw" THEN <<d.rs2, d.imm12, d.rs1>>
                  ELSE IF f = "beq" THEN <<d.rs1, d.rs2, d.branch_imm>>
                  ELSE <<d.rd, d.rs1, d.rs2>>)

Draw ==
    /\ tool = "generate_hex" /\ drawn.count < TurnsOfLoop
    /\ \E d \in Draws : drawn' = [count |-> drawn.count + 1, last |-> d]
    /\ UNCHANGED <<vars, refVars, asmLog, simVars>>

\* add_instr, and the two files.
AddInstr ==
    /\ tool = "generate_hex" /\ drawn.count = TurnsOfLoop /\ words = <<>>
    /\ words' = Append(words, Script(CallOf(drawn.last)))
    /\ asmLog' = Append(asmLog, [index |-> Len(words), pc |-> 4 * Len(words),
                                 text |-> TextOf(drawn.last)])
    /\ UNCHANGED <<input, tool, refVars, drawn, simVars>>

\* parse_asm_log.py: a dictionary from the values of a column to the texts; the
\* last line with a value wins.
Column(lines, c) == {lines[k][c] : k \in DOMAIN lines}
ToAsm(lines, c) ==
    [v \in Column(lines, c) |->
        lines[CHOOSE k \in DOMAIN lines :
                 lines[k][c] = v /\ \A l \in k + 1 .. Len(lines) : lines[l][c] # v].text]
index_to_asm == ToAsm(asmLog, "index")
pc_to_asm == ToAsm(asmLog, "pc")
-------------------------------------------------------------------------------
(* The hardware beside the reference model: the registers after each           *)
(* arithmetic instruction of instr_decoder.sv and ALU.sv, WordBits wide.       *)
WordBit(op, a, b) ==
    LET A == OneBits(a, WordBits)
        B == OneBits(b, WordBits)
        n == b % 32
    IN  Number(
          IF op = "AND" THEN A \cap B
          ELSE IF op = "OR" THEN A \cup B
          ELSE IF op = "XOR" THEN (A \ B) \cup (B \ A)
          ELSE {k \in 0 .. WordBits - 1 :
                  IF op = "SLL" THEN k - n \in A
                  ELSE k + n \in A \/ (op = "SRA" /\ k + n >= WordBits /\ WordBits - 1 \in A)},
          WordBits)
Alu == INSTANCE CpuTypes WITH WordSize <- 2^WordBits, BitResult <- WordBit

HwValue(w) ==
    LET c == HW!decode(w)
    IN  Alu!AluResult(c.alu_control, hw[NumberOf(c.rs1)],
                      IF c.alu_src THEN Masked(IntOf(c.imm)) ELSE hw[NumberOf(c.rs2)])

\* A record of the simulation log for every register that is written.
Simulate(w) ==
    LET c == HW!decode(w)
        n == NumberOf(c.rd)
    IN  IF OpcodeOf(w) \in {"OP", "OP_IMM"} /\ n # 0
        THEN /\ hw' = [hw EXCEPT ![n] = HwValue(w)]
             /\ simLog' = Append(simLog, <<n, hw'[n]>>)
        ELSE UNCHANGED <<hw, simLog>>

\* What the reference model leaves out or computes without a width: shifts are
\* passed over, SLT compares what does not fit a word.
InWord(n) == n \in -(2^(WordBits - 1)) .. 2^(WordBits - 1) - 1
Exact(d) ==
    /\ d.type = "R" => HasBranch(d) /\ (d.funct3 = F010 => InWord(a1(d)) /\ InWord(b1(d)))
    /\ d.type = "I" => d.funct3 \notin Shifts

ReferenceTurn ==
    /\ tool = "run_reference"
    /\ Turn
    /\ IF pc' = pc THEN UNCHANGED simVars
       ELSE Simulate(instructions[pc \div 4 + 1]) /\ exact' = (exact /\ Exact(Current))
    /\ UNCHANGED <<vars, genVars>>
ReferenceEnds ==
    tool = "run_reference" /\ LeaveLoop /\ UNCHANGED <<vars, genVars, simVars>>

\* parse_regs.py: registers start at zero and the last record of each wins.
\* check_regs.py has the same loop, and prints the result.
\* Faulty variant of ParseRegs: the first record wins.
ParseRegsFirst(log) ==
    [r \in RegIndex |->
        LET mine == {k \in DOMAIN log : log[k][1] = r}
        IN  IF mine = {} THEN 0 ELSE log[Min(mine)][2]]
ParseRegs(log) ==
    [r \in RegIndex |->
        LET mine == {k \in DOMAIN log : log[k][1] = r}
        IN  IF mine = {} THEN 0 ELSE log[Max(mine)][2]]

\* scoreboard.py: the registers it reports, "SCOREBOARD PASSED" if there are none.
Mismatches(hwRegs, refRegs) == {r \in RegIndex : hwRegs[r] # refRegs[r]}
-------------------------------------------------------------------------------
FlowInit ==
    /\ drawn = [count |-> 0, last |-> CHOOSE d \in Draws : TRUE] /\ asmLog = <<>>
    /\ hw = [r \in RegIndex |-> 0] /\ simLog = <<>> /\ exact = TRUE
    /\ \/ Init /\ RefInit(<<>>, "idle")
       \/ tool = "generate_hex" /\ input = <<>> /\ words = <<>> /\ RefInit(<<>>, "idle")
       \/ /\ tool = "run_reference" /\ words = <<>>
          /\ input \in Programs /\ RefInit(input, "running")
FlowNext ==
    \/ Next /\ UNCHANGED <<refVars, genVars, simVars>>
    \/ Draw \/ AddInstr
    \/ ReferenceTurn \/ ReferenceEnds
FlowSpec == FlowInit /\ [][FlowNext]_flowVars

\* The loop of run_reference.py goes on.
FlowFairSpec == FlowSpec /\ WF_refVars(Turn \/ LeaveLoop)
-------------------------------------------------------------------------------
(* Properties.                                                                 *)

\* The text that decoder.py would give a word.
Disassembly(w) ==
    LET d == PY!decode(w)
        i == FieldsOf(w)
        f == CHOOSE g \in DOMAIN Operation : Operation[g] = <<i.opcode, i.funct>>
    IN  IF f = "lw" THEN <<f, d.rd, d.imm, d.rs1>>
        ELSE IF f = "sw" THEN <<f, d.rs2, d.imm, d.rs1>>
        ELSE IF f = "beq" THEN <<f, d.rs1, d.rs2, d.imm>>
        ELSE IF f = "addi" THEN <<f, d.rd, d.rs1, d.imm>>
        ELSE <<f, d.rd, d.rs1, d.rs2>>

\* program.asm, read back by parse_asm_log, names for every index and address of
\* program.hex the instruction that stands there.
LogNamesWords ==
    tool = "generate_hex" =>
        /\ Len(asmLog) = Len(words)
        /\ \A k \in 1 .. Len(words) :
              /\ index_to_asm[k - 1] = Disassembly(words[k])
              /\ pc_to_asm[4 * (k - 1)] = Disassembly(words[k])

\* Although its integers have no width, the reference model agrees with the
\* hardware in every bit that a word keeps, until it meets a shift or an SLT of
\* a value that has outgrown the word.
ReferenceFollowsHardware ==
    tool = "run_reference" /\ exact => \A r \in RegIndex : Masked(regs[r]) = hw[r]

\* On a correct processor the scoreboard reports exactly the registers whose
\* reference value lies outside 0 .. 2^32 - 1, negative ones above all: the
\* comparison does not mask what the reference model has left unmasked.
FalseAlarms ==
    tool = "run_reference" /\ refState = "done" /\ exact =>
        Mismatches(ParseRegs(simLog), regs) = {r \in RegIndex : regs[r] \notin WordValues}

\* run_reference ends, by itself or by an exception, unless it meets a load, a
\* JALR or a branch other than BEQ and BNE, which it repeats for ever.
EndsOrSpins == <>(refState # "running" \/ Spins)
================================================================================
