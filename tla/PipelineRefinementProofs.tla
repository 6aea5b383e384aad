------------------------ MODULE PipelineRefinementProofs ------------------------
(* The pipeline implements the instruction set SlotIsa, for every program,     *)
(* word size, register count, memory size and input.                           *)
EXTENDS PipelineRefinement, CpuPipelineProofs

-------------------------------------------------------------------------------
(* What the pipeline registers hold, in the terms of the program. The          *)
(* instruction in MEM has been executed with the register values that the      *)
(* instruction in WB leaves; the one in EX has latched its operands, but for   *)
(* what WB and MEM are about to write.                                         *)

InstrIn(a) == rom[WordIndex(a, RomWords)]
AtMem == Minus(exmem.pc_plus4, 4)
InMem == InstrIn(AtMem)

TagsOK ==
    /\ tag \in [id: Tag, ex: Tag, mem: Tag]
    /\ memNext \in Word \X Word
    /\ tag.id = "bubble" => tag.ex = "bubble" /\ tag.mem = "bubble"

\* A bubble writes no register, stores nothing, loads nothing and does not branch.
BubblesIdle ==
    /\ tag.id = "bubble" => ifid.instr = Nop
    /\ tag.ex = "bubble" => /\ idex.ctl.rd = 0
                            /\ ~idex.ctl.mem_read /\ ~idex.ctl.mem_write
                            /\ ~idex.ctl.jump /\ ~idex.ctl.jalr
                            /\ ~idex.ctl.branch_eq /\ ~idex.ctl.branch_ne
    /\ tag.mem = "bubble" => exmem.rd = 0 /\ ~exmem.mem_read /\ ~exmem.mem_write

\* Each stage holds the instruction of the program at its own address.
Decoded ==
    /\ tag.id # "bubble" => ifid.instr = InstrIn(ifid.pc)
    /\ tag.ex # "bubble" => idex.ctl = Decode(InstrIn(idex.pc))

\* The latched value of register r, corrected by what WB writes this cycle.
Settled(r, latched) ==
    IF memwb.reg_write /\ memwb.rd # 0 /\ memwb.rd = r THEN WritebackData ELSE latched

OperandsSettled ==
    /\ Settled(idex.ctl.rs1, idex.rs1_data) = ReadReg(idex.ctl.rs1)
    /\ Settled(idex.ctl.rs2, idex.rs2_data) = ReadReg(idex.ctl.rs2)

\* EX/MEM is the outcome of instruction i on the registers as WB leaves them.
SecondOperand(i) == IF Decode(i).alu_src THEN Decode(i).imm ELSE ReadReg(i.rs2)
ExecutedAs(i) ==
    /\ exmem.alu_result = AluResult(AluControl(i), ReadReg(i.rs1), SecondOperand(i))
    /\ exmem.write_data = ReadReg(i.rs2)
    /\ exmem.rd = i.rd
    /\ exmem.reg_write = Decode(i).reg_write
    /\ exmem.mem_read = Decode(i).mem_read
    /\ exmem.mem_write = Decode(i).mem_write
    /\ exmem.mem_to_reg = Decode(i).mem_to_reg
    /\ exmem.jal_to_reg = Decode(i).jal_to_reg

Executed == tag.mem # "bubble" => ExecutedAs(InMem)

\* What follows the instruction in MEM: the two addresses that were behind it,
\* or, when it is a taken transfer, the slot and then its target.
Followed ==
    tag.mem # "bubble" =>
        IF SlotMachine!Taken(InMem)
        THEN /\ tag.ex = "bubble"
             /\ ifid.pc = memNext[2]
             /\ pc = SlotMachine!Target(InMem, AtMem)
        ELSE IF tag.ex = "bubble" THEN memNext = <<ifid.pc, pc>>
        ELSE memNext = <<idex.pc, ifid.pc>> /\ pc = Plus(ifid.pc, 4)

RefInv == TagsOK /\ BubblesIdle /\ Decoded /\ OperandsSettled /\ Executed /\ Followed

-------------------------------------------------------------------------------
(* Arithmetic of addresses and comparisons.                                    *)

LEMMA FourIsWord == 4 \in Word /\ 8 \in Word /\ 4 % WordSize = 4 /\ 8 % WordSize = 8
  BY SizeAssumption DEF Word

LEMMA PlusMinusFour ==
  ASSUME NEW a \in Word
  PROVE  Minus(Plus(a, 4), 4) = a /\ Plus(Minus(a, 4), 4) = a
<1>1. WordSize \in Nat /\ WordSize >= 32 /\ a \in Int /\ 0 <= a /\ a < WordSize
  BY SizeAssumption DEF Word
<1>2. Minus(Plus(a, 4), 4) = a
  <2>1. CASE a + 4 < WordSize
    <3>1. (a + 4) % WordSize = a + 4
      BY <1>1, <2>1
    <3>2. a % WordSize = a
      BY <1>1
    <3> QED
      BY <1>1, <3>1, <3>2 DEF Plus, Minus
  <2>2. CASE a + 4 >= WordSize
    <3>1. (a + 4) % WordSize = a + 4 - WordSize
      BY <1>1, <2>2
    <3>2. (a - WordSize) % WordSize = a
      BY <1>1
    <3>3. (a + 4 - WordSize) - 4 = a - WordSize
      BY <1>1
    <3> QED
      BY <3>1, <3>2, <3>3 DEF Plus, Minus
  <2> QED
    BY <1>1, <2>1, <2>2
<1>3. Plus(Minus(a, 4), 4) = a
  <2>1. CASE a >= 4
    <3>1. (a - 4) % WordSize = a - 4
      BY <1>1, <2>1
    <3>2. a % WordSize = a
      BY <1>1
    <3> QED
      BY <1>1, <3>1, <3>2 DEF Plus, Minus
  <2>2. CASE a < 4
    <3>1. (a - 4) % WordSize = a - 4 + WordSize
      BY <1>1, <2>2
    <3>2. (a + WordSize) % WordSize = a
      BY <1>1
    <3>3. (a - 4 + WordSize) + 4 = a + WordSize
      BY <1>1
    <3> QED
      BY <3>1, <3>2, <3>3 DEF Plus, Minus
  <2> QED
    BY <1>1, <2>1, <2>2
<1> QED
  BY <1>2, <1>3

LEMMA PlusFourTwice ==
  ASSUME NEW a \in Word
  PROVE  Plus(Plus(a, 4), 4) = Plus(a, 8)
<1>1. WordSize \in Nat /\ WordSize >= 32 /\ a \in Int /\ 0 <= a /\ a < WordSize
  BY SizeAssumption DEF Word
<1>2. CASE a + 4 < WordSize
  <2>1. (a + 4) % WordSize = a + 4
    BY <1>1, <1>2
  <2>2. (a + 4) + 4 = a + 8
    BY <1>1
  <2> QED
    BY <2>1, <2>2 DEF Plus
<1>3. CASE a + 4 >= WordSize
  <2>1. (a + 4) % WordSize = a + 4 - WordSize
    BY <1>1, <1>3
  <2>2. (a + 8 - WordSize) % WordSize = a + 8 - WordSize
    BY <1>1, <1>3
  <2>3. (a + 8) % WordSize = a + 8 - WordSize
    BY <1>1, <1>3
  <2>4. (a + 4 - WordSize) + 4 = a + 8 - WordSize
    BY <1>1
  <2> QED
    BY <2>1, <2>2, <2>3, <2>4 DEF Plus
<1> QED
  BY <1>1, <1>2, <1>3

\* The ALU's "less" and "greater" flags are both clear exactly on equal words.
LEMMA EqualByComparison ==
  ASSUME NEW a \in Word, NEW b \in Word
  PROVE  (~Less(a, b) /\ ~More(a, b)) <=> a = b
<1>1. a \in Int /\ b \in Int /\ WordSize \in Nat /\ MmioBase \in Int
      /\ 0 <= a /\ a < WordSize /\ 0 <= b /\ b < WordSize
  BY SizeAssumption DEF Word, MmioBase
<1> QED
  BY <1>1 DEF Less, More, Signed

-------------------------------------------------------------------------------
(* The pipeline's own invariants hold of it with the history variables.        *)

LEMMA HistoryHidden == RSpec => Spec
<1>1. RInit => Init
  BY DEF RInit
<1>2. [RNext]_allVars => [Next]_vars
  BY DEF RNext, RClock, RCycle, RPressReset, Next, Clock, PressReset, allVars
<1> QED
  BY <1>1, <1>2, PTL DEF RSpec, Spec

-------------------------------------------------------------------------------
(* Typing of the new operators.                                                *)

LEMMA InstrInType ==
  ASSUME TypeOK, NEW a \in Word
  PROVE  InstrIn(a) \in Instr
<1>1. WordIndex(a, RomWords) \in RomWord
  BY WordIndexType, SizeAssumption DEF RomWord
<1> QED
  BY <1>1 DEF TypeOK, InstrIn

LEMMA AtMemType == ASSUME TypeOK PROVE AtMem \in Word /\ InMem \in Instr
<1>1. exmem.pc_plus4 \in Word
  BY DEF TypeOK, ExMemType
<1>2. AtMem \in Word
  BY <1>1, FourIsWord, MinusType DEF AtMem
<1> QED
  BY <1>2, InstrInType DEF InMem

LEMMA InstrFields ==
  ASSUME NEW i \in Instr
  PROVE  /\ i.opcode \in Opcode /\ i.funct \in Funct
         /\ i.rd \in Reg /\ i.rs1 \in Reg /\ i.rs2 \in Reg /\ i.imm \in Word
  BY DEF Instr

LEMMA DecodeFields ==
  ASSUME NEW i \in Instr
  PROVE  /\ Decode(i).rd = i.rd /\ Decode(i).rs1 = i.rs1 /\ Decode(i).rs2 = i.rs2
         /\ Decode(i).alu_control = AluControl(i)
         /\ Decode(i).imm = IF i.opcode \in {"OP", "UNKNOWN"} THEN 0 ELSE i.imm
         /\ Decode(i).reg_write <=> i.opcode \in {"OP", "OP_IMM", "LOAD", "JAL", "JALR", "LUI"}
         /\ Decode(i).alu_src <=> i.opcode \in {"OP_IMM", "LOAD", "STORE", "JALR", "LUI"}
         /\ Decode(i).mem_read <=> i.opcode = "LOAD"
         /\ Decode(i).mem_write <=> i.opcode = "STORE"
         /\ Decode(i).mem_to_reg <=> i.opcode = "LOAD"
         /\ Decode(i).jal_to_reg <=> i.opcode \in {"JAL", "JALR"}
         /\ Decode(i).jump <=> i.opcode = "JAL"
         /\ Decode(i).jalr <=> i.opcode = "JALR"
         /\ Decode(i).branch_eq <=> i.opcode = "BRANCH" /\ i.funct = "BEQ"
         /\ Decode(i).branch_ne <=> i.opcode = "BRANCH" /\ i.funct = "BNE"
  BY DEF Decode

LEMMA IdExFields ==
  ASSUME TypeOK
  PROVE  /\ idex.ctl.rs1 \in Reg /\ idex.ctl.rs2 \in Reg /\ idex.ctl.rd \in Reg
         /\ idex.pc \in Word /\ ifid.pc \in Word /\ pc \in Word
         /\ ifid.instr \in Instr /\ idex.ctl.imm \in Word
         /\ exmem.rd \in Reg /\ memwb.rd \in Reg
         /\ exmem.pc_plus4 \in Word /\ exmem.alu_result \in Word
         /\ exmem.write_data \in Word
  BY DEF TypeOK, IdExType, ExMemType, MemWbType, Control

-------------------------------------------------------------------------------
(* One cycle, seen from the register values. While the pipeline stands still   *)
(* the values stay; when it moves, forwarding hands EX exactly the values the  *)
(* registers have for the instruction that follows the one in MEM.             *)

LEMMA StillCycle ==
  ASSUME TypeOK, NEW enable, NEW sw, NEW rx, Cycle(enable, sw, rx), GlobalStall(enable)
  PROVE  /\ UNCHANGED <<pc, ifid, idex, exmem, memwb, rom>>
         /\ WrittenRegs' = WrittenRegs
         /\ \A r \in Reg : ReadReg(r)' = ReadReg(r)
<1>1. UNCHANGED <<pc, ifid, idex, exmem, memwb, rom>>
  BY DEF Cycle, Fetch, Issue, Execute, Memory
<1>2. regs' = WrittenRegs
  BY DEF Cycle
<1>3. WritebackData' = WritebackData
  BY <1>1 DEF WritebackData
<1>4. regs \in [Reg -> Word] /\ memwb.rd \in Reg
  BY DEF TypeOK, MemWbType
<1>5. WrittenRegs' = WrittenRegs
  BY <1>1, <1>2, <1>3, <1>4 DEF WrittenRegs
<1>6. ASSUME NEW r \in Reg PROVE ReadReg(r)' = ReadReg(r)
  BY <1>5 DEF ReadReg
<1> QED
  BY <1>1, <1>5, <1>6

\* The register values once the instruction in MEM has completed.
LEMMA MovedRegs ==
  ASSUME TypeOK, NEW enable, NEW sw \in SwitchValues, NEW rx, Cycle(enable, sw, rx),
         ~GlobalStall(enable)
  PROVE  LET value == IF exmem.jal_to_reg THEN exmem.pc_plus4
                      ELSE IF exmem.mem_to_reg THEN MemReadData(enable, sw)
                      ELSE exmem.alu_result
         IN  /\ WritebackData' = value
             /\ WrittenRegs' = IF exmem.reg_write /\ exmem.rd # 0
                               THEN [WrittenRegs EXCEPT ![exmem.rd] = value]
                               ELSE WrittenRegs
<1>1. regs' = WrittenRegs
  BY DEF Cycle
<1>2. /\ memwb'.alu_result = exmem.alu_result
      /\ memwb'.read_data = MemReadData(enable, sw)
      /\ memwb'.pc_plus4 = exmem.pc_plus4
      /\ memwb'.rd = exmem.rd
      /\ memwb'.reg_write = exmem.reg_write
      /\ memwb'.mem_to_reg = exmem.mem_to_reg
      /\ memwb'.jal_to_reg = exmem.jal_to_reg
  BY DEF Cycle, Memory
<1> QED
  BY <1>1, <1>2 DEF WritebackData, WrittenRegs

LEMMA OperandIsNextValue ==
  ASSUME TypeOK, InterlockInv, NEW enable, NEW sw \in SwitchValues, NEW rx,
         Cycle(enable, sw, rx), ~GlobalStall(enable),
         NEW r \in {idex.ctl.rs1, idex.ctl.rs2}, NEW latched,
         Settled(r, latched) = ReadReg(r)
  PROVE  Operand(r, latched) = ReadReg(r)'
<1>1. r \in Reg /\ exmem.rd \in Reg /\ WrittenRegs \in [Reg -> Word]
  BY IdExFields, WritebackType
<1>2. CASE Forward(r) = "MEM"
  <2>1. exmem.reg_write /\ exmem.rd # 0 /\ exmem.rd = r
    BY <1>2 DEF Forward
  <2>2. ~exmem.mem_to_reg
    BY <2>1 DEF InterlockInv, LoadNotNamedBehind
  <2>3. ReadReg(r)' = WritebackData'
    BY <1>1, <2>1, MovedRegs DEF ReadReg
  <2> QED
    BY <1>2, <2>2, <2>3, MovedRegs DEF Operand, MemForwardData
<1>3. CASE Forward(r) # "MEM"
  <2>1. ~(exmem.reg_write /\ exmem.rd # 0 /\ exmem.rd = r)
    BY <1>3 DEF Forward
  <2>2. ReadReg(r)' = ReadReg(r)
    BY <1>1, <2>1, MovedRegs DEF ReadReg
  <2>3. Operand(r, latched) = Settled(r, latched)
    BY <2>1 DEF Operand, Settled, Forward
  <2> QED
    BY <2>2, <2>3
<1> QED
  BY <1>2, <1>3

-------------------------------------------------------------------------------
(* The operators of the instruction set, read in the pipeline.                 *)

LEMMA IsaInPipeline ==
  /\ \A r : SlotMachine!X(r) = ReadReg(r)
  /\ \A a : SlotMachine!InstrAt(a) = InstrIn(a)
  /\ \A a, b : SlotMachine!Plus(a, b) = Plus(a, b)
  /\ \A i : SlotMachine!DataAddr(i) = Plus(ReadReg(i.rs1), i.imm)
  /\ \A i : SlotMachine!Taken(i) <=>
        \/ i.opcode \in {"JAL", "JALR"}
        \/ i.opcode = "BRANCH" /\ i.funct = "BEQ" /\ ReadReg(i.rs1) = ReadReg(i.rs2)
        \/ i.opcode = "BRANCH" /\ i.funct = "BNE" /\ ReadReg(i.rs1) # ReadReg(i.rs2)
  /\ \A i, a : SlotMachine!Target(i, a) =
        IF i.opcode = "JALR" THEN EvenPart(Plus(ReadReg(i.rs1), i.imm)) ELSE Plus(a, i.imm)
<1>1. \A r : SlotMachine!X(r) = ReadReg(r)
  BY DEF SlotMachine!X, ReadReg
<1>2. \A a : SlotMachine!InstrAt(a) = InstrIn(a)
  BY DEF SlotMachine!InstrAt, SlotMachine!WordIndex, InstrIn, WordIndex
<1>3. \A a, b : SlotMachine!Plus(a, b) = Plus(a, b)
  BY DEF SlotMachine!Plus, Plus
<1>4. \A i : SlotMachine!DataAddr(i) = Plus(ReadReg(i.rs1), i.imm)
  BY <1>1, <1>3 DEF SlotMachine!DataAddr
<1>5. \A i : SlotMachine!Taken(i) <=>
        \/ i.opcode \in {"JAL", "JALR"}
        \/ i.opcode = "BRANCH" /\ i.funct = "BEQ" /\ ReadReg(i.rs1) = ReadReg(i.rs2)
        \/ i.opcode = "BRANCH" /\ i.funct = "BNE" /\ ReadReg(i.rs1) # ReadReg(i.rs2)
  BY <1>1 DEF SlotMachine!Taken
<1>6. \A a : SlotMachine!EvenPart(a) = EvenPart(a)
  BY DEF SlotMachine!EvenPart, EvenPart
<1>7. \A i, a : SlotMachine!Target(i, a) =
        IF i.opcode = "JALR" THEN EvenPart(Plus(ReadReg(i.rs1), i.imm)) ELSE Plus(a, i.imm)
  BY <1>3, <1>4, <1>6 DEF SlotMachine!Target
<1> QED
  BY <1>1, <1>2, <1>3, <1>4, <1>5, <1>7

-------------------------------------------------------------------------------
(* The invariant is kept.                                                      *)

\* The state a reset leaves, memories and ports aside.
Cleared ==
    /\ ifid = [instr |-> Nop, pc |-> 0]
    /\ idex = Bubble /\ exmem = ResetExMem /\ memwb = ResetMemWb
    /\ tag = [id |-> "bubble", ex |-> "bubble", mem |-> "bubble"]
    /\ memNext = <<0, 0>>

LEMMA ClearedRef == Cleared => RefInv
<1> SUFFICES ASSUME Cleared PROVE RefInv
  OBVIOUS
<1>1. tag.id = "bubble" /\ tag.ex = "bubble" /\ tag.mem = "bubble"
  BY DEF Cleared
<1>2. TagsOK
  BY <1>1, ConstantTypes DEF Cleared, TagsOK, Tag
<1>3. BubblesIdle
  BY <1>1 DEF Cleared, BubblesIdle, Bubble, NoControl, ResetExMem
<1>4. Decoded /\ Executed /\ Followed
  BY <1>1 DEF Decoded, Executed, Followed
<1>5. OperandsSettled
  <2>1. idex.ctl.rs1 = 0 /\ idex.ctl.rs2 = 0 /\ idex.rs1_data = 0 /\ idex.rs2_data = 0
    BY DEF Cleared, Bubble, NoControl
  <2> QED
    BY <2>1 DEF OperandsSettled, Settled, ReadReg
<1> QED
  BY <1>2, <1>3, <1>4, <1>5 DEF RefInv

LEMMA FrozenRef ==
  ASSUME RefInv, UNCHANGED <<pc, ifid, idex, exmem, memwb, rom, tag, memNext>>,
         WrittenRegs' = WrittenRegs
  PROVE  RefInv'
<1>1. /\ UNCHANGED <<pc, ifid, idex, exmem, memwb, rom>>
      /\ WrittenRegs' = WrittenRegs
      /\ UNCHANGED <<tag, memNext>>
  OBVIOUS
<1>2. TagsOK' /\ BubblesIdle'
  BY <1>1 DEF RefInv, TagsOK, BubblesIdle
<1>3. Decoded' /\ InMem' = InMem /\ AtMem' = AtMem
  BY <1>1 DEF RefInv, Decoded, InstrIn, InMem, AtMem
<1>4. \A r : ReadReg(r)' = ReadReg(r)
  BY <1>1 DEF ReadReg
<1>5. OperandsSettled'
  <2>1. WritebackData' = WritebackData
    BY <1>1 DEF WritebackData
  <2> QED
    BY <1>1, <1>4, <2>1 DEF RefInv, OperandsSettled, Settled
<1>6. Executed'
  BY <1>1, <1>3, <1>4 DEF RefInv, Executed, ExecutedAs, SecondOperand
<1>7. Followed'
  <2>1. SlotMachine!Taken(InMem)' <=> SlotMachine!Taken(InMem)
    BY <1>1, <1>3 DEF SlotMachine!Taken, SlotMachine!X
  <2>2. SlotMachine!Target(InMem, AtMem)' = SlotMachine!Target(InMem, AtMem)
    BY <1>1, <1>3 DEF SlotMachine!Target, SlotMachine!X, SlotMachine!DataAddr,
                      SlotMachine!Plus, SlotMachine!EvenPart
  <2> QED
    BY <1>1, <2>1, <2>2 DEF RefInv, Followed
<1> QED
  BY <1>2, <1>3, <1>5, <1>6, <1>7 DEF RefInv

LEMMA StillRef ==
  ASSUME TypeOK, RefInv, NEW enable, NEW sw, NEW rx, RCycle(enable, sw, rx),
         GlobalStall(enable)
  PROVE  RefInv'
<1>1. UNCHANGED <<tag, memNext>>
  BY DEF RCycle, GhostCycle, ghosts
<1> QED
  BY <1>1, StillCycle, FrozenRef DEF RCycle

\* A bubble in EX neither branches nor stalls the instruction behind it.
LEMMA BubbleLetsThrough ==
  ASSUME BubblesIdle, tag.ex = "bubble"
  PROVE  ~HazardStall /\ ~BranchTaken
  BY DEF BubblesIdle, HazardStall, BranchTaken

LEMMA MovedTags ==
  ASSUME RefInv, NEW enable, NEW sw, NEW rx, RCycle(enable, sw, rx), ~GlobalStall(enable)
  PROVE  /\ tag' = [mem |-> tag.ex,
                    ex  |-> IF HazardStall \/ BranchTaken THEN "bubble" ELSE tag.id,
                    id  |-> IF HazardStall THEN tag.id
                            ELSE IF BranchTaken THEN "slot" ELSE "instr"]
         /\ tag'.mem = tag.ex
         /\ tag'.ex = IF HazardStall \/ BranchTaken THEN "bubble" ELSE tag.id
         /\ tag'.id = IF HazardStall THEN tag.id
                      ELSE IF BranchTaken THEN "slot" ELSE "instr"
         /\ tag'.id # "bubble"
         /\ memNext' = <<ifid.pc, pc>>
<1>1. /\ tag' = [mem |-> tag.ex,
                 ex  |-> IF HazardStall \/ BranchTaken THEN "bubble" ELSE tag.id,
                 id  |-> IF HazardStall THEN tag.id
                         ELSE IF BranchTaken THEN "slot" ELSE "instr"]
      /\ memNext' = <<ifid.pc, pc>>
  BY DEF RCycle, GhostCycle
<1>2. tag.id = "bubble" => ~HazardStall
  BY BubbleLetsThrough DEF RefInv, TagsOK
<1> QED
  BY <1>1, <1>2

LEMMA MovedStages ==
  ASSUME TypeOK, NEW enable, NEW sw, NEW rx, Cycle(enable, sw, rx), ~GlobalStall(enable)
  PROVE  /\ rom' = rom
         /\ IF HazardStall THEN pc' = pc /\ ifid' = ifid
            ELSE /\ pc' = IF BranchTaken THEN BranchTarget ELSE Plus(pc, 4)
                 /\ ifid'.instr = InstrIn(pc) /\ ifid'.pc = pc
         /\ HazardStall \/ BranchTaken => idex' = Bubble
         /\ ~(HazardStall \/ BranchTaken)
              => /\ idex'.pc = ifid.pc /\ idex'.ctl = Decode(ifid.instr)
                 /\ idex'.rs1_data = ReadReg(ifid.instr.rs1)
                 /\ idex'.rs2_data = ReadReg(ifid.instr.rs2)
         /\ exmem'.alu_result = AluResult(idex.ctl.alu_control, OperandA, AluB)
         /\ exmem'.write_data = OperandB
         /\ exmem'.pc_plus4 = Plus(idex.pc, 4)
         /\ exmem'.rd = idex.ctl.rd
         /\ exmem'.reg_write = idex.ctl.reg_write
         /\ exmem'.mem_read = idex.ctl.mem_read
         /\ exmem'.mem_write = idex.ctl.mem_write
         /\ exmem'.mem_to_reg = idex.ctl.mem_to_reg
         /\ exmem'.jal_to_reg = idex.ctl.jal_to_reg
         /\ memwb'.rd = exmem.rd
         /\ memwb'.reg_write = exmem.reg_write
<1>1. rom' = rom
  BY DEF Cycle
<1>2. IF HazardStall THEN pc' = pc /\ ifid' = ifid
      ELSE /\ pc' = IF BranchTaken THEN BranchTarget ELSE Plus(pc, 4)
           /\ ifid'.instr = InstrIn(pc) /\ ifid'.pc = pc
  BY DEF Cycle, Fetch, InstrIn
<1>3. /\ HazardStall \/ BranchTaken => idex' = Bubble
      /\ ~(HazardStall \/ BranchTaken)
              => /\ idex'.pc = ifid.pc /\ idex'.ctl = Decode(ifid.instr)
                 /\ idex'.rs1_data = ReadReg(ifid.instr.rs1)
                 /\ idex'.rs2_data = ReadReg(ifid.instr.rs2)
  BY DEF Cycle, Issue
<1>4. /\ exmem'.alu_result = AluResult(idex.ctl.alu_control, OperandA, AluB)
      /\ exmem'.write_data = OperandB
      /\ exmem'.pc_plus4 = Plus(idex.pc, 4)
      /\ exmem'.rd = idex.ctl.rd
      /\ exmem'.reg_write = idex.ctl.reg_write
      /\ exmem'.mem_read = idex.ctl.mem_read
      /\ exmem'.mem_write = idex.ctl.mem_write
      /\ exmem'.mem_to_reg = idex.ctl.mem_to_reg
      /\ exmem'.jal_to_reg = idex.ctl.jal_to_reg
  BY DEF Cycle, Execute
<1>5. memwb'.rd = exmem.rd /\ memwb'.reg_write = exmem.reg_write
  BY DEF Cycle, Memory
<1> QED
  BY <1>1, <1>2, <1>3, <1>4, <1>5

\* The value every register has next, from what was latched and what MEM writes.
LEMMA SettledNext ==
  ASSUME TypeOK, NEW enable, NEW sw \in SwitchValues, NEW rx, Cycle(enable, sw, rx),
         ~GlobalStall(enable), NEW r \in Reg
  PROVE  ReadReg(r)' = IF memwb'.reg_write /\ memwb'.rd # 0 /\ memwb'.rd = r
                       THEN WritebackData' ELSE ReadReg(r)
<1>1. exmem.rd \in Reg /\ WrittenRegs \in [Reg -> Word]
  BY IdExFields, WritebackType
<1>2. memwb'.rd = exmem.rd /\ memwb'.reg_write = exmem.reg_write
  BY MovedStages
<1> QED
  BY <1>1, <1>2, MovedRegs DEF ReadReg

LEMMA MovedOperands ==
  ASSUME TypeOK, RefInv, NEW enable, NEW sw \in SwitchValues, NEW rx,
         RCycle(enable, sw, rx), ~GlobalStall(enable)
  PROVE  OperandsSettled'
<1>1. Cycle(enable, sw, rx)
  BY DEF RCycle
<1>2. CASE HazardStall \/ BranchTaken
  <2>1. idex' = Bubble
    BY <1>1, <1>2, MovedStages
  <2>2. idex'.ctl.rs1 = 0 /\ idex'.ctl.rs2 = 0 /\ idex'.rs1_data = 0 /\ idex'.rs2_data = 0
    BY <2>1 DEF Bubble, NoControl
  <2> QED
    BY <2>2 DEF OperandsSettled, Settled, ReadReg
<1>3. CASE ~(HazardStall \/ BranchTaken)
  <2>1. ifid.instr \in Instr /\ ifid.instr.rs1 \in Reg /\ ifid.instr.rs2 \in Reg
    BY IdExFields, InstrFields
  <2>2. /\ idex'.ctl.rs1 = ifid.instr.rs1 /\ idex'.rs1_data = ReadReg(ifid.instr.rs1)
        /\ idex'.ctl.rs2 = ifid.instr.rs2 /\ idex'.rs2_data = ReadReg(ifid.instr.rs2)
    BY <1>1, <1>3, <2>1, MovedStages, DecodeFields
  <2>3. ASSUME NEW r \in Reg, NEW reg, NEW latched, reg = r, latched = ReadReg(r)
        PROVE  ReadReg(r)' = IF memwb'.reg_write /\ memwb'.rd # 0 /\ memwb'.rd = reg
                             THEN WritebackData' ELSE latched
    BY <1>1, <2>3, SettledNext
  <2>4. Settled(idex.ctl.rs1, idex.rs1_data)' = ReadReg(idex.ctl.rs1)'
    BY <2>1, <2>2, <2>3 DEF Settled, ReadReg
  <2>5. Settled(idex.ctl.rs2, idex.rs2_data)' = ReadReg(idex.ctl.rs2)'
    BY <2>1, <2>2, <2>3 DEF Settled, ReadReg
  <2> QED
    BY <2>4, <2>5 DEF OperandsSettled
<1> QED
  BY <1>2, <1>3

\* The instruction that moves into MEM.
LEMMA MovedIntoMem ==
  ASSUME TypeOK, InterlockInv, RefInv, NEW enable, NEW sw \in SwitchValues, NEW rx,
         RCycle(enable, sw, rx), ~GlobalStall(enable), tag.ex # "bubble",
         NEW i, i = InstrIn(idex.pc)
  PROVE  /\ i \in Instr /\ idex.ctl = Decode(i)
         /\ AtMem' = idex.pc /\ InMem' = i
         /\ OperandA = ReadReg(i.rs1)' /\ OperandB = ReadReg(i.rs2)'
<1>1. Cycle(enable, sw, rx)
  BY DEF RCycle
<1>2. i \in Instr /\ idex.ctl = Decode(i) /\ idex.pc \in Word
  BY InstrInType, IdExFields DEF RefInv, Decoded
<1>3. idex.ctl.rs1 = i.rs1 /\ idex.ctl.rs2 = i.rs2
  BY <1>2, DecodeFields
<1>4. AtMem' = idex.pc /\ InMem' = i
  <2>1. AtMem' = Minus(Plus(idex.pc, 4), 4)
    BY <1>1, MovedStages DEF AtMem
  <2>2. AtMem' = idex.pc
    BY <1>2, <2>1, PlusMinusFour
  <2> QED
    BY <1>1, <2>2, MovedStages DEF InMem, InstrIn
<1>5. ASSUME NEW r \in {idex.ctl.rs1, idex.ctl.rs2}, NEW latched,
             Settled(r, latched) = ReadReg(r)
      PROVE  Operand(r, latched) = ReadReg(r)'
  BY <1>1, <1>5, OperandIsNextValue
<1>6. OperandA = ReadReg(i.rs1)'
  <2>1. Settled(i.rs1, idex.rs1_data) = ReadReg(i.rs1)
    BY <1>3 DEF RefInv, OperandsSettled
  <2>2. Operand(i.rs1, idex.rs1_data) = ReadReg(i.rs1)'
    BY <1>3, <1>5, <2>1
  <2> QED
    BY <1>3, <2>2 DEF OperandA
<1>7. OperandB = ReadReg(i.rs2)'
  <2>1. Settled(i.rs2, idex.rs2_data) = ReadReg(i.rs2)
    BY <1>3 DEF RefInv, OperandsSettled
  <2>2. Operand(i.rs2, idex.rs2_data) = ReadReg(i.rs2)'
    BY <1>3, <1>5, <2>1
  <2> QED
    BY <1>3, <2>2 DEF OperandB
<1> QED
  BY <1>2, <1>4, <1>6, <1>7

LEMMA MovedExecuted ==
  ASSUME TypeOK, InterlockInv, RefInv, NEW enable, NEW sw \in SwitchValues, NEW rx,
         RCycle(enable, sw, rx), ~GlobalStall(enable)
  PROVE  Executed'
<1> SUFFICES ASSUME tag'.mem # "bubble" PROVE ExecutedAs(InMem)'
  BY DEF Executed
<1>1. Cycle(enable, sw, rx) /\ tag.ex # "bubble"
  BY MovedTags DEF RCycle
<1>2. PICK i : i = InstrIn(idex.pc)
  OBVIOUS
<1>3. /\ i \in Instr /\ idex.ctl = Decode(i) /\ InMem' = i
      /\ OperandA = ReadReg(i.rs1)' /\ OperandB = ReadReg(i.rs2)'
  BY <1>1, <1>2, MovedIntoMem
<1>4. AluB = SecondOperand(i)'
  BY <1>3 DEF AluB, SecondOperand
<1>5. /\ exmem'.alu_result = AluResult(AluControl(i), ReadReg(i.rs1)', SecondOperand(i)')
      /\ exmem'.write_data = ReadReg(i.rs2)'
      /\ exmem'.rd = i.rd
      /\ exmem'.reg_write = Decode(i).reg_write
      /\ exmem'.mem_read = Decode(i).mem_read
      /\ exmem'.mem_write = Decode(i).mem_write
      /\ exmem'.mem_to_reg = Decode(i).mem_to_reg
      /\ exmem'.jal_to_reg = Decode(i).jal_to_reg
  BY <1>1, <1>3, <1>4, MovedStages, DecodeFields
<1>6. ExecutedAs(i)'
  BY <1>5 DEF ExecutedAs
<1> QED
  BY <1>3, <1>6 DEF ExecutedAs, SecondOperand, ReadReg

\* A transfer is taken in EX when the instruction set takes it, to the same target.
LEMMA MovedTransfer ==
  ASSUME TypeOK, InterlockInv, RefInv, NEW enable, NEW sw \in SwitchValues, NEW rx,
         RCycle(enable, sw, rx), ~GlobalStall(enable), tag.ex # "bubble"
  PROVE  /\ BranchTaken <=> SlotMachine!Taken(InMem)'
         /\ BranchTaken => BranchTarget = SlotMachine!Target(InMem, AtMem)'
<1>1. PICK i : i = InstrIn(idex.pc)
  OBVIOUS
<1>2. /\ i \in Instr /\ idex.ctl = Decode(i) /\ AtMem' = idex.pc /\ InMem' = i
      /\ OperandA = ReadReg(i.rs1)' /\ OperandB = ReadReg(i.rs2)'
  BY <1>1, MovedIntoMem
<1>3. SlotMachine!Taken(InMem)' <=>
        \/ i.opcode \in {"JAL", "JALR"}
        \/ i.opcode = "BRANCH" /\ i.funct = "BEQ" /\ OperandA = OperandB
        \/ i.opcode = "BRANCH" /\ i.funct = "BNE" /\ OperandA # OperandB
  BY <1>2 DEF SlotMachine!Taken, SlotMachine!X, ReadReg
<1>4. SlotMachine!Target(InMem, AtMem)' =
        IF i.opcode = "JALR" THEN EvenPart(Plus(OperandA, i.imm)) ELSE Plus(idex.pc, i.imm)
  BY <1>2 DEF SlotMachine!Target, SlotMachine!DataAddr, SlotMachine!X, SlotMachine!Plus,
              SlotMachine!EvenPart, Plus, EvenPart, ReadReg
<1>5. /\ idex.ctl.jump <=> i.opcode = "JAL"
      /\ idex.ctl.jalr <=> i.opcode = "JALR"
      /\ idex.ctl.branch_eq <=> i.opcode = "BRANCH" /\ i.funct = "BEQ"
      /\ idex.ctl.branch_ne <=> i.opcode = "BRANCH" /\ i.funct = "BNE"
      /\ idex.ctl.alu_src <=> i.opcode \in {"OP_IMM", "LOAD", "STORE", "JALR", "LUI"}
      /\ idex.ctl.imm = IF i.opcode \in {"OP", "UNKNOWN"} THEN 0 ELSE i.imm
  BY <1>2, DecodeFields
<1>6. (~Less(OperandA, OperandB) /\ ~More(OperandA, OperandB)) <=> OperandA = OperandB
  BY OperandType, EqualByComparison
<1>7. i.opcode = "BRANCH" => AluB = OperandB
  BY <1>5 DEF AluB
<1>8. BranchTaken <=> SlotMachine!Taken(InMem)'
  BY <1>3, <1>5, <1>6, <1>7 DEF BranchTaken
<1>9. ASSUME BranchTaken PROVE BranchTarget = SlotMachine!Target(InMem, AtMem)'
  <2>1. i.opcode \in {"JAL", "JALR", "BRANCH"}
    BY <1>3, <1>8, <1>9
  <2> QED
    BY <1>4, <1>5, <2>1 DEF BranchTarget
<1> QED
  BY <1>8, <1>9

LEMMA MovedFollowed ==
  ASSUME TypeOK, InterlockInv, RefInv, NEW enable, NEW sw \in SwitchValues, NEW rx,
         RCycle(enable, sw, rx), ~GlobalStall(enable)
  PROVE  Followed'
<1> SUFFICES ASSUME tag'.mem # "bubble" PROVE Followed'
  BY DEF Followed
<1>1. Cycle(enable, sw, rx) /\ tag.ex # "bubble" /\ tag.id # "bubble"
  BY MovedTags DEF RCycle, RefInv, TagsOK
<1>2. memNext' = <<ifid.pc, pc>>
  BY MovedTags
<1>3. CASE BranchTaken
  <2>1. ~HazardStall
    BY <1>3 DEF InterlockInv, ControlCoherent, BranchTaken, HazardStall
  <2>2. ifid'.pc = memNext'[2] /\ pc' = BranchTarget /\ tag'.ex = "bubble"
    BY <1>1, <1>2, <1>3, <2>1, MovedStages, MovedTags
  <2> QED
    BY <1>1, <1>3, <2>2, MovedTransfer DEF Followed
<1>4. CASE ~BranchTaken /\ HazardStall
  <2>1. memNext' = <<ifid'.pc, pc'>> /\ tag'.ex = "bubble"
    BY <1>1, <1>2, <1>4, MovedStages, MovedTags
  <2> QED
    BY <1>1, <1>4, <2>1, MovedTransfer DEF Followed
<1>5. CASE ~BranchTaken /\ ~HazardStall
  <2>1. /\ memNext' = <<idex'.pc, ifid'.pc>> /\ pc' = Plus(ifid'.pc, 4)
        /\ tag'.ex # "bubble"
    BY <1>1, <1>2, <1>5, MovedStages, MovedTags
  <2> QED
    BY <1>1, <1>5, <2>1, MovedTransfer DEF Followed
<1> QED
  BY <1>3, <1>4, <1>5

LEMMA MovedBubbles ==
  ASSUME TypeOK, InterlockInv, RefInv, NEW enable, NEW sw \in SwitchValues, NEW rx,
         RCycle(enable, sw, rx), ~GlobalStall(enable)
  PROVE  TagsOK' /\ BubblesIdle' /\ Decoded'
<1>1. Cycle(enable, sw, rx)
  BY DEF RCycle
<1>2. TagsOK'
  <2>1. tag.id \in Tag /\ tag.ex \in Tag /\ tag.mem \in Tag
    BY DEF RefInv, TagsOK
  <2>2. tag' \in [id: Tag, ex: Tag, mem: Tag]
    BY <2>1, MovedTags DEF Tag
  <2>3. memNext' \in Word \X Word
    BY MovedTags, IdExFields
  <2> QED
    BY <2>2, <2>3, MovedTags DEF TagsOK
<1>3. BubblesIdle'
  <2>1. tag'.id # "bubble"
    BY MovedTags
  <2>2. ASSUME tag'.ex = "bubble"
        PROVE  /\ idex'.ctl.rd = 0 /\ ~idex'.ctl.mem_read /\ ~idex'.ctl.mem_write
               /\ ~idex'.ctl.jump /\ ~idex'.ctl.jalr
               /\ ~idex'.ctl.branch_eq /\ ~idex'.ctl.branch_ne
    <3>1. CASE HazardStall \/ BranchTaken
      <4>1. idex'.ctl = NoControl
        BY <1>1, <3>1, MovedStages DEF Bubble
      <4> QED
        BY <4>1 DEF NoControl
    <3>2. CASE ~(HazardStall \/ BranchTaken)
      <4>1. ifid.instr = Nop
        BY <2>2, <3>2, MovedTags DEF RefInv, BubblesIdle
      <4>2. idex'.ctl = Decode(Nop)
        BY <1>1, <3>2, <4>1, MovedStages
      <4> QED
        BY <4>2, ConstantTypes, DecodeFields DEF Nop
    <3> QED
      BY <3>1, <3>2
  <2>3. ASSUME tag'.mem = "bubble"
        PROVE  exmem'.rd = 0 /\ ~exmem'.mem_read /\ ~exmem'.mem_write
    BY <1>1, <2>3, MovedTags, MovedStages DEF RefInv, BubblesIdle
  <2> QED
    BY <2>1, <2>2, <2>3 DEF BubblesIdle
<1>4. Decoded'
  <2>1. tag'.id # "bubble" => ifid'.instr = InstrIn(ifid.pc)'
    <3>1. CASE HazardStall
      BY <1>1, <3>1, MovedTags, MovedStages DEF RefInv, Decoded, InstrIn
    <3>2. CASE ~HazardStall
      BY <1>1, <3>2, MovedStages DEF InstrIn
    <3> QED
      BY <3>1, <3>2
  <2>2. ASSUME tag'.ex # "bubble" PROVE idex'.ctl = Decode(InstrIn(idex.pc)')
    <3>1. ~(HazardStall \/ BranchTaken) /\ tag.id # "bubble"
      BY <2>2, MovedTags
    <3>2. idex'.ctl = Decode(ifid.instr) /\ idex'.pc = ifid.pc /\ rom' = rom
      BY <1>1, <3>1, MovedStages
    <3> QED
      BY <3>1, <3>2 DEF RefInv, Decoded, InstrIn
  <2> QED
    BY <2>1, <2>2 DEF Decoded, Decode, AluControl, InstrIn
<1> QED
  BY <1>2, <1>3, <1>4

LEMMA NextRef == TypeOK /\ InterlockInv /\ RefInv /\ [RNext]_allVars => RefInv'
<1> SUFFICES ASSUME TypeOK, InterlockInv, RefInv, [RNext]_allVars PROVE RefInv'
  OBVIOUS
<1>1. ASSUME NEW enable \in Enables, NEW sw \in SwitchValues, NEW rx \in Rx,
             RCycle(enable, sw, rx)
      PROVE  RefInv'
  <2>1. CASE GlobalStall(enable)
    BY <1>1, <2>1, StillRef
  <2>2. CASE ~GlobalStall(enable)
    BY <1>1, <2>2, MovedBubbles, MovedOperands, MovedExecuted, MovedFollowed DEF RefInv
  <2> QED
    BY <2>1, <2>2
<1>2. CASE RPressReset
  <2>1. Cleared'
    BY <1>2 DEF RPressReset, Reset, GhostReset, Cleared
  <2>2. (Cleared => RefInv)'
    BY ClearedRef, PTL
  <2> QED
    BY <2>1, <2>2
<1>3. CASE UNCHANGED allVars
  <2>1. UNCHANGED <<pc, ifid, idex, exmem, memwb, rom, tag, memNext, regs>>
    BY <1>3 DEF allVars, ghosts, vars, coreVars
  <2>2. WrittenRegs' = WrittenRegs
    BY <2>1 DEF WrittenRegs, WritebackData
  <2> QED
    BY <2>1, <2>2, FrozenRef
<1> QED
  BY <1>1, <1>2, <1>3 DEF RNext, RClock

\* In every reachable state the tags tell instructions from bubbles, and each stage
\* holds the program's instruction at the address the window reads off for it.
THEOREM RefInvariant == RSpec => []RefInv
<1>1. RInit => RefInv
  BY ClearedRef DEF RInit, Init, GhostInit, Cleared
<1> QED
  BY <1>1, NextRef, HistoryHidden, TypeCorrect, InterlockCorrect, PTL DEF RSpec

-------------------------------------------------------------------------------
(* The refinement, step by step.                                               *)

\* A state without an instruction in MEM that moves, or one that stands still,
\* keeps the addresses of the instructions in flight.
LEMMA WindowStill ==
  ASSUME UNCHANGED <<pc, ifid, idex, exmem, tag, memNext>>
  PROVE  Window' = Window
  BY DEF Window

LEMMA WindowSlides ==
  ASSUME TypeOK, RefInv, NEW enable, NEW sw, NEW rx, RCycle(enable, sw, rx),
         ~GlobalStall(enable), tag.mem = "bubble"
  PROVE  Window' = Window
<1>1. Cycle(enable, sw, rx) /\ pc \in Word /\ idex.pc \in Word /\ ifid.pc \in Word
  BY IdExFields DEF RCycle
<1>2. CASE tag.ex # "bubble"
  <2>1. Window' = <<Minus(exmem'.pc_plus4, 4), memNext'[1], memNext'[2]>>
    BY <1>2, MovedTags DEF Window
  <2>2. Minus(exmem'.pc_plus4, 4) = idex.pc
    BY <1>1, MovedStages, PlusMinusFour
  <2>3. memNext'[1] = ifid.pc /\ memNext'[2] = pc
    BY MovedTags
  <2> QED
    BY <1>2, <2>1, <2>2, <2>3 DEF Window
<1>3. CASE tag.ex = "bubble"
  <2>1. ~HazardStall /\ ~BranchTaken
    BY <1>3, BubbleLetsThrough DEF RefInv
  <2>2. /\ tag'.mem = "bubble" /\ tag'.ex = tag.id /\ tag'.id # "bubble"
        /\ pc' = Plus(pc, 4) /\ ifid'.pc = pc /\ idex'.pc = ifid.pc
    BY <1>1, <1>3, <2>1, MovedTags, MovedStages
  <2>3. CASE tag.id # "bubble"
    BY <1>3, <2>2, <2>3 DEF Window
  <2>4. CASE tag.id = "bubble"
    <3>1. Window' = <<pc, Plus(pc, 4), Plus(Plus(pc, 4), 4)>>
      BY <2>2, <2>4 DEF Window
    <3> QED
      BY <1>1, <1>3, <2>4, <3>1, PlusFourTwice DEF Window
  <2> QED
    BY <2>3, <2>4
<1> QED
  BY <1>2, <1>3

\* When the instruction in MEM completes, the machine goes on as SlotIsa says.
LEMMA WindowAdvances ==
  ASSUME TypeOK, RefInv, NEW enable, NEW sw, NEW rx, RCycle(enable, sw, rx),
         ~GlobalStall(enable), tag.mem # "bubble"
  PROVE  /\ Window[1] = AtMem
         /\ IF SlotMachine!Taken(InMem)
            THEN /\ Window'[1] = Window[3]
                 /\ Window'[2] = SlotMachine!Target(InMem, AtMem)
                 /\ Window'[3] = Plus(SlotMachine!Target(InMem, AtMem), 4)
            ELSE /\ Window'[1] = Window[2]
                 /\ Window'[2] = Window[3]
                 /\ Window'[3] = Plus(Window[3], 4)
<1>1. Cycle(enable, sw, rx) /\ pc \in Word /\ idex.pc \in Word /\ ifid.pc \in Word
  BY IdExFields DEF RCycle
<1>2. Window = <<AtMem, memNext[1], memNext[2]>> /\ tag.id # "bubble"
  BY DEF Window, AtMem, RefInv, TagsOK
<1>3. Followed
  BY DEF RefInv
<1>4. CASE tag.ex # "bubble"
  <2>1. Window' = <<Minus(exmem'.pc_plus4, 4), memNext'[1], memNext'[2]>>
    BY <1>4, MovedTags DEF Window
  <2>2. Minus(exmem'.pc_plus4, 4) = idex.pc
    BY <1>1, MovedStages, PlusMinusFour
  <2>3. memNext'[1] = ifid.pc /\ memNext'[2] = pc
    BY MovedTags
  <2>4. Window' = <<idex.pc, ifid.pc, pc>>
    BY <2>1, <2>2, <2>3
  <2>5. ~SlotMachine!Taken(InMem) /\ memNext = <<idex.pc, ifid.pc>> /\ pc = Plus(ifid.pc, 4)
    BY <1>3, <1>4 DEF Followed
  <2> QED
    BY <1>2, <2>4, <2>5
<1>5. CASE tag.ex = "bubble"
  <2>1. ~HazardStall /\ ~BranchTaken
    BY <1>5, BubbleLetsThrough DEF RefInv
  <2>2. /\ tag'.mem = "bubble" /\ tag'.ex = tag.id
        /\ pc' = Plus(pc, 4) /\ ifid'.pc = pc /\ idex'.pc = ifid.pc
    BY <1>1, <1>5, <2>1, MovedTags, MovedStages
  <2>3. Window' = <<ifid.pc, pc, Plus(pc, 4)>>
    BY <1>2, <2>2 DEF Window
  <2>4. IF SlotMachine!Taken(InMem)
        THEN ifid.pc = memNext[2] /\ pc = SlotMachine!Target(InMem, AtMem)
        ELSE memNext = <<ifid.pc, pc>>
    BY <1>3, <1>5 DEF Followed
  <2> QED
    BY <1>2, <2>3, <2>4
<1> QED
  BY <1>4, <1>5

LEMMA PortsInPipeline ==
  /\ \A read, rx : SlotMachine!RxHold(read, rx) <=> RxHold(read, rx)
  /\ \A start, byte : SlotMachine!TxSend(start, byte) <=> TxSend(start, byte)
  /\ \A start : SlotMachine!CountStart(start) <=> CountStart(start)
  /\ SlotMachine!PortsReset <=> PortsReset
  /\ SlotMachine!PortsInit <=> PortsInit
  /\ \A addr, sw : SlotMachine!MmioRead(addr, sw) = MmioRead(addr, sw)
  /\ \A addr : SlotMachine!IsMmio(addr) <=> IsMmio(addr)
  /\ SlotMachine!UartData = UartData
  BY DEF SlotMachine!RxHold, RxHold, SlotMachine!TxSend, TxSend, SlotMachine!CountStart,
         CountStart, SlotMachine!PortsReset, PortsReset, SlotMachine!PortsInit, PortsInit,
         SlotMachine!MmioRead, MmioRead, SlotMachine!SwitchAddr, SwitchAddr,
         SlotMachine!UartStatus, UartStatus, SlotMachine!UartData, UartData,
         SlotMachine!MmioBase, MmioBase, SlotMachine!Bit, Bit, SlotMachine!IsMmio, IsMmio

LEMMA AluInPipeline ==
  \A op, a, b : SlotMachine!AluResult(op, a, b) = AluResult(op, a, b)
  BY DEF SlotMachine!AluResult, AluResult, SlotMachine!Plus, Plus, SlotMachine!Minus, Minus,
         SlotMachine!Less, Less, SlotMachine!Signed, Signed, SlotMachine!MmioBase, MmioBase,
         SlotMachine!Bit, Bit

LEMMA MemoryMap ==
  /\ UartData \in Int /\ MmioBase \in Int
  /\ IsMmio(UartData)
  /\ UartData # SwitchAddr /\ UartData # UartStatus
  BY SizeAssumption DEF UartData, UartStatus, SwitchAddr, MmioBase, IsMmio

\* What the instruction in MEM asks of memory and ports is what the instruction
\* set says it does.
LEMMA MemoryEffects ==
  ASSUME TypeOK, RefInv, tag.mem # "bubble", NEW enable \in BOOLEAN
  PROVE  /\ UartWriteRequest(enable) <=> enable /\ SlotMachine!SendsByte(InMem)
         /\ UartRead(enable) <=> enable /\ SlotMachine!ReadsByte(InMem)
         /\ RamStore(enable) <=> enable /\ SlotMachine!WritesRam(InMem)
         /\ exmem.write_data = SlotMachine!X(InMem.rs2)
         /\ InMem.opcode \in {"LOAD", "STORE"} =>
               exmem.alu_result = SlotMachine!DataAddr(InMem)
<1> DEFINE i == InMem
<1>1. i \in Instr /\ ExecutedAs(i)
  BY AtMemType DEF RefInv, Executed
<1>2. /\ exmem.mem_write <=> i.opcode = "STORE"
      /\ exmem.mem_read <=> i.opcode = "LOAD"
  BY <1>1, DecodeFields DEF ExecutedAs
<1>3. ASSUME i.opcode \in {"LOAD", "STORE"}
      PROVE  exmem.alu_result = SlotMachine!DataAddr(i)
  <2>1. AluControl(i) = "ADD"
    BY <1>3 DEF AluControl
  <2>2. SecondOperand(i) = i.imm
    BY <1>1, <1>3, DecodeFields DEF SecondOperand
  <2>3. exmem.alu_result = AluResult("ADD", ReadReg(i.rs1), i.imm)
    BY <1>1, <2>1, <2>2 DEF ExecutedAs
  <2> QED
    BY <2>3, IsaInPipeline DEF AluResult
<1>4. exmem.write_data = SlotMachine!X(i.rs2)
  BY <1>1, IsaInPipeline DEF ExecutedAs
<1>5. UartWriteRequest(enable) <=> enable /\ SlotMachine!SendsByte(i)
  BY <1>2, <1>3, PortsInPipeline DEF UartWriteRequest, SlotMachine!SendsByte
<1>6. UartRead(enable) <=> enable /\ SlotMachine!ReadsByte(i)
  BY <1>2, <1>3, PortsInPipeline DEF UartRead, SlotMachine!ReadsByte
<1>7. RamStore(enable) <=> enable /\ SlotMachine!WritesRam(i)
  BY <1>2, <1>3, PortsInPipeline DEF RamStore, SlotMachine!WritesRam
<1> QED
  BY <1>3, <1>4, <1>5, <1>6, <1>7

\* A cycle in which no instruction completes is one in which only time passes.
LEMMA QuietCycle ==
  ASSUME TypeOK, InterlockInv, RefInv, NEW enable \in Enables, NEW sw \in SwitchValues,
         NEW rx \in Rx, RCycle(enable, sw, rx),
         GlobalStall(enable) \/ tag.mem = "bubble"
  PROVE  SlotMachine!Environment(rx)
<1>1. Cycle(enable, sw, rx) /\ enable \in BOOLEAN
  BY EnableAssumption DEF RCycle
<1>2. ~UartRead(enable) /\ ~UartStart(enable) /\ ~RamStore(enable)
  <2>1. CASE tag.mem = "bubble"
    BY <2>1 DEF RefInv, BubblesIdle, UartRead, UartStart, UartWriteRequest, RamStore
  <2>2. CASE ~enable
    BY <2>2 DEF UartRead, UartStart, UartWriteRequest, RamStore
  <2>3. CASE enable /\ UartWait(enable)
    BY <2>3, MemoryMap DEF UartRead, UartStart, UartWait, UartWriteRequest, RamStore,
                           InterlockInv, ControlCoherent
  <2> QED
    BY <2>1, <2>2, <2>3 DEF GlobalStall
<1>3. RxHold(FALSE, rx) /\ TxSend(FALSE, 0) /\ CountStart(FALSE) /\ ram' = ram /\ rom' = rom
  BY <1>1, <1>2 DEF Cycle, RxHold, TxSend, CountStart, StoreRam
<1>4. WrittenRegs' = WrittenRegs
  <2>1. CASE GlobalStall(enable)
    BY <1>1, <2>1, StillCycle
  <2>2. CASE ~GlobalStall(enable) /\ tag.mem = "bubble"
    BY <1>1, <2>2, MovedRegs DEF RefInv, BubblesIdle
  <2> QED
    BY <2>1, <2>2
<1> QED
  BY <1>3, <1>4, PortsInPipeline DEF SlotMachine!Environment

\* The value written back for the instruction that leaves MEM.
LEMMA WritesBuiltResult ==
  ASSUME TypeOK, RefInv, tag.mem # "bubble", NEW sw, SlotMachine!Writes(InMem)
  PROVE  SlotMachine!BuiltResult(InMem, AtMem, sw)
           = IF exmem.jal_to_reg THEN exmem.pc_plus4
             ELSE IF exmem.mem_to_reg THEN MemReadData(TRUE, sw)
             ELSE exmem.alu_result
<1> DEFINE i == InMem
<1>1. i \in Instr /\ ExecutedAs(i)
  BY AtMemType DEF RefInv, Executed
<1>2. /\ exmem.jal_to_reg <=> i.opcode \in {"JAL", "JALR"}
      /\ exmem.mem_to_reg <=> i.opcode = "LOAD"
      /\ exmem.mem_read <=> i.opcode = "LOAD"
  BY <1>1, DecodeFields DEF ExecutedAs
<1>3. exmem.alu_result = AluResult(AluControl(i), ReadReg(i.rs1), SecondOperand(i))
  BY <1>1 DEF ExecutedAs
<1>4. \A r : SlotMachine!X(r) = ReadReg(r)
  BY IsaInPipeline
<1>5. /\ i.opcode = "OP" => SecondOperand(i) = ReadReg(i.rs2)
      /\ i.opcode \in {"OP_IMM", "LUI"} => SecondOperand(i) = i.imm
  BY <1>1, DecodeFields DEF SecondOperand
<1>6. CASE i.opcode = "LUI"
  <2>1. AluControl(i) = "ADD"
    BY <1>6 DEF AluControl
  <2> QED
    BY <1>2, <1>3, <1>4, <1>5, <1>6, <2>1, IsaInPipeline
       DEF SlotMachine!BuiltResult, AluResult
<1>7. CASE i.opcode = "OP_IMM" /\ i.funct \notin {"XOR", "OR", "AND", "SLT", "SLTU"}
  <2>1. AluControl(i) = "ADD"
    BY <1>7 DEF AluControl
  <2> QED
    BY <1>2, <1>3, <1>4, <1>5, <1>7, <2>1, IsaInPipeline
       DEF SlotMachine!BuiltResult, AluResult
<1>8. CASE i.opcode = "OP_IMM" /\ i.funct \in {"XOR", "OR", "AND", "SLT", "SLTU"}
  <2>1. AluControl(i) = i.funct
    BY <1>8 DEF AluControl
  <2>2. SlotMachine!BuiltResult(i, AtMem, sw) = AluResult(i.funct, ReadReg(i.rs1), i.imm)
    BY <1>4, <1>8, AluInPipeline DEF SlotMachine!BuiltResult, SlotMachine!Result
  <2> QED
    BY <1>2, <1>3, <1>5, <1>8, <2>1, <2>2
<1>9. CASE i.opcode = "OP" /\ i.funct \notin AluOp
  <2>1. AluControl(i) = "ADD" /\ i.funct \notin SlotMachine!AluOp
    BY <1>9 DEF AluControl, SlotMachine!AluOp, SlotMachine!BitOp, AluOp, BitOp
  <2> QED
    BY <1>2, <1>3, <1>4, <1>5, <1>9, <2>1, IsaInPipeline
       DEF SlotMachine!BuiltResult, AluResult
<1>10. CASE i.opcode = "OP" /\ i.funct \in AluOp
  <2>1. AluControl(i) = i.funct /\ i.funct \in SlotMachine!AluOp
    BY <1>10 DEF AluControl, SlotMachine!AluOp, SlotMachine!BitOp, AluOp, BitOp
  <2>2. SlotMachine!BuiltResult(i, AtMem, sw)
          = AluResult(i.funct, ReadReg(i.rs1), ReadReg(i.rs2))
    BY <1>4, <1>10, <2>1, AluInPipeline DEF SlotMachine!BuiltResult, SlotMachine!Result
  <2> QED
    BY <1>2, <1>3, <1>5, <1>10, <2>1, <2>2
<1>11. CASE i.opcode = "LOAD"
  <2>1. SlotMachine!BuiltResult(i, AtMem, sw) = SlotMachine!Loaded(i, sw)
    BY <1>11 DEF SlotMachine!BuiltResult, SlotMachine!Result
  <2>2. exmem.alu_result = SlotMachine!DataAddr(i)
    BY <1>11, MemoryEffects
  <2>3. SlotMachine!Loaded(i, sw) = MemReadData(TRUE, sw)
    BY <1>2, <1>11, <2>2, PortsInPipeline
       DEF SlotMachine!Loaded, MemReadData, SlotMachine!WordIndex, WordIndex
  <2> QED
    BY <1>2, <1>11, <2>1, <2>3
<1>12. CASE i.opcode \in {"JAL", "JALR"}
  <2>1. SlotMachine!BuiltResult(i, AtMem, sw) = Plus(AtMem, 4)
    BY <1>12, IsaInPipeline DEF SlotMachine!BuiltResult, SlotMachine!Result
  <2>2. Plus(AtMem, 4) = exmem.pc_plus4
    BY IdExFields, PlusMinusFour DEF AtMem
  <2> QED
    BY <1>2, <1>12, <2>1, <2>2
<1> QED
  BY <1>6, <1>7, <1>8, <1>9, <1>10, <1>11, <1>12 DEF SlotMachine!Writes

\* A cycle in which the instruction in MEM completes is a step of the machine.
LEMMA CompletingCycle ==
  ASSUME TypeOK, InterlockInv, RefInv, NEW enable \in Enables, NEW sw \in SwitchValues,
         NEW rx \in Rx, RCycle(enable, sw, rx),
         ~GlobalStall(enable), tag.mem # "bubble"
  PROVE  SlotMachine!Step(sw, rx)
<1> DEFINE i == InMem
<1>1. Cycle(enable, sw, rx) /\ enable = TRUE
  BY EnableAssumption DEF RCycle, GlobalStall
<1>2. SlotMachine!InstrAt(Window[1]) = i /\ Window[1] = AtMem
  BY WindowAdvances, IsaInPipeline DEF InMem
<1>3. /\ UartWriteRequest(enable) <=> SlotMachine!SendsByte(i)
      /\ UartRead(enable) <=> SlotMachine!ReadsByte(i)
      /\ RamStore(enable) <=> SlotMachine!WritesRam(i)
      /\ exmem.write_data = SlotMachine!X(i.rs2)
  BY <1>1, MemoryEffects
<1>4. SlotMachine!CanComplete(i) /\ (UartStart(enable) <=> SlotMachine!SendsByte(i))
  BY <1>3 DEF SlotMachine!CanComplete, UartStart, GlobalStall, UartWait
<1>5. WrittenRegs' = IF SlotMachine!Writes(i)
                     THEN [WrittenRegs EXCEPT ![i.rd] = SlotMachine!BuiltResult(i, AtMem, sw)]
                     ELSE WrittenRegs
  <2>1. exmem.rd = i.rd /\ (exmem.reg_write /\ exmem.rd # 0 <=> SlotMachine!Writes(i))
    BY AtMemType, DecodeFields DEF RefInv, Executed, ExecutedAs, SlotMachine!Writes
  <2> DEFINE value == IF exmem.jal_to_reg THEN exmem.pc_plus4
                      ELSE IF exmem.mem_to_reg THEN MemReadData(TRUE, sw)
                      ELSE exmem.alu_result
  <2>2. WrittenRegs' = IF exmem.reg_write /\ exmem.rd # 0
                       THEN [WrittenRegs EXCEPT ![exmem.rd] = value]
                       ELSE WrittenRegs
    BY <1>1, MovedRegs
  <2>3. SlotMachine!Writes(i) => SlotMachine!BuiltResult(i, AtMem, sw) = value
    BY WritesBuiltResult
  <2> HIDE DEF value
  <2> QED
    BY <2>1, <2>2, <2>3
<1>6. ram' = IF SlotMachine!WritesRam(i) THEN SlotMachine!StoredRam(i) ELSE ram
  <2>1. RamStore(enable) => exmem.alu_result = SlotMachine!DataAddr(i)
    BY <1>1, <1>3, MemoryEffects DEF SlotMachine!WritesRam
  <2> QED
    BY <1>1, <1>3, <2>1 DEF Cycle, StoreRam, SlotMachine!StoredRam, SlotMachine!WordIndex,
                            WordIndex
<1>7. /\ SlotMachine!RxHold(SlotMachine!ReadsByte(i), rx)
      /\ SlotMachine!TxSend(SlotMachine!SendsByte(i), SlotMachine!X(i.rs2) % ByteSize)
      /\ SlotMachine!CountStart(SlotMachine!SendsByte(i))
      /\ rom' = rom
  <2>1. /\ RxHold(UartRead(enable), rx)
        /\ TxSend(UartStart(enable), exmem.write_data % ByteSize)
        /\ CountStart(UartStart(enable))
        /\ rom' = rom
    BY <1>1 DEF Cycle
  <2>2. RxHold(SlotMachine!ReadsByte(i), rx)
    BY <1>3, <2>1 DEF RxHold
  <2>3. TxSend(SlotMachine!SendsByte(i), SlotMachine!X(i.rs2) % ByteSize)
    BY <1>3, <1>4, <2>1 DEF TxSend
  <2>4. CountStart(SlotMachine!SendsByte(i))
    BY <1>4, <2>1 DEF CountStart
  <2> QED
    BY <2>1, <2>2, <2>3, <2>4, PortsInPipeline
<1>8. SlotMachine!Effect(i, SlotMachine!BuiltResult(i, AtMem, sw), rx)
  BY <1>4, <1>5, <1>6, <1>7 DEF SlotMachine!Effect
<1>9. IF SlotMachine!Taken(i)
      THEN /\ Window'[1] = Window[3]
           /\ Window'[2] = SlotMachine!Target(i, AtMem)
           /\ Window'[3] = SlotMachine!Plus(SlotMachine!Target(i, AtMem), 4)
      ELSE /\ Window'[1] = Window[2]
           /\ Window'[2] = Window[3]
           /\ Window'[3] = SlotMachine!Plus(Window[3], 4)
  BY WindowAdvances, IsaInPipeline
<1> QED
  BY <1>2, <1>8, <1>9 DEF SlotMachine!Step

\* Pressing reset is the reset of the machine: the instruction in MEM, if any,
\* may still have stored its word.
LEMMA ResetCycle ==
  ASSUME TypeOK, RefInv, NEW enable \in Enables, Reset(enable), GhostReset
  PROVE  SlotMachine!Reset
<1> DEFINE i == SlotMachine!InstrAt(Window[1])
<1>1. WrittenRegs' = [r \in Reg |-> 0]
  <2>1. regs' = [r \in Reg |-> 0] /\ memwb'.reg_write = FALSE
    BY DEF Reset, ResetMemWb
  <2> QED
    BY <2>1 DEF WrittenRegs
<1>2. Window' = <<0, 4, 8>>
  <2>1. pc' = 0 /\ tag'.mem = "bubble" /\ tag'.ex = "bubble" /\ tag'.id = "bubble"
    BY DEF Reset, GhostReset
  <2>2. Plus(0, 4) = 4 /\ Plus(0, 8) = 8
    BY FourIsWord DEF Plus
  <2> QED
    BY <2>1, <2>2 DEF Window
<1>3. ram' \in {ram} \cup (IF SlotMachine!WritesRam(i) THEN {SlotMachine!StoredRam(i)} ELSE {})
  <2>1. StoreRam(enable) /\ enable \in BOOLEAN
    BY EnableAssumption DEF Reset
  <2>2. CASE ~RamStore(enable)
    BY <2>1, <2>2 DEF StoreRam
  <2>3. CASE RamStore(enable)
    <3>1. tag.mem # "bubble"
      BY <2>3 DEF RefInv, BubblesIdle, RamStore
    <3>2. i = InMem
      BY <3>1, IsaInPipeline DEF Window, InMem, AtMem
    <3>3. /\ SlotMachine!WritesRam(InMem)
          /\ exmem.alu_result = SlotMachine!DataAddr(InMem)
          /\ exmem.write_data = SlotMachine!X(InMem.rs2)
      BY <2>1, <2>3, <3>1, MemoryEffects DEF SlotMachine!WritesRam
    <3> QED
      BY <2>1, <2>3, <3>2, <3>3 DEF StoreRam, SlotMachine!StoredRam, SlotMachine!WordIndex,
                                    WordIndex
  <2> QED
    BY <2>2, <2>3
<1>4. SlotMachine!PortsReset /\ rom' = rom
  BY PortsInPipeline DEF Reset
<1>5. SlotMachine!ResetState(i)
  BY <1>1, <1>3, <1>4 DEF SlotMachine!ResetState, SlotMachine!Reg, Reg
<1> QED
  BY <1>2, <1>5 DEF SlotMachine!Reset

LEMMA InitRefines == RInit => SlotMachine!Init
<1> SUFFICES ASSUME RInit PROVE SlotMachine!Init
  OBVIOUS
<1>1. WrittenRegs = [r \in Reg |-> 0]
  BY DEF RInit, Init, WrittenRegs, ResetMemWb
<1>2. Window = <<0, 4, 8>>
  BY FourIsWord DEF RInit, Init, GhostInit, Window, Plus
<1>3. SlotMachine!PortsInit
  BY PortsInPipeline DEF RInit, Init
<1> QED
  BY <1>1, <1>2, <1>3 DEF SlotMachine!Init, SlotMachine!IsaInit, SlotMachine!Reg, Reg

LEMMA StepRefines ==
  TypeOK /\ InterlockInv /\ RefInv /\ [RNext]_allVars => [SlotMachine!Next]_(SlotMachine!vars)
<1> SUFFICES ASSUME TypeOK, InterlockInv, RefInv, [RNext]_allVars
             PROVE  [SlotMachine!Next]_(SlotMachine!vars)
  OBVIOUS
<1>1. ASSUME NEW enable \in Enables, NEW sw \in SwitchValues, NEW rx \in Rx,
             RCycle(enable, sw, rx)
      PROVE  SlotMachine!Next
  <2>1. CASE GlobalStall(enable) \/ tag.mem = "bubble"
    <3>1. SlotMachine!Environment(rx)
      BY <1>1, <2>1, QuietCycle
    <3>2. Window' = Window
      <4>1. CASE GlobalStall(enable)
        BY <1>1, <4>1, StillCycle, WindowStill DEF RCycle, GhostCycle, ghosts
      <4>2. CASE ~GlobalStall(enable)
        BY <1>1, <2>1, <4>2, WindowSlides
      <4> QED
        BY <4>1, <4>2
    <3> QED
      BY <3>1, <3>2 DEF SlotMachine!Next, Rx
  <2>2. CASE ~GlobalStall(enable) /\ tag.mem # "bubble"
    BY <1>1, <2>2, CompletingCycle DEF SlotMachine!Next, Rx
  <2> QED
    BY <2>1, <2>2
<1>2. CASE RPressReset
  BY <1>2, ResetCycle DEF RPressReset, SlotMachine!Next
<1>3. CASE UNCHANGED allVars
  <2>1. /\ UNCHANGED <<pc, ifid, idex, exmem, memwb, regs, rom, ram, tag, memNext>>
        /\ UNCHANGED portVars
    BY <1>3 DEF allVars, ghosts, vars, coreVars
  <2>2. WrittenRegs' = WrittenRegs
    BY <2>1 DEF WrittenRegs, WritebackData
  <2>3. Window' = Window
    BY <2>1, WindowStill
  <2> QED
    BY <2>1, <2>2, <2>3 DEF SlotMachine!vars, SlotMachine!isaVars, SlotMachine!portVars,
                            portVars
<1> QED
  BY <1>1, <1>2, <1>3 DEF RNext, RClock

\* The pipeline implements the instruction set SlotIsa for every program and
\* every input: forwarding, stalls, redirection, the UART handshake, the enable
\* pin and reset are invisible to the program, and every store, read and byte
\* happens once and in order.
THEOREM PipelineImplementsSlotIsa == RSpec => ImplementsSlotIsa
  BY InitRefines, StepRefines, RefInvariant, HistoryHidden, TypeCorrect, InterlockCorrect,
     PTL DEF RSpec, ImplementsSlotIsa, SlotMachine!Spec
-------------------------------------------------------------------------------
(* RV32I. On the programs that leave the branch slot empty, the pipeline       *)
(* implements the documented instruction set: the theorem behind what          *)
(* hello_world.py relies on. The hypotheses are the class of programs          *)
(* (WellWritten) and that the program memory divides the address space, as     *)
(* 1 KiB divides 4 GiB.                                                        *)

RomDivides == WordSize % (4 * RomWords) = 0
ProgramsWellWritten == \A r \in Programs : WellWritten(r)

-------------------------------------------------------------------------------
(* The order of a branch, its slot and its target in the pipeline.             *)

SlotOrder ==
    /\ tag.mem # "bubble" /\ SlotMachine!Taken(InMem) => tag.id = "slot"
    /\ tag.id = "slot" => /\ tag.ex = "bubble" /\ tag.mem # "bubble"
                          /\ SlotMachine!Taken(InMem)
    /\ tag.ex = "slot" => tag.mem = "bubble"

\* The instruction in a branch's slot is a NOP and the target is behind it;
\* otherwise the three oldest addresses follow one another.
SlotEmpty ==
    IF OldestTag = "slot"
    THEN InstrIn(Window[1]) = Nop /\ Window[3] = Plus(Window[2], 4)
    ELSE Window[2] = Plus(Window[1], 4) /\ Window[3] = Plus(Window[1], 8)

SlotInv == WellWritten(rom) /\ SlotOrder /\ SlotEmpty

-------------------------------------------------------------------------------
(* Addresses and words of the program memory.                                  *)

LEMMA ModuloMultiple ==
  ASSUME NEW n \in Nat \ {0}, NEW x \in Int, NEW k \in Int
  PROVE  (x + k * n) % n = x % n
<1>1. x = n * (x \div n) + (x % n) /\ x % n \in 0 .. n - 1 /\ x \div n \in Int
  OBVIOUS
<1>2. x + k * n = n * (x \div n + k) + (x % n)
  BY <1>1
<1> DEFINE q == x \div n + k
<1>3. \A z \in Int, d \in Int, r \in 0 .. n - 1 : z = n * d + r => z % n = r
  OBVIOUS
<1>4. x + k * n \in Int /\ q \in Int
  BY <1>1
<1> QED
  BY <1>1, <1>2, <1>3, <1>4

LEMMA ModuloSum ==
  ASSUME NEW n \in Nat \ {0}, NEW x \in Int, NEW y \in Int
  PROVE  (x + y) % n = ((x % n) + y) % n
<1>1. x = n * (x \div n) + (x % n) /\ x % n \in Int /\ x \div n \in Int
  OBVIOUS
<1>2. x + y = ((x % n) + y) + (x \div n) * n
  BY <1>1
<1>3. \A u, k \in Int : (u + k * n) % n = u % n
  BY ModuloMultiple
<1> DEFINE u == (x % n) + y
           k == x \div n
<1>4. u \in Int /\ k \in Int
  BY <1>1
<1> HIDE DEF u, k
<1>5. (u + k * n) % n = u % n
  BY <1>3, <1>4
<1> QED
  BY <1>2, <1>5 DEF u, k

LEMMA WordTwoFurther ==
  ASSUME RomDivides, NEW a \in Word
  PROVE  WordIndex(Plus(a, 8), RomWords) = (WordIndex(a, RomWords) + 2) % RomWords
<1>1. WordSize \in Nat /\ WordSize >= 32 /\ RomWords \in Nat \ {0} /\ a \in Nat
      /\ a < WordSize
  BY SizeAssumption DEF Word
<1>2. PICK m \in Int : WordSize = 4 * (m * RomWords)
  <2> DEFINE n == 4 * RomWords
             d == WordSize \div n
  <2>1. n \in Nat \ {0}
    BY <1>1
  <2>2. WordSize = n * d + (WordSize % n) /\ d \in Int
    BY <1>1, <2>1
  <2>3. WordSize = 4 * (d * RomWords)
    BY <1>1, <2>2 DEF RomDivides
  <2> QED
    BY <2>2, <2>3
<1>3. m * RomWords \in Int
  BY <1>1
<1>4. PICK q \in {0, 1} : Plus(a, 8) = a + 8 - q * WordSize
  <2>1. CASE a + 8 < WordSize
    BY <1>1, <2>1 DEF Plus
  <2>2. CASE a + 8 >= WordSize
    BY <1>1, <2>2 DEF Plus
  <2> QED
    BY <1>1, <2>1, <2>2
<1>5. Plus(a, 8) \div 4 = (a \div 4) + 2 - q * (m * RomWords)
  <2>1. CASE q = 0
    BY <1>1, <1>4, <2>1
  <2>2. CASE q = 1
    <3>1. Plus(a, 8) = a + 8 - 4 * (m * RomWords)
      BY <1>1, <1>2, <1>4, <2>2
    <3> QED
      BY <1>1, <1>3, <2>2, <3>1
  <2> QED
    BY <2>1, <2>2
<1>6. Plus(a, 8) \div 4 = ((a \div 4) + 2) + (-(q * m)) * RomWords
  <2>1. q * (m * RomWords) = (q * m) * RomWords /\ q * m \in Int
    BY <1>1
  <2> QED
    BY <1>1, <1>5, <2>1
<1>7. (Plus(a, 8) \div 4) % RomWords = ((a \div 4) + 2) % RomWords
  <2>1. (a \div 4) + 2 \in Int /\ -(q * m) \in Int
    BY <1>1
  <2>2. (((a \div 4) + 2) + (-(q * m)) * RomWords) % RomWords = ((a \div 4) + 2) % RomWords
    BY <1>1, <2>1, ModuloMultiple
  <2> QED
    BY <1>6, <2>2
<1> QED
  BY <1>1, <1>7, ModuloSum DEF WordIndex

LEMMA WindowType ==
  ASSUME TypeOK, RefInv
  PROVE  Window[1] \in Word /\ Window[2] \in Word /\ Window[3] \in Word
<1>1. /\ pc \in Word /\ ifid.pc \in Word /\ idex.pc \in Word /\ AtMem \in Word
      /\ memNext[1] \in Word /\ memNext[2] \in Word
  BY IdExFields, AtMemType DEF RefInv, TagsOK
<1>2. Plus(pc, 4) \in Word /\ Plus(pc, 8) \in Word
  BY <1>1, FourIsWord, PlusType
<1> QED
  BY <1>1, <1>2 DEF Window, AtMem

\* The word two places after a transfer of a well-written program is a NOP.
LEMMA SlotHoldsNop ==
  ASSUME TypeOK, WellWritten(rom), RomDivides, NEW a \in Word,
         SlotMachine!Taken(InstrIn(a))
  PROVE  InstrIn(Plus(a, 8)) = Nop
<1> DEFINE k == WordIndex(a, RomWords)
<1>1. k \in RomWord
  BY WordIndexType, SizeAssumption DEF RomWord
<1>2. rom[k].opcode \in Transfers
  BY IsaInPipeline DEF Transfers, InstrIn
<1>3. rom[(k + 2) % RomWords] = Nop
  BY <1>1, <1>2 DEF WellWritten
<1> QED
  BY <1>3, WordTwoFurther DEF InstrIn

LEMMA NopNotTaken == ~SlotMachine!Taken(Nop)
  BY IsaInPipeline DEF Nop

-------------------------------------------------------------------------------
(* The invariant is kept.                                                      *)

LEMMA InitSlot == ProgramsWellWritten /\ RInit => SlotInv
<1> SUFFICES ASSUME ProgramsWellWritten, RInit PROVE SlotInv
  OBVIOUS
<1>1. WellWritten(rom)
  BY DEF ProgramsWellWritten, RInit, Init
<1>2. tag.mem = "bubble" /\ tag.ex = "bubble" /\ tag.id = "bubble" /\ pc = 0
  BY DEF RInit, Init, GhostInit
<1>3. SlotOrder /\ SlotEmpty
  BY <1>2 DEF SlotOrder, SlotEmpty, OldestTag, Window
<1> QED
  BY <1>1, <1>3 DEF SlotInv

\* A cycle in which no instruction completes keeps the oldest tag.
LEMMA QuietTag ==
  ASSUME TypeOK, RefInv, NEW enable, NEW sw, NEW rx, RCycle(enable, sw, rx),
         GlobalStall(enable) \/ tag.mem = "bubble"
  PROVE  /\ Window' = Window
         /\ (OldestTag = "slot")' <=> OldestTag = "slot"
<1>1. CASE GlobalStall(enable)
  <2>1. UNCHANGED <<pc, ifid, idex, exmem, tag, memNext>>
    BY <1>1, StillCycle DEF RCycle, GhostCycle, ghosts
  <2> QED
    BY <2>1, WindowStill DEF OldestTag
<1>2. CASE ~GlobalStall(enable) /\ tag.mem = "bubble"
  <2>1. Window' = Window
    BY <1>2, WindowSlides
  <2>2. CASE tag.ex # "bubble"
    BY <1>2, <2>1, <2>2, MovedTags DEF OldestTag
  <2>3. CASE tag.ex = "bubble"
    <3>1. ~HazardStall /\ ~BranchTaken
      BY <2>3, BubbleLetsThrough DEF RefInv
    <3>2. tag'.mem = "bubble" /\ tag'.ex = tag.id /\ tag'.id = "instr"
      BY <1>2, <2>3, <3>1, MovedTags
    <3> QED
      BY <1>2, <2>1, <2>3, <3>2 DEF OldestTag
  <2> QED
    BY <2>2, <2>3
<1> QED
  BY <1>1, <1>2

\* After the instruction in MEM completes, a slot is the oldest exactly when it
\* was a taken transfer.
LEMMA CompletingTag ==
  ASSUME TypeOK, RefInv, SlotOrder, NEW enable, NEW sw, NEW rx, RCycle(enable, sw, rx),
         ~GlobalStall(enable), tag.mem # "bubble"
  PROVE  (OldestTag = "slot")' <=> SlotMachine!Taken(InMem)
<1>1. tag'.mem = tag.ex
  BY MovedTags
<1>2. CASE tag.ex # "bubble"
  BY <1>1, <1>2 DEF OldestTag, SlotOrder, RefInv, Followed
<1>3. CASE tag.ex = "bubble"
  <2>1. tag'.ex = tag.id
    BY <1>3, BubbleLetsThrough, MovedTags DEF RefInv
  <2>2. tag.id # "bubble"
    BY DEF RefInv, TagsOK
  <2> QED
    BY <1>1, <1>3, <2>1, <2>2 DEF OldestTag, SlotOrder
<1> QED
  BY <1>2, <1>3

LEMMA CycleSlotOrder ==
  ASSUME TypeOK, InterlockInv, RefInv, SlotOrder, NEW enable, NEW sw \in SwitchValues,
         NEW rx, RCycle(enable, sw, rx), ~GlobalStall(enable)
  PROVE  SlotOrder'
<1>1. tag'.mem # "bubble" /\ SlotMachine!Taken(InMem)' => tag'.id = "slot"
  <2> SUFFICES ASSUME tag'.mem # "bubble", SlotMachine!Taken(InMem)' PROVE tag'.id = "slot"
    OBVIOUS
  <2>1. tag.ex # "bubble"
    BY MovedTags
  <2>2. BranchTaken
    BY <2>1, MovedTransfer
  <2>3. ~HazardStall
    BY <2>2 DEF InterlockInv, ControlCoherent, BranchTaken, HazardStall
  <2> QED
    BY <2>2, <2>3, MovedTags
<1>2. tag'.id = "slot" => /\ tag'.ex = "bubble" /\ tag'.mem # "bubble"
                          /\ SlotMachine!Taken(InMem)'
  <2> SUFFICES ASSUME tag'.id = "slot"
               PROVE  /\ tag'.ex = "bubble" /\ tag'.mem # "bubble"
                      /\ SlotMachine!Taken(InMem)'
    OBVIOUS
  <2>1. ~HazardStall
    BY BubbleLetsThrough, MovedTags DEF SlotOrder, RefInv
  <2>2. BranchTaken
    BY <2>1, MovedTags
  <2>3. tag.ex # "bubble"
    BY <2>2, BubbleLetsThrough DEF RefInv
  <2> QED
    BY <2>2, <2>3, MovedTags, MovedTransfer
<1>3. tag'.ex = "slot" => tag'.mem = "bubble"
  BY MovedTags DEF SlotOrder
<1> QED
  BY <1>1, <1>2, <1>3 DEF SlotOrder

LEMMA CompletingSlotEmpty ==
  ASSUME TypeOK, RefInv, SlotInv, RomDivides, NEW enable, NEW sw, NEW rx,
         RCycle(enable, sw, rx), ~GlobalStall(enable), tag.mem # "bubble"
  PROVE  SlotEmpty'
<1>1. Window[1] = AtMem /\ InMem = InstrIn(Window[1]) /\ OldestTag = tag.mem /\ rom' = rom
  BY MovedStages, WindowAdvances DEF InMem, OldestTag, RCycle
<1>2. Window[1] \in Word /\ Window[2] \in Word /\ Window[3] \in Word
  BY WindowType
<1>3. CASE SlotMachine!Taken(InMem)
  <2>1. (OldestTag = "slot")'
    BY <1>3, CompletingTag DEF SlotInv
  <2>2. OldestTag # "slot"
    BY <1>1, <1>3, NopNotTaken DEF SlotInv, SlotEmpty
  <2>3. Window[3] = Plus(Window[1], 8)
    BY <2>2 DEF SlotInv, SlotEmpty
  <2>4. InstrIn(Window[3]) = Nop
    BY <1>1, <1>2, <1>3, <2>3, SlotHoldsNop DEF SlotInv
  <2>5. Window'[1] = Window[3] /\ Window'[3] = Plus(Window'[2], 4)
    BY <1>3, WindowAdvances
  <2>6. InstrIn(Window[1])' = Nop
    BY <1>1, <2>4, <2>5 DEF InstrIn
  <2> QED
    BY <2>1, <2>5, <2>6 DEF SlotEmpty
<1>4. CASE ~SlotMachine!Taken(InMem)
  <2>1. ~(OldestTag = "slot")'
    BY <1>4, CompletingTag DEF SlotInv
  <2>2. /\ Window'[1] = Window[2] /\ Window'[2] = Window[3]
        /\ Window'[3] = Plus(Window[3], 4)
    BY <1>4, WindowAdvances
  <2>3. Window[3] = Plus(Window[2], 4)
    BY <1>2, PlusFourTwice DEF SlotInv, SlotEmpty
  <2>4. Window'[3] = Plus(Window[2], 8)
    BY <1>2, <2>2, <2>3, PlusFourTwice
  <2> QED
    BY <2>1, <2>2, <2>3, <2>4 DEF SlotEmpty
<1> QED
  BY <1>3, <1>4

LEMMA FrozenSlot ==
  ASSUME SlotInv, (OldestTag = "slot")' <=> OldestTag = "slot", Window' = Window,
         UNCHANGED <<rom, tag, exmem>>, WrittenRegs' = WrittenRegs
  PROVE  SlotInv'
<1>1. rom' = rom /\ tag' = tag /\ exmem' = exmem
  OBVIOUS
<1>2. WellWritten(rom)'
  BY <1>1 DEF SlotInv, WellWritten
<1>3. SlotMachine!Taken(InMem)' <=> SlotMachine!Taken(InMem)
  BY <1>1 DEF SlotMachine!Taken, SlotMachine!X, InMem, InstrIn, AtMem
<1>4. SlotOrder'
  BY <1>1, <1>3 DEF SlotInv, SlotOrder
<1>5. SlotEmpty'
  BY <1>1 DEF SlotInv, SlotEmpty, InstrIn
<1> QED
  BY <1>2, <1>4, <1>5 DEF SlotInv

LEMMA CycleSlot ==
  ASSUME TypeOK, InterlockInv, RefInv, SlotInv, RomDivides, NEW enable,
         NEW sw \in SwitchValues, NEW rx, RCycle(enable, sw, rx)
  PROVE  SlotInv'
<1>1. Cycle(enable, sw, rx) /\ rom' = rom
  BY DEF RCycle, Cycle
<1>2. CASE GlobalStall(enable)
  <2>1. UNCHANGED <<rom, tag, exmem>> /\ WrittenRegs' = WrittenRegs
    BY <1>1, <1>2, StillCycle DEF RCycle, GhostCycle, ghosts
  <2>2. Window' = Window /\ ((OldestTag = "slot")' <=> OldestTag = "slot")
    BY <1>2, QuietTag
  <2> QED
    BY <2>1, <2>2, FrozenSlot
<1>3. CASE ~GlobalStall(enable)
  <2>1. WellWritten(rom)'
    BY <1>1 DEF SlotInv, WellWritten
  <2>2. SlotOrder'
    BY <1>3, CycleSlotOrder DEF SlotInv
  <2>3. CASE tag.mem # "bubble"
    BY <1>3, <2>1, <2>2, <2>3, CompletingSlotEmpty DEF SlotInv
  <2>4. CASE tag.mem = "bubble"
    <3>1. Window' = Window /\ ((OldestTag = "slot")' <=> OldestTag = "slot")
      BY <2>4, QuietTag
    <3>2. SlotEmpty'
      BY <1>1, <3>1 DEF SlotInv, SlotEmpty, InstrIn
    <3> QED
      BY <2>1, <2>2, <3>2 DEF SlotInv
  <2> QED
    BY <2>3, <2>4
<1> QED
  BY <1>2, <1>3

LEMMA ResetSlot ==
  ASSUME SlotInv, NEW enable, Reset(enable), GhostReset
  PROVE  SlotInv' /\ Window' = <<0, 4, 8>> /\ ~(OldestTag = "slot")'
<1>1. pc' = 0 /\ tag'.mem = "bubble" /\ tag'.ex = "bubble" /\ tag'.id = "bubble" /\ rom' = rom
  BY DEF Reset, GhostReset
<1>2. Plus(0, 4) = 4 /\ Plus(0, 8) = 8
  BY FourIsWord DEF Plus
<1>3. Window' = <<0, 4, 8>> /\ ~(OldestTag = "slot")'
  BY <1>1, <1>2 DEF Window, OldestTag
<1>4. SlotOrder' /\ WellWritten(rom)'
  BY <1>1 DEF SlotOrder, SlotInv, WellWritten
<1>5. SlotEmpty'
  BY <1>2, <1>3 DEF SlotEmpty
<1> QED
  BY <1>3, <1>4, <1>5 DEF SlotInv

\* What stuttering leaves alone.
LEMMA StutterWindow ==
  ASSUME UNCHANGED allVars
  PROVE  /\ UNCHANGED <<rom, ram, tag, exmem>> /\ UNCHANGED portVars
         /\ WrittenRegs' = WrittenRegs
         /\ Window' = Window
         /\ (OldestTag = "slot")' <=> OldestTag = "slot"
<1>1. /\ UNCHANGED <<pc, ifid, idex, exmem, memwb, regs, rom, ram, tag, memNext>>
      /\ UNCHANGED portVars
  BY DEF allVars, ghosts, vars, coreVars
<1>2. WrittenRegs' = WrittenRegs
  BY <1>1 DEF WrittenRegs, WritebackData
<1>3. Window' = Window
  BY <1>1, WindowStill
<1> QED
  BY <1>1, <1>2, <1>3 DEF OldestTag

LEMMA NextSlot ==
  ASSUME RomDivides
  PROVE  TypeOK /\ InterlockInv /\ RefInv /\ SlotInv /\ [RNext]_allVars => SlotInv'
<1> SUFFICES ASSUME TypeOK, InterlockInv, RefInv, SlotInv, [RNext]_allVars PROVE SlotInv'
  OBVIOUS
<1>1. CASE RClock
  BY <1>1, CycleSlot DEF RClock
<1>2. CASE RPressReset
  BY <1>2, ResetSlot DEF RPressReset
<1>3. CASE UNCHANGED allVars
  BY <1>3, StutterWindow, FrozenSlot
<1> QED
  BY <1>1, <1>2, <1>3 DEF RNext

\* Behind every taken transfer of a well-written program comes a NOP, and then
\* its target.
THEOREM SlotsAreEmpty ==
  ASSUME ProgramsWellWritten, RomDivides
  PROVE  RSpec => []SlotInv
  BY InitSlot, NextSlot, RefInvariant, HistoryHidden, TypeCorrect, InterlockCorrect, PTL
     DEF RSpec

-------------------------------------------------------------------------------
(* The refinement.                                                             *)

LEMMA DocAsSlot ==
  /\ \A i, v, rx : SlotMachine!Effect(i, v, rx) => DocMachine!Effect(i, v, rx)
  /\ \A rx : SlotMachine!Environment(rx) => DocMachine!Environment(rx)
  /\ \A i : SlotMachine!ResetState(i) => DocMachine!ResetState(i)
  /\ \A a : DocMachine!InstrAt(a) = SlotMachine!InstrAt(a)
  /\ \A i : DocMachine!Taken(i) <=> SlotMachine!Taken(i)
  /\ \A i, a : DocMachine!Target(i, a) = SlotMachine!Target(i, a)
  /\ \A i, a, sw : DocMachine!Result(i, a, sw) = SlotMachine!Result(i, a, sw)
  /\ \A a, b : DocMachine!Plus(a, b) = Plus(a, b)
<1>1. /\ \A r : DocMachine!X(r) = SlotMachine!X(r)
      /\ \A a, b : DocMachine!Plus(a, b) = Plus(a, b) /\ SlotMachine!Plus(a, b) = Plus(a, b)
      /\ \A a : DocMachine!IsMmio(a) <=> SlotMachine!IsMmio(a)
      /\ \A a, n : DocMachine!WordIndex(a, n) = SlotMachine!WordIndex(a, n)
      /\ \A a : DocMachine!EvenPart(a) = SlotMachine!EvenPart(a)
      /\ DocMachine!UartData = SlotMachine!UartData
      /\ \A a, sw : DocMachine!MmioRead(a, sw) = SlotMachine!MmioRead(a, sw)
  BY DEF DocMachine!X, SlotMachine!X, DocMachine!Plus, SlotMachine!Plus, Plus,
         DocMachine!IsMmio, SlotMachine!IsMmio, DocMachine!MmioBase, SlotMachine!MmioBase,
         DocMachine!WordIndex, SlotMachine!WordIndex, DocMachine!EvenPart,
         SlotMachine!EvenPart, DocMachine!UartData, SlotMachine!UartData,
         DocMachine!MmioRead, SlotMachine!MmioRead, DocMachine!SwitchAddr,
         SlotMachine!SwitchAddr, DocMachine!UartStatus, SlotMachine!UartStatus,
         DocMachine!Bit, SlotMachine!Bit
<1>2. \A i : DocMachine!DataAddr(i) = SlotMachine!DataAddr(i)
  BY <1>1 DEF DocMachine!DataAddr, SlotMachine!DataAddr
<1>3. /\ \A i : DocMachine!SendsByte(i) <=> SlotMachine!SendsByte(i)
      /\ \A i : DocMachine!ReadsByte(i) <=> SlotMachine!ReadsByte(i)
      /\ \A i : DocMachine!WritesRam(i) <=> SlotMachine!WritesRam(i)
      /\ \A i : DocMachine!Writes(i) <=> SlotMachine!Writes(i)
      /\ \A i : DocMachine!StoredRam(i) = SlotMachine!StoredRam(i)
      /\ \A i, sw : DocMachine!Loaded(i, sw) = SlotMachine!Loaded(i, sw)
  BY <1>1, <1>2 DEF DocMachine!SendsByte, SlotMachine!SendsByte, DocMachine!ReadsByte,
     SlotMachine!ReadsByte, DocMachine!WritesRam, SlotMachine!WritesRam,
     DocMachine!Writes, SlotMachine!Writes, DocMachine!StoredRam, SlotMachine!StoredRam,
     DocMachine!Loaded, SlotMachine!Loaded
<1>4. /\ \A read, rx : SlotMachine!RxHold(read, rx) <=> DocMachine!RxHold(read, rx)
      /\ \A start, byte : SlotMachine!TxSend(start, byte) <=> DocMachine!TxSend(start, byte)
      /\ \A start : SlotMachine!CountStart(start) <=> DocMachine!CountStart(start)
      /\ SlotMachine!PortsReset <=> DocMachine!PortsReset
  BY DEF SlotMachine!RxHold, DocMachine!RxHold, SlotMachine!TxSend, DocMachine!TxSend,
         SlotMachine!CountStart, DocMachine!CountStart, SlotMachine!PortsReset,
         DocMachine!PortsReset
<1>5. ASSUME NEW i, NEW v, NEW rx, SlotMachine!Effect(i, v, rx)
      PROVE  DocMachine!Effect(i, v, rx)
  <2>1. /\ DocMachine!RxHold(DocMachine!ReadsByte(i), rx)
        /\ DocMachine!TxSend(DocMachine!SendsByte(i), DocMachine!X(i.rs2) % ByteSize)
        /\ DocMachine!CountStart(DocMachine!SendsByte(i))
    BY <1>1, <1>3, <1>5 DEF SlotMachine!Effect, SlotMachine!RxHold, DocMachine!RxHold,
       SlotMachine!TxSend, DocMachine!TxSend, SlotMachine!CountStart, DocMachine!CountStart
  <2>2. DocMachine!CanComplete(i)
    BY <1>3, <1>5 DEF SlotMachine!Effect, SlotMachine!CanComplete, DocMachine!CanComplete
  <2>3. /\ WrittenRegs' = IF DocMachine!Writes(i) THEN [WrittenRegs EXCEPT ![i.rd] = v]
                          ELSE WrittenRegs
        /\ ram' = IF DocMachine!WritesRam(i) THEN DocMachine!StoredRam(i) ELSE ram
        /\ rom' = rom
    BY <1>3, <1>5 DEF SlotMachine!Effect
  <2> QED
    BY <2>1, <2>2, <2>3 DEF DocMachine!Effect
<1>6. \A rx : SlotMachine!Environment(rx) => DocMachine!Environment(rx)
  BY <1>4 DEF SlotMachine!Environment, DocMachine!Environment
<1>7. \A i : SlotMachine!ResetState(i) => DocMachine!ResetState(i)
  BY <1>3, <1>4 DEF SlotMachine!ResetState, DocMachine!ResetState, SlotMachine!Reg,
                    DocMachine!Reg
<1>8. \A a : DocMachine!InstrAt(a) = SlotMachine!InstrAt(a)
  BY <1>1 DEF DocMachine!InstrAt, SlotMachine!InstrAt
<1>9. /\ \A i : DocMachine!Taken(i) <=> SlotMachine!Taken(i)
      /\ \A i, a : DocMachine!Target(i, a) = SlotMachine!Target(i, a)
  BY <1>1, <1>2 DEF DocMachine!Taken, SlotMachine!Taken, DocMachine!Target,
                    SlotMachine!Target
<1>10. \A op, a, b : DocMachine!AluResult(op, a, b) = SlotMachine!AluResult(op, a, b)
  BY DEF DocMachine!AluResult, SlotMachine!AluResult, DocMachine!Plus, SlotMachine!Plus,
         DocMachine!Minus, SlotMachine!Minus, DocMachine!Less, SlotMachine!Less,
         DocMachine!Signed, SlotMachine!Signed, DocMachine!MmioBase, SlotMachine!MmioBase,
         DocMachine!Bit, SlotMachine!Bit
<1>11. \A i, a, sw : DocMachine!Result(i, a, sw) = SlotMachine!Result(i, a, sw)
  BY <1>1, <1>3, <1>10 DEF DocMachine!Result, SlotMachine!Result
<1> QED
  BY <1>1, <1>5, <1>6, <1>7, <1>8, <1>9, <1>11

\* Of the instructions a well-written program has, the processor computes what
\* the document says.
LEMMA BuiltAsDocumented ==
  ASSUME TypeOK, WellWritten(rom), NEW a \in Word, NEW sw
  PROVE  LET i == InstrIn(a) IN
         SlotMachine!Writes(i) => SlotMachine!BuiltResult(i, a, sw) = SlotMachine!Result(i, a, sw)
<1> DEFINE i == InstrIn(a)
<1>1. i \in Instr /\ WordIndex(a, RomWords) \in RomWord
  BY InstrInType, WordIndexType, SizeAssumption DEF RomWord
<1>2. /\ i.opcode = "LUI" => i.rs1 = 0
      /\ i.opcode = "OP" => i.funct \in AluOp
      /\ i.opcode = "OP_IMM" => i.funct \in {"ADD", "XOR", "OR", "AND", "SLT", "SLTU"}
  BY <1>1 DEF WellWritten, InstrIn
<1>3. CASE i.opcode = "LUI"
  <2>1. SlotMachine!X(i.rs1) = 0
    BY <1>2, <1>3 DEF SlotMachine!X
  <2>2. Plus(0, i.imm) = i.imm
    BY <1>1, InstrFields, SizeAssumption DEF Plus, Word
  <2> QED
    BY <1>3, <2>1, <2>2, IsaInPipeline DEF SlotMachine!BuiltResult, SlotMachine!Result
<1>4. CASE i.opcode = "OP_IMM"
  BY <1>2, <1>4 DEF SlotMachine!BuiltResult, SlotMachine!Result, SlotMachine!AluResult
<1>5. CASE i.opcode = "OP"
  <2>1. i.funct \in SlotMachine!AluOp
    BY <1>2, <1>5 DEF AluOp, BitOp, SlotMachine!AluOp, SlotMachine!BitOp
  <2> QED
    BY <1>5, <2>1 DEF SlotMachine!BuiltResult
<1>6. CASE i.opcode \notin {"LUI", "OP_IMM", "OP"}
  BY <1>6 DEF SlotMachine!BuiltResult
<1> QED
  BY <1>3, <1>4, <1>5, <1>6

DocPc == IF OldestTag = "slot" THEN Window[2] ELSE Window[1]

\* What a cycle is to the documented machine: an instruction, or time that passes.
DocCycle(sw, rx) ==
    \/ DocMachine!Step(sw, rx)
    \/ DocMachine!Environment(rx) /\ UNCHANGED DocPc

LEMMA CompletingDoc ==
  ASSUME TypeOK, InterlockInv, RefInv, SlotInv, NEW enable \in Enables,
         NEW sw \in SwitchValues, NEW rx \in Rx, RCycle(enable, sw, rx),
         ~GlobalStall(enable), tag.mem # "bubble"
  PROVE  DocCycle(sw, rx)
<1> DEFINE i == InstrIn(Window[1])
<1>1. Window[1] = AtMem /\ i = InMem /\ OldestTag = tag.mem /\ Window[1] \in Word
  BY WindowAdvances, WindowType DEF InMem, OldestTag
<1>2. SlotMachine!Effect(i, SlotMachine!BuiltResult(i, Window[1], sw), rx)
  BY CompletingCycle, IsaInPipeline DEF SlotMachine!Step
<1>3. (OldestTag = "slot")' <=> SlotMachine!Taken(i)
  BY <1>1, CompletingTag DEF SlotInv
<1>4. IF SlotMachine!Taken(i)
      THEN Window'[1] = Window[3] /\ Window'[2] = SlotMachine!Target(i, Window[1])
      ELSE Window'[1] = Window[2]
  BY <1>1, WindowAdvances
<1>5. CASE OldestTag = "slot"
  <2>1. i = Nop
    BY <1>5 DEF SlotInv, SlotEmpty
  <2>2. /\ ~SlotMachine!Writes(i) /\ ~SlotMachine!WritesRam(i)
        /\ ~SlotMachine!ReadsByte(i) /\ ~SlotMachine!SendsByte(i)
    BY <2>1 DEF SlotMachine!Writes, SlotMachine!WritesRam, SlotMachine!ReadsByte,
                SlotMachine!SendsByte, Nop
  <2>3. SlotMachine!Environment(rx)
    BY <1>2, <2>2 DEF SlotMachine!Effect, SlotMachine!Environment, SlotMachine!RxHold,
                      SlotMachine!TxSend, SlotMachine!CountStart
  <2>4. DocPc' = DocPc
    BY <1>3, <1>4, <1>5, <2>1, NopNotTaken DEF DocPc
  <2> QED
    BY <2>3, <2>4, DocAsSlot DEF DocCycle
<1>6. CASE OldestTag # "slot"
  <2>1. SlotMachine!Effect(i, SlotMachine!Result(i, Window[1], sw), rx)
    <3>1. SlotMachine!Writes(i)
            => SlotMachine!BuiltResult(i, Window[1], sw) = SlotMachine!Result(i, Window[1], sw)
      BY <1>1, BuiltAsDocumented DEF SlotInv
    <3>2. CASE SlotMachine!Writes(i)
      BY <1>2, <3>1, <3>2
    <3>3. CASE ~SlotMachine!Writes(i)
      BY <1>2, <3>3 DEF SlotMachine!Effect
    <3> QED
      BY <3>2, <3>3
  <2>2. DocPc = Window[1] /\ DocMachine!InstrAt(DocPc) = i
    BY <1>6, DocAsSlot, IsaInPipeline DEF DocPc
  <2>3. DocMachine!Effect(i, DocMachine!Result(i, DocPc, sw), rx)
    BY <2>1, <2>2, DocAsSlot
  <2>4. DocPc' = IF DocMachine!Taken(i) THEN DocMachine!Target(i, DocPc)
                 ELSE DocMachine!Plus(DocPc, 4)
    <3>1. Window[2] = Plus(Window[1], 4)
      BY <1>6 DEF SlotInv, SlotEmpty
    <3> QED
      BY <1>3, <1>4, <2>2, <3>1, DocAsSlot DEF DocPc
  <2>5. DocMachine!Step(sw, rx)
    BY <2>2, <2>3, <2>4 DEF DocMachine!Step, DocPc
  <2> QED
    BY <2>5 DEF DocCycle
<1> QED
  BY <1>5, <1>6

LEMMA CycleDoc ==
  ASSUME TypeOK, InterlockInv, RefInv, SlotInv, NEW enable \in Enables,
         NEW sw \in SwitchValues, NEW rx \in Rx, RCycle(enable, sw, rx)
  PROVE  DocCycle(sw, rx)
<1>1. CASE GlobalStall(enable) \/ tag.mem = "bubble"
  <2>1. DocMachine!Environment(rx)
    BY <1>1, QuietCycle, DocAsSlot
  <2>2. DocPc' = DocPc
    BY <1>1, QuietTag DEF DocPc
  <2> QED
    BY <2>1, <2>2 DEF DocCycle
<1>2. CASE ~GlobalStall(enable) /\ tag.mem # "bubble"
  BY <1>2, CompletingDoc
<1> QED
  BY <1>1, <1>2

LEMMA ResetDoc ==
  ASSUME TypeOK, RefInv, SlotInv, NEW enable \in Enables, Reset(enable), GhostReset
  PROVE  DocMachine!Reset
<1>1. SlotMachine!ResetState(SlotMachine!InstrAt(Window[1]))
  BY ResetCycle DEF SlotMachine!Reset
<1>2. DocPc' = 0
  BY ResetSlot DEF DocPc
<1>3. DocMachine!ResetState(DocMachine!InstrAt(DocPc))
  <2>1. CASE OldestTag # "slot"
    BY <1>1, <2>1, DocAsSlot DEF DocPc
  <2>2. CASE OldestTag = "slot"
    <3>1. SlotMachine!InstrAt(Window[1]) = Nop
      BY <2>2, IsaInPipeline DEF SlotInv, SlotEmpty
    <3>2. ~SlotMachine!WritesRam(Nop)
      BY DEF SlotMachine!WritesRam, Nop
    <3>3. SlotMachine!ResetState(DocMachine!InstrAt(DocPc))
      BY <1>1, <3>1, <3>2 DEF SlotMachine!ResetState
    <3> QED
      BY <3>3, DocAsSlot
  <2> QED
    BY <2>1, <2>2
<1> QED
  BY <1>2, <1>3 DEF DocMachine!Reset, DocPc

LEMMA InitDoc == RInit => DocMachine!Init
<1> SUFFICES ASSUME RInit PROVE DocMachine!Init
  OBVIOUS
<1>1. WrittenRegs = [r \in Reg |-> 0]
  BY DEF RInit, Init, WrittenRegs, ResetMemWb
<1>2. DocPc = 0
  BY DEF RInit, Init, GhostInit, DocPc, OldestTag, Window
<1>3. DocMachine!PortsInit
  BY DEF RInit, Init, PortsInit, DocMachine!PortsInit
<1> QED
  BY <1>1, <1>2, <1>3 DEF DocMachine!Init, DocMachine!IsaInit, DocMachine!Reg, Reg, DocPc

LEMMA StepDoc ==
  TypeOK /\ InterlockInv /\ RefInv /\ SlotInv /\ [RNext]_allVars
    => [DocMachine!Next]_(DocMachine!vars)
<1> SUFFICES ASSUME TypeOK, InterlockInv, RefInv, SlotInv, [RNext]_allVars
             PROVE  [DocMachine!Next]_(DocMachine!vars)
  OBVIOUS
<1>1. ASSUME NEW enable \in Enables, NEW sw \in SwitchValues, NEW rx \in Rx,
             RCycle(enable, sw, rx)
      PROVE  DocMachine!Next
  BY <1>1, CycleDoc DEF DocCycle, DocMachine!Next, DocPc, Rx
<1>2. CASE RPressReset
  BY <1>2, ResetDoc DEF RPressReset, DocMachine!Next
<1>3. CASE UNCHANGED allVars
  BY <1>3, StutterWindow DEF DocMachine!vars, DocMachine!isaVars, DocMachine!portVars, portVars
<1> QED
  BY <1>1, <1>2, <1>3 DEF RNext, RClock

\* Programs that leave the branch slot empty and use what the decoder decodes run
\* as the README's RV32I machine runs them, for every program of this class.
THEOREM PipelineImplementsRV32I ==
  ASSUME ProgramsWellWritten, RomDivides
  PROVE  RSpec => ImplementsRV32I
  BY InitDoc, StepDoc, SlotsAreEmpty, RefInvariant, HistoryHidden, TypeCorrect,
     InterlockCorrect, PTL DEF RSpec, ImplementsRV32I, DocMachine!Spec
================================================================================
