------------------------------- MODULE MCPipeline -------------------------------
(* A small processor for TLC: 5-bit words, so that 16 is the first MMIO        *)
(* address, 24 the UART status and 28 the UART data; a ROM of four words; RAM  *)
(* of two, so that addresses alias.                                            *)
EXTENDS PipelineRefinement, FiniteSetsExt, TLC


\* The bit-lane operations, on sets of bit positions.
Bits == 0 .. 4
OnesOf(a) == {k \in Bits : (a \div 2^k) % 2 = 1}
WordOf(ones) == SumSet({2^k : k \in ones})
MCBitResult(op, a, b) ==
    CASE op = "AND" -> WordOf(OnesOf(a) \cap OnesOf(b))
      [] op = "OR"  -> WordOf(OnesOf(a) \cup OnesOf(b))
      [] op = "XOR" -> WordOf((OnesOf(a) \cup OnesOf(b)) \ (OnesOf(a) \cap OnesOf(b)))
      [] op = "SLL" -> (a * 2^(b % 5)) % WordSize
      [] op = "SRL" -> a \div 2^(b % 5)
      [] op = "SRA" -> (Signed(a) \div 2^(b % 5)) % WordSize

-------------------------------------------------------------------------------
(* Instruction formats. A format's unused register fields hold low bits of its *)
(* immediate, as in the 32-bit encoding.                                       *)
Fields(opcode, funct, rd, rs1, rs2, imm) ==
    [opcode |-> opcode, funct |-> funct, rd |-> rd % NumRegs, rs1 |-> rs1 % NumRegs,
     rs2 |-> rs2 % NumRegs, imm |-> imm]
Op(funct, rd, rs1, rs2) == Fields("OP", funct, rd, rs1, rs2, 0)
OpImm(funct, rd, rs1, imm) == Fields("OP_IMM", funct, rd, rs1, imm, imm)
Load(rd, rs1, imm) == Fields("LOAD", "OTHER", rd, rs1, imm, imm)
Store(rs2, rs1, imm) == Fields("STORE", "OTHER", imm, rs1, rs2, imm)
Branch(funct, rs1, rs2, imm) == Fields("BRANCH", funct, imm, rs1, rs2, imm)
Jal(rd, imm) == Fields("JAL", "OTHER", rd, 0, imm, imm)
Jalr(rd, rs1, imm) == Fields("JALR", "OTHER", rd, rs1, imm, imm)
Lui(rd, rs1, imm) == Fields("LUI", "OTHER", rd, rs1, imm \div 4, imm)

ADDI(rd, rs1, imm) == OpImm("ADD", rd, rs1, imm)

-------------------------------------------------------------------------------
(* Programs: every ROM whose words come from a small set of instructions. The  *)
(* program counter wraps, so every ROM is an endless program.                  *)
Roms(kinds) == [RomWord -> kinds]

\* Dependent arithmetic, loads and stores whose addresses reach RAM (by two
\* aliases of its first word) and MMIO, conditional and unconditional transfers
\* both ways, a link register used at once, and what the decoder treats oddly.
MixedKinds ==
    {ADDI(1, 0, 28), Op("XOR", 1, 1, 2), Load(1, 1, 0), Load(2, 0, 8),
     Store(1, 1, 0), Store(2, 0, 0), Branch("BNE", 1, 2, 8), Branch("BEQ", 2, 0, 20),
     Jal(2, 12), Jalr(1, 2, 3), Lui(2, 1, 8), OpImm("SLL", 2, 1, 1)}
MixedPrograms == Roms(MixedKinds)

\* Programs that poll, read and write the UART, reusing what they read.
DeviceKinds ==
    {ADDI(1, 0, 28), ADDI(2, 1, 1), Load(1, 0, 28), Load(2, 0, 24), Load(2, 0, 16),
     Store(2, 0, 28), Store(2, 1, 0), Branch("BEQ", 2, 0, 28)}
DevicePrograms == {r \in Roms(DeviceKinds) : r[0] = ADDI(1, 0, 28)}

\* Programs written the way hello_world.py writes them: the word two places after
\* a branch or jump is a NOP. Without the instructions the decoder treats oddly.
SlotKinds ==
    {Nop, ADDI(1, 0, 28), ADDI(1, 1, 31), Op("SLT", 2, 1, 2), Load(2, 1, 0), Load(1, 0, 4),
     Store(2, 1, 0), Branch("BNE", 1, 2, 24), Branch("BEQ", 2, 0, 12), Jal(1, 20),
     Jalr(2, 1, 5), Lui(1, 0, 16)}
SlotPrograms == {r \in Roms(SlotKinds) : WellWritten(r)}

\* Programs for the disagreements with RV32I: nothing in the slot rule, a LUI
\* whose rs1 field is not zero, a shift by an immediate.
BranchPrograms == Roms({ADDI(1, 0, 1), ADDI(2, 0, 2), Jal(1, 12)})
LuiPrograms == Roms({Nop, ADDI(1, 0, 1), Lui(2, 1, 8)})
ShiftPrograms == Roms({Nop, ADDI(1, 0, 1), OpImm("SLL", 2, 1, 3)})

ZeroRam == {[w \in MemWord |-> 0]}
TwoRams == {[w \in MemWord |-> 0], [w \in MemWord |-> 27 + w]}
================================================================================
