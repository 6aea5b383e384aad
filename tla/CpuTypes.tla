------------------------------- MODULE CpuTypes -------------------------------
(* Words, registers, instructions, memory map and arithmetic shared by every   *)
(* module about the processor (cpu_types_pkg.sv, ALU.sv, the address decoding  *)
(* of cpu_top.sv, imem.sv and dmem.sv).                                        *)
(*                                                                             *)
(* The widths are constants, so that the theorems hold for the 32-bit machine  *)
(* (WordSize = 2^32, NumRegs = 32, RamWords = 4096, RomWords = 256, ByteSize = *)
(* 256, LedSize = 16) and TLC can run a machine a few bits wide.               *)
EXTENDS Integers

CONSTANTS
    WordSize,          \* number of values of a word_t
    ByteSize,          \* number of values of a UART byte
    LedSize,           \* number of values of led_out
    NumRegs,           \* architectural registers
    RamWords,          \* words of dmem
    RomWords,          \* words of imem
    BitResult(_, _, _) \* the ALU's bit-lane operations (AND, OR, XOR, shifts)

Word == 0 .. WordSize - 1
Byte == 0 .. ByteSize - 1
Reg == 0 .. NumRegs - 1
MemWord == 0 .. RamWords - 1
RomWord == 0 .. RomWords - 1

\* alu_op_t, without the members the decoder never selects and the ALU maps
\* to its default result.
BitOp == {"AND", "OR", "XOR", "SLL", "SRL", "SRA"}
AluOp == {"ADD", "SUB", "SLT", "SLTU"} \cup BitOp

ASSUME SizeAssumption ==
    /\ WordSize \in Nat /\ WordSize >= 32 /\ WordSize % 2 = 0
    /\ ByteSize \in Nat \ {0} /\ ByteSize <= WordSize
    /\ LedSize \in Nat \ {0}
    /\ NumRegs \in Nat \ {0}
    /\ RamWords \in Nat \ {0}
    /\ RomWords \in Nat \ {0}

ASSUME BitResultAssumption ==
    \A op \in BitOp, a, b \in Word : BitResult(op, a, b) \in Word

-------------------------------------------------------------------------------
(* Memory map: an address with the top bit set is MMIO (cpu_top.sv is_mmio).   *)
MmioBase == WordSize \div 2
SwitchAddr == MmioBase
UartStatus == MmioBase + 8
UartData == MmioBase + 12
IsMmio(addr) == addr >= MmioBase

\* Word index of a byte address in a memory of n words: the two low bits and
\* the bits above the memory's size are dropped (dmem addr[13:2], imem addr[9:2]).
WordIndex(addr, n) == (addr \div 4) % n

-------------------------------------------------------------------------------
(* Arithmetic modulo the word size, and the ALU.                               *)
\* Faulty variant of Plus: the adder keeps its carry.
PlusKeepsCarry(a, b) == a + b
Plus(a, b) == (a + b) % WordSize
Minus(a, b) == (a - b) % WordSize
Signed(a) == IF a < MmioBase THEN a ELSE a - WordSize
Less(a, b) == Signed(a) < Signed(b)
More(a, b) == Signed(a) > Signed(b)
Bit(p) == IF p THEN 1 ELSE 0
EvenPart(a) == a - (a % 2)               \* a & 32'hFFFF_FFFE

AluResult(op, a, b) ==
    IF op = "ADD" THEN Plus(a, b)
    ELSE IF op = "SUB" THEN Minus(a, b)
    ELSE IF op = "SLT" THEN Bit(Less(a, b))
    ELSE IF op = "SLTU" THEN Bit(a < b)
    ELSE BitResult(op, a, b)

-------------------------------------------------------------------------------
(* Instructions. An instruction is the record of its fields as the decoder     *)
(* cuts them out; rs1, rs2 and rd are the raw register fields, which formats   *)
(* without that operand fill with bits of the immediate. imm is the immediate  *)
(* of the instruction's own format, sign-extended to a word.                   *)
Opcode == {"OP", "OP_IMM", "LOAD", "STORE", "BRANCH", "JAL", "JALR", "LUI", "UNKNOWN"}
Funct == AluOp \cup {"BEQ", "BNE", "OTHER"}
Instr == [opcode: Opcode, funct: Funct, rd: Reg, rs1: Reg, rs2: Reg, imm: Word]

\* addi x0, x0, 0 (32'h00000013), what IF/ID holds after reset.
Nop == [opcode |-> "OP_IMM", funct |-> "ADD", rd |-> 0, rs1 |-> 0, rs2 |-> 0, imm |-> 0]
================================================================================
