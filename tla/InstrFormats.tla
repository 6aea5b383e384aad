----------------------------- MODULE InstrFormats ------------------------------
(* The bit layout of the six instruction formats, as both assembler.py files   *)
(* pack them: every field is masked and shifted into place, except registers,  *)
(* which are shifted as they are. Immediates outside their range lose bits.    *)
EXTENDS BitWords

\* Opcodes, as the positions of their ones: 0110011, 0010011, 0000011, ...
OP == {0, 1, 4, 5}
OP_IMM == {0, 1, 4}
LOAD == {0, 1}
STORE == {0, 1, 5}
BRANCH == {0, 1, 5, 6}
JAL_OP == {0, 1, 2, 3, 5, 6}
JALR_OP == {0, 1, 2, 5, 6}
LUI_OP == {0, 1, 2, 4, 5}

\* funct3, and the funct7 of SUB and SRA (0100000).
F000 == {}
F001 == {0}
F010 == {1}
F011 == {0, 1}
F100 == {2}
F101 == {0, 2}
F110 == {1, 2}
F111 == {0, 1, 2}
Alternative == {5}

IType(imm, rs1, funct3, rd, opcode) ==
    Shl(Slice(imm, 0, 12), 20) \cup Shl(rs1, 15) \cup Shl(funct3, 12) \cup Shl(rd, 7) \cup opcode

RType(funct7, rs2, rs1, funct3, rd) ==
    Shl(funct7, 25) \cup Shl(rs2, 20) \cup Shl(rs1, 15) \cup Shl(funct3, 12) \cup Shl(rd, 7) \cup OP

SType(imm, rs2, rs1, funct3) ==
    Shl(Slice(imm, 5, 7), 25) \cup Shl(rs2, 20) \cup Shl(rs1, 15) \cup Shl(funct3, 12)
        \cup Shl(Slice(imm, 0, 5), 7) \cup STORE

\* Faulty variant of BType: bits 11 and 12 of the offset change places.
BTypeSwapped(imm, rs2, rs1, funct3) ==
    Shl(Slice(imm, 11, 1), 31) \cup Shl(Slice(imm, 5, 6), 25) \cup Shl(rs2, 20) \cup Shl(rs1, 15)
        \cup Shl(funct3, 12) \cup Shl(Slice(imm, 1, 4), 8) \cup Shl(Slice(imm, 12, 1), 7) \cup BRANCH
BType(imm, rs2, rs1, funct3) ==
    Shl(Slice(imm, 12, 1), 31) \cup Shl(Slice(imm, 5, 6), 25) \cup Shl(rs2, 20) \cup Shl(rs1, 15)
        \cup Shl(funct3, 12) \cup Shl(Slice(imm, 1, 4), 8) \cup Shl(Slice(imm, 11, 1), 7) \cup BRANCH

JType(imm, rd) ==
    Shl(Slice(imm, 20, 1), 31) \cup Shl(Slice(imm, 1, 10), 21) \cup Shl(Slice(imm, 11, 1), 20)
        \cup Shl(Slice(imm, 12, 8), 12) \cup Shl(rd, 7) \cup JAL_OP

UType(imm20, rd) == Shl(Slice(imm20, 0, 20), 12) \cup Shl(rd, 7) \cup LUI_OP
================================================================================
