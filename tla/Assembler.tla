------------------------------- MODULE Assembler -------------------------------
(* software/assembler.py, one operator per function. Operands are numbers as   *)
(* sets of bits (BitWords); funct3 and funct7 are written the same way.        *)
EXTENDS InstrFormats

addi(rd, rs1, imm) == IType(imm, rs1, F000, rd, OP_IMM)
xori(rd, rs1, imm) == IType(imm, rs1, F100, rd, OP_IMM)
ori(rd, rs1, imm) == IType(imm, rs1, F110, rd, OP_IMM)
andi(rd, rs1, imm) == IType(imm, rs1, F111, rd, OP_IMM)
slti(rd, rs1, imm) == IType(imm, rs1, F010, rd, OP_IMM)
sltiu(rd, rs1, imm) == IType(imm, rs1, F011, rd, OP_IMM)
lw(rd, rs1, imm) == IType(imm, rs1, F010, rd, LOAD)
jalr(rd, rs1, imm) == IType(imm, rs1, F000, rd, JALR_OP)

add(rd, rs1, rs2) == RType({}, rs2, rs1, F000, rd)
sub(rd, rs1, rs2) == RType(Alternative, rs2, rs1, F000, rd)
and_(rd, rs1, rs2) == RType({}, rs2, rs1, F111, rd)
or_(rd, rs1, rs2) == RType({}, rs2, rs1, F110, rd)
xor_(rd, rs1, rs2) == RType({}, rs2, rs1, F100, rd)
slt(rd, rs1, rs2) == RType({}, rs2, rs1, F010, rd)
sltu(rd, rs1, rs2) == RType({}, rs2, rs1, F011, rd)
sll(rd, rs1, rs2) == RType({}, rs2, rs1, F001, rd)
srl(rd, rs1, rs2) == RType({}, rs2, rs1, F101, rd)
sra(rd, rs1, rs2) == RType(Alternative, rs2, rs1, F101, rd)

sw(rs2, rs1, imm) == SType(imm, rs2, rs1, F010)
beq(rs1, rs2, imm) == BType(imm, rs2, rs1, F000)
bne(rs1, rs2, imm) == BType(imm, rs2, rs1, F001)

jal(rd, imm) == JType(imm, rd)
lui(rd, imm20) == UType(imm20, rd)
================================================================================
