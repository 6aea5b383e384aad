------------------------------ MODULE MCHostFlow -------------------------------
(* Calls with register numbers and immediates at their boundaries; binary files*)
(* of up to five bytes whose first word runs through opcodes, funct3 and       *)
(* funct7; draws of every choice; programs of four words on 13-bit registers,  *)
(* the smallest that hold a 12-bit immediate and can outgrow their width. The  *)
(* sizes of CpuTypes play no part.                                             *)
EXTENDS HostFlow

NoBits(op, a, b) == a

\* The bits of an integer that fits 31.
BitsOf(n) == OneBits(n, 30) \cup (IF n < 0 THEN {30, 31} ELSE {})

Registers == {BitsOf(n) : n \in {0, 1, 10, 31}}
Imm12 == {BitsOf(n) : n \in {-2048, -1366, -1, 0, 1, 1365, 2047}}
Imm13 == {BitsOf(n) : n \in {-4096, -2732, -2, 0, 2, 2048, 2730, 4094}}
Imm21 == {BitsOf(n) : n \in {-1048576, -699052, -2, 0, 2, 2048, 699050, 1048574}}
Imm20 == {BitsOf(n) : n \in {0, 1, 349525, 699050, 1048575}}

MCCalls ==
    [f: {"addi", "xori", "ori", "andi", "slti", "sltiu", "lw", "jalr"},
     rd: Registers, rs1: Registers, rs2: {{}}, imm: Imm12]
    \cup [f: {"add", "sub", "and_", "or_", "xor_", "slt", "sltu", "sll", "srl", "sra"},
          rd: Registers, rs1: Registers, rs2: Registers, imm: {{}}]
    \cup [f: {"sw"}, rd: {{}}, rs1: Registers, rs2: Registers, imm: Imm12]
    \cup [f: {"beq", "bne"}, rd: {{}}, rs1: Registers, rs2: Registers, imm: Imm13]
    \cup [f: {"jal"}, rd: Registers, rs1: {{}}, rs2: {{}}, imm: Imm21]
    \cup [f: {"lui"}, rd: Registers, rs1: {{}}, rs2: {{}}, imm: Imm20]

\* First bytes: every opcode, with and without the low bit of rd; second: every
\* funct3; fourth: the funct7 of SUB and SRA, others, and both signs.
FirstBytes ==
    {op \cup r : op \in {OP, OP_IMM, LOAD, STORE, BRANCH, JAL_OP, JALR_OP, LUI_OP, {0, 1, 2, 4}},
                 r \in {{}, {7}}}
SecondBytes == {Shl(f, 4) \cup {0} : f \in SUBSET (0 .. 2)}
FourthBytes == {{}, {6}, {1}, {0, 7}, {1, 6}}
FullWords == {<<a, b, {0, 6}, d>> : a \in FirstBytes, b \in SecondBytes, d \in FourthBytes}
MCBinaries ==
    FullWords \cup {<<{0, 1, 4}>>, <<{0, 1}, {4}>>, <<{7}, {6}, {5}>>}
              \cup {Append(w, {1, 2}) : w \in FullWords}
-------------------------------------------------------------------------------
Reg1 == {0}
Reg2 == {1}

MCDraws ==
    [choice: 0 .. 12, rd: {{0, 1, 2, 3, 4}}, rs1: {{}, {1, 3}}, rs2: {{0}},
     imm12: {{0, 2, 4, 6, 8, 10}, 11 .. 31}, branch_imm: {9 .. 31, {9}}]

\* Arithmetic on two registers, with wrap-around of both signs; shifts; what the
\* reference model lacks; a shift by an immediate, SB, BLT and LUI, which the
\* assembler lacks.
Arithmetic ==
    {SC!addi(Reg1, Reg1, BitsOf(2047)), SC!addi(Reg2, Reg1, BitsOf(-1)),
     SC!add(Reg1, Reg1, Reg1), SC!sub(Reg2, {}, Reg1), SC!sub(Reg1, Reg2, Reg1),
     SC!and_(Reg2, Reg1, Reg2), SC!or_(Reg1, Reg1, Reg2), SC!xor_(Reg2, Reg2, Reg1),
     SC!slt(Reg2, Reg2, Reg1), SC!sltu(Reg1, Reg1, Reg2), SC!add({}, Reg1, Reg1)}
Others ==
    {SC!sll(Reg1, Reg1, Reg1), SC!sra(Reg1, Reg1, Reg1), SC!xori(Reg1, Reg1, {0}),
     SC!lw(Reg1, {}, {}), SC!sw(Reg1, {}, {}), SC!beq({}, {}, {3}), SC!jal({}, {3}),
     SC!jalr({}, Reg1, {}), IType({0}, Reg1, F001, Reg1, OP_IMM), SType({}, Reg1, {}, F000),
     BType({3}, {}, {}, F100), UType({0}, Reg1)}
MCPrograms ==
    {<<SC!addi(Reg1, {}, BitsOf(n)), a, b, c>> :
        n \in {2047, -1366}, a \in Arithmetic, b \in Arithmetic, c \in Arithmetic}
      \cup {<<SC!addi(Reg1, {}, {0, 1}), a, b>> : a \in Others, b \in Arithmetic \cup Others}
================================================================================
