----------------------------- MODULE InstrDecoder ------------------------------
(* instr_decoder.sv from the bits of an instruction word to its fields, its    *)
(* immediate and the control signals.                                          *)
EXTENDS InstrFormats

opcode(w) == Slice(w, 0, 7)
rd(w) == Slice(w, 7, 5)
funct3(w) == Slice(w, 12, 3)
rs1(w) == Slice(w, 15, 5)
rs2(w) == Slice(w, 20, 5)
funct7(w) == Slice(w, 25, 7)

\* The five immediates, bit by bit: where bit k comes from.
i_imm(w) == {k \in Pos : IF k < 12 THEN k + 20 \in w ELSE 31 \in w}
s_imm(w) == {k \in Pos : IF k < 5 THEN k + 7 \in w
                         ELSE IF k < 12 THEN k + 20 \in w
                         ELSE 31 \in w}
b_imm(w) == {k \in 1 .. 31 : IF k < 5 THEN k + 7 \in w
                             ELSE IF k < 11 THEN k + 20 \in w
                             ELSE IF k = 11 THEN 7 \in w
                             ELSE 31 \in w}
j_imm(w) == {k \in 1 .. 31 : IF k < 11 THEN k + 20 \in w
                             ELSE IF k = 11 THEN 20 \in w
                             ELSE IF k < 20 THEN k \in w
                             ELSE 31 \in w}
u_imm(w) == {k \in w : k >= 12}

\* The ALU operation of the two arithmetic opcodes; ALU_ADD is the default.
\* Faulty variant of RegisterAlu: funct7 is not looked at for right shifts.
RegisterAluOneShift(f3, f7) ==
    IF f3 = F000 THEN IF f7 = Alternative THEN "SUB" ELSE "ADD"
    ELSE IF f3 = F001 THEN "SLL"
    ELSE IF f3 = F010 THEN "SLT"
    ELSE IF f3 = F011 THEN "SLTU"
    ELSE IF f3 = F100 THEN "XOR"
    ELSE IF f3 = F101 THEN "SRL"
    ELSE IF f3 = F110 THEN "OR"
    ELSE "AND"
RegisterAlu(f3, f7) ==
    IF f3 = F000 THEN IF f7 = Alternative THEN "SUB" ELSE "ADD"
    ELSE IF f3 = F001 THEN "SLL"
    ELSE IF f3 = F010 THEN "SLT"
    ELSE IF f3 = F011 THEN "SLTU"
    ELSE IF f3 = F100 THEN "XOR"
    ELSE IF f3 = F101 THEN IF f7 = {} THEN "SRL" ELSE IF f7 = Alternative THEN "SRA" ELSE "ADD"
    ELSE IF f3 = F110 THEN "OR"
    ELSE "AND"
ImmediateAlu(f3) ==
    IF f3 = F010 THEN "SLT"
    ELSE IF f3 = F011 THEN "SLTU"
    ELSE IF f3 = F100 THEN "XOR"
    ELSE IF f3 = F110 THEN "OR"
    ELSE IF f3 = F111 THEN "AND"
    ELSE "ADD"

alu_control(w) ==
    IF opcode(w) = OP THEN RegisterAlu(funct3(w), funct7(w))
    ELSE IF opcode(w) = OP_IMM THEN ImmediateAlu(funct3(w))
    ELSE "ADD"

imm(w) ==
    IF opcode(w) \in {OP_IMM, LOAD, JALR_OP} THEN i_imm(w)
    ELSE IF opcode(w) = STORE THEN s_imm(w)
    ELSE IF opcode(w) = BRANCH THEN b_imm(w)
    ELSE IF opcode(w) = JAL_OP THEN j_imm(w)
    ELSE IF opcode(w) = LUI_OP THEN u_imm(w)
    ELSE {}

decode(w) ==
    [rd |-> rd(w), rs1 |-> rs1(w), rs2 |-> rs2(w), imm |-> imm(w),
     alu_control |-> alu_control(w),
     reg_write   |-> opcode(w) \in {OP, OP_IMM, LOAD, JAL_OP, JALR_OP, LUI_OP},
     alu_src     |-> opcode(w) \in {OP_IMM, LOAD, STORE, JALR_OP, LUI_OP},
     mem_read    |-> opcode(w) = LOAD,
     mem_write   |-> opcode(w) = STORE,
     mem_to_reg  |-> opcode(w) = LOAD,
     jal_to_reg  |-> opcode(w) \in {JAL_OP, JALR_OP},
     jump        |-> opcode(w) = JAL_OP,
     jalr        |-> opcode(w) = JALR_OP,
     branch_eq   |-> opcode(w) = BRANCH /\ funct3(w) = F000,
     branch_ne   |-> opcode(w) = BRANCH /\ funct3(w) = F001]
================================================================================
