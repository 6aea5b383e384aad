------------------------------ MODULE ControlUnit ------------------------------
(* The control signals instr_decoder.sv produces, as a function of the fields  *)
(* of an instruction (CpuTypes!Instr). InstrDecoder has the same decoder down  *)
(* to the bits of the word.                                                    *)
EXTENDS CpuTypes

\* Control signals and operands the decoder produces.
Control == [rd: Reg, rs1: Reg, rs2: Reg, imm: Word, alu_control: AluOp,
            reg_write: BOOLEAN, alu_src: BOOLEAN, mem_read: BOOLEAN,
            mem_write: BOOLEAN, mem_to_reg: BOOLEAN, jal_to_reg: BOOLEAN,
            jump: BOOLEAN, jalr: BOOLEAN, branch_eq: BOOLEAN, branch_ne: BOOLEAN]

\* ID/EX after reset or flush.
NoControl ==
    [rd |-> 0, rs1 |-> 0, rs2 |-> 0, imm |-> 0, alu_control |-> "ADD",
     reg_write |-> FALSE, alu_src |-> FALSE, mem_read |-> FALSE,
     mem_write |-> FALSE, mem_to_reg |-> FALSE, jal_to_reg |-> FALSE,
     jump |-> FALSE, jalr |-> FALSE, branch_eq |-> FALSE, branch_ne |-> FALSE]

\* The register-immediate shifts have no case in the decoder and keep its default.
AluControl(i) ==
    IF \/ i.opcode = "OP" /\ i.funct \in AluOp
       \/ i.opcode = "OP_IMM" /\ i.funct \in {"XOR", "OR", "AND", "SLT", "SLTU"}
    THEN i.funct ELSE "ADD"

Decode(i) ==
    [rd |-> i.rd, rs1 |-> i.rs1, rs2 |-> i.rs2,
     imm         |-> IF i.opcode \in {"OP", "UNKNOWN"} THEN 0 ELSE i.imm,
     alu_control |-> AluControl(i),
     reg_write   |-> i.opcode \in {"OP", "OP_IMM", "LOAD", "JAL", "JALR", "LUI"},
     alu_src     |-> i.opcode \in {"OP_IMM", "LOAD", "STORE", "JALR", "LUI"},
     mem_read    |-> i.opcode = "LOAD",
     mem_write   |-> i.opcode = "STORE",
     mem_to_reg  |-> i.opcode = "LOAD",
     jal_to_reg  |-> i.opcode \in {"JAL", "JALR"},
     jump        |-> i.opcode = "JAL",
     jalr        |-> i.opcode = "JALR",
     branch_eq   |-> i.opcode = "BRANCH" /\ i.funct = "BEQ",
     branch_ne   |-> i.opcode = "BRANCH" /\ i.funct = "BNE"]
================================================================================
