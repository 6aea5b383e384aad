----------------------------- MODULE HostDecoder -------------------------------
(* scripts/python scripts/decoder.py. Line 50 of the file carries stray text   *)
(* after a comma ("then i"), a syntax error: Python refuses the module until   *)
(* it is taken out. The definitions below read the dictionary without it.      *)
EXTENDS InstrFormats

\* Fields that always occupy the same bit positions.
opcode(instr) == Slice(instr, 0, 7)
rdField(instr) == Slice(instr, 7, 5)
funct3(instr) == Slice(instr, 12, 3)
rs1Field(instr) == Slice(instr, 15, 5)
rs2Field(instr) == Slice(instr, 20, 5)
funct7(instr) == Slice(instr, 25, 7)

immI(instr) == SignExtend(Slice(instr, 20, 12), 12)
immS(instr) == SignExtend(Shl(Slice(instr, 25, 7), 5) \cup Slice(instr, 7, 5), 12)
immB(instr) ==
    SignExtend(Shl(Slice(instr, 31, 1), 12) \cup Shl(Slice(instr, 7, 1), 11)
                 \cup Shl(Slice(instr, 25, 6), 5) \cup Shl(Slice(instr, 8, 4), 1), 13)
immJ(instr) ==
    SignExtend(Shl(Slice(instr, 31, 1), 20) \cup Shl(Slice(instr, 12, 8), 12)
                 \cup Shl(Slice(instr, 20, 1), 11) \cup Shl(Slice(instr, 21, 10), 1), 21)

\* The dictionary of a type with an immediate from rs1 to rd.
FromRs1(type, instr) ==
    [type |-> type, rd |-> rdField(instr), rs1 |-> rs1Field(instr), imm |-> immI(instr),
     funct3 |-> funct3(instr)]

\* What decode returns; the opcode is left out, since the type says as much. An
\* unknown opcode, LUI among them, raises ValueError.
decode(instr) ==
    IF opcode(instr) = OP
    THEN [type |-> "R", rd |-> rdField(instr), rs1 |-> rs1Field(instr), rs2 |-> rs2Field(instr),
          funct3 |-> funct3(instr), funct7 |-> funct7(instr)]
    ELSE IF opcode(instr) = OP_IMM THEN FromRs1("I", instr)
    ELSE IF opcode(instr) = LOAD THEN FromRs1("LW", instr)
    ELSE IF opcode(instr) = STORE
    THEN [type |-> "S", rs1 |-> rs1Field(instr), rs2 |-> rs2Field(instr), imm |-> immS(instr),
          funct3 |-> funct3(instr)]
    ELSE IF opcode(instr) = BRANCH
    THEN [type |-> "B", rs1 |-> rs1Field(instr), rs2 |-> rs2Field(instr), imm |-> immB(instr),
          funct3 |-> funct3(instr)]
    ELSE IF opcode(instr) = JAL_OP
    THEN [type |-> "J", rd |-> rdField(instr), imm |-> immJ(instr)]
    ELSE IF opcode(instr) = JALR_OP THEN FromRs1("JALR", instr)
    ELSE [type |-> "ValueError"]
================================================================================
