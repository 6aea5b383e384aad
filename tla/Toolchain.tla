------------------------------- MODULE Toolchain -------------------------------
(* How a program becomes the control signals of the processor: a function of   *)
(* an assembler.py (or a compiler's four bytes through bin_to_hex.py) gives an *)
(* instruction word, $readmemh puts it into imem, instr_decoder.sv decodes it, *)
(* and decoder.py does for the reference model.                                *)
EXTENDS ControlUnit, InstrFormats, Sequences

CONSTANTS
    Calls,      \* calls of the assembler's functions: [f, rd, rs1, rs2, imm]
    Binaries    \* the bytes of binary files, each a sequence of byte sets

SW == INSTANCE Assembler
SC == INSTANCE ScriptAssembler
HW == INSTANCE InstrDecoder
PY == INSTANCE HostDecoder

VARIABLES
    input,      \* what the tool is given
    tool,       \* the tool that is run
    words       \* its output, <<>> before the tool has run

vars == <<input, tool, words>>
-------------------------------------------------------------------------------
(* The tools.                                                                  *)

\* What a function of either file returns, by its name.
Script(c) ==
    [addi  |-> SC!addi(c.rd, c.rs1, c.imm),  xori |-> SC!xori(c.rd, c.rs1, c.imm),
     ori   |-> SC!ori(c.rd, c.rs1, c.imm),   andi |-> SC!andi(c.rd, c.rs1, c.imm),
     slti  |-> SC!slti(c.rd, c.rs1, c.imm),  sltiu |-> SC!sltiu(c.rd, c.rs1, c.imm),
     lw    |-> SC!lw(c.rd, c.rs1, c.imm),    jalr |-> SC!jalr(c.rd, c.rs1, c.imm),
     add   |-> SC!add(c.rd, c.rs1, c.rs2),   sub  |-> SC!sub(c.rd, c.rs1, c.rs2),
     and_  |-> SC!and_(c.rd, c.rs1, c.rs2),  or_  |-> SC!or_(c.rd, c.rs1, c.rs2),
     xor_  |-> SC!xor_(c.rd, c.rs1, c.rs2),  slt  |-> SC!slt(c.rd, c.rs1, c.rs2),
     sltu  |-> SC!sltu(c.rd, c.rs1, c.rs2),  sll  |-> SC!sll(c.rd, c.rs1, c.rs2),
     srl   |-> SC!srl(c.rd, c.rs1, c.rs2),   sra  |-> SC!sra(c.rd, c.rs1, c.rs2),
     sw    |-> SC!sw(c.rs2, c.rs1, c.imm),   beq  |-> SC!beq(c.rs1, c.rs2, c.imm),
     bne   |-> SC!bne(c.rs1, c.rs2, c.imm),  jal  |-> SC!jal(c.rd, c.imm)][c.f]
Software(c) ==
    [addi  |-> SW!addi(c.rd, c.rs1, c.imm),  xori |-> SW!xori(c.rd, c.rs1, c.imm),
     ori   |-> SW!ori(c.rd, c.rs1, c.imm),   andi |-> SW!andi(c.rd, c.rs1, c.imm),
     slti  |-> SW!slti(c.rd, c.rs1, c.imm),  sltiu |-> SW!sltiu(c.rd, c.rs1, c.imm),
     lw    |-> SW!lw(c.rd, c.rs1, c.imm),    jalr |-> SW!jalr(c.rd, c.rs1, c.imm),
     add   |-> SW!add(c.rd, c.rs1, c.rs2),   sub  |-> SW!sub(c.rd, c.rs1, c.rs2),
     and_  |-> SW!and_(c.rd, c.rs1, c.rs2),  or_  |-> SW!or_(c.rd, c.rs1, c.rs2),
     xor_  |-> SW!xor_(c.rd, c.rs1, c.rs2),  slt  |-> SW!slt(c.rd, c.rs1, c.rs2),
     sltu  |-> SW!sltu(c.rd, c.rs1, c.rs2),  sll  |-> SW!sll(c.rd, c.rs1, c.rs2),
     srl   |-> SW!srl(c.rd, c.rs1, c.rs2),   sra  |-> SW!sra(c.rd, c.rs1, c.rs2),
     sw    |-> SW!sw(c.rs2, c.rs1, c.imm),   beq  |-> SW!beq(c.rs1, c.rs2, c.imm),
     bne   |-> SW!bne(c.rs1, c.rs2, c.imm),  jal  |-> SW!jal(c.rd, c.imm),
     lui   |-> SW!lui(c.rd, c.imm)][c.f]

\* bin_to_hex.py: zero bytes up to a multiple of four, then little-endian words.
\* Faulty variant of Padded: a byte is added even to a full word.
PaddedAlways(data) == [k \in 1 .. 4 * (Len(data) \div 4 + 1) |-> IF k <= Len(data) THEN data[k] ELSE {}]
Padded(data) == [k \in 1 .. 4 * ((Len(data) + 3) \div 4) |-> IF k <= Len(data) THEN data[k] ELSE {}]
LittleEndian(b0, b1, b2, b3) == b0 \cup Shl(b1, 8) \cup Shl(b2, 16) \cup Shl(b3, 24)
HexWords(data) ==
    LET p == Padded(data)
    IN  [k \in 1 .. Len(p) \div 4 |-> LittleEndian(p[4*k-3], p[4*k-2], p[4*k-1], p[4*k])]

\* One run of a tool.
AssembleSoftware == tool = "software" /\ words' = <<Software(input)>>
AssembleScript == tool = "scripts" /\ words' = <<Script(input)>>
ConvertBinary == tool = "bin_to_hex" /\ words' = HexWords(input)

Init ==
    /\ words = <<>>
    /\ \/ tool = "software" /\ input \in Calls
       \/ tool = "scripts" /\ input \in {c \in Calls : c.f # "lui"}
       \/ tool = "bin_to_hex" /\ input \in Binaries
Next ==
    /\ words = <<>>
    /\ AssembleSoftware \/ AssembleScript \/ ConvertBinary
    /\ UNCHANGED <<input, tool>>
Spec == Init /\ [][Next]_vars
-------------------------------------------------------------------------------
(* A word as the instruction record the processor modules work with.           *)
OpcodeOf(w) ==
    LET op == HW!opcode(w) IN
    IF op = OP THEN "OP" ELSE IF op = OP_IMM THEN "OP_IMM" ELSE IF op = LOAD THEN "LOAD"
    ELSE IF op = STORE THEN "STORE" ELSE IF op = BRANCH THEN "BRANCH"
    ELSE IF op = JAL_OP THEN "JAL" ELSE IF op = JALR_OP THEN "JALR"
    ELSE IF op = LUI_OP THEN "LUI" ELSE "UNKNOWN"

\* The operation RV32I gives funct3 and funct7, shifts by an immediate included.
BaseFunct(f3) ==
    IF f3 = F000 THEN "ADD" ELSE IF f3 = F001 THEN "SLL" ELSE IF f3 = F010 THEN "SLT"
    ELSE IF f3 = F011 THEN "SLTU" ELSE IF f3 = F100 THEN "XOR" ELSE IF f3 = F101 THEN "SRL"
    ELSE IF f3 = F110 THEN "OR" ELSE "AND"
FunctOf(w) ==
    LET f3 == HW!funct3(w)
        f7 == HW!funct7(w)
        variant == f3 = F101 \/ (f3 = F000 /\ HW!opcode(w) = OP)     \* funct7 tells two apart
    IN  IF HW!opcode(w) \in {OP, OP_IMM}
        THEN IF variant /\ f7 = Alternative THEN IF f3 = F000 THEN "SUB" ELSE "SRA"
             ELSE IF variant /\ f7 # {} THEN "OTHER"
             ELSE BaseFunct(f3)
        ELSE IF HW!opcode(w) = BRANCH /\ f3 = F000 THEN "BEQ"
        ELSE IF HW!opcode(w) = BRANCH /\ f3 = F001 THEN "BNE"
        ELSE "OTHER"

FieldsOf(w) ==
    [opcode |-> OpcodeOf(w), funct |-> FunctOf(w), rd |-> HW!rd(w), rs1 |-> HW!rs1(w),
     rs2 |-> HW!rs2(w), imm |-> HW!imm(w)]

\* What the functions of the assemblers are for.
Operation ==
    [addi |-> <<"OP_IMM", "ADD">>, xori |-> <<"OP_IMM", "XOR">>, ori |-> <<"OP_IMM", "OR">>,
     andi |-> <<"OP_IMM", "AND">>, slti |-> <<"OP_IMM", "SLT">>, sltiu |-> <<"OP_IMM", "SLTU">>,
     lw |-> <<"LOAD", "OTHER">>, jalr |-> <<"JALR", "OTHER">>,
     add |-> <<"OP", "ADD">>, sub |-> <<"OP", "SUB">>, and_ |-> <<"OP", "AND">>,
     or_ |-> <<"OP", "OR">>, xor_ |-> <<"OP", "XOR">>, slt |-> <<"OP", "SLT">>,
     sltu |-> <<"OP", "SLTU">>, sll |-> <<"OP", "SLL">>, srl |-> <<"OP", "SRL">>,
     sra |-> <<"OP", "SRA">>, sw |-> <<"STORE", "OTHER">>, beq |-> <<"BRANCH", "BEQ">>,
     bne |-> <<"BRANCH", "BNE">>, jal |-> <<"JAL", "OTHER">>, lui |-> <<"LUI", "OTHER">>]
Operands(op) ==
    IF op = "OP" THEN {"rd", "rs1", "rs2"}
    ELSE IF op \in {"OP_IMM", "LOAD", "JALR"} THEN {"rd", "rs1", "imm"}
    ELSE IF op \in {"STORE", "BRANCH"} THEN {"rs1", "rs2", "imm"}
    ELSE {"rd", "imm"}
HostType == [OP |-> "R", OP_IMM |-> "I", LOAD |-> "LW", STORE |-> "S", BRANCH |-> "B",
             JAL |-> "J", JALR |-> "JALR"]

\* Operands the instruction has room for, as generate_hex.py draws them and
\* hello_world.py computes them: five-bit register numbers, immediates of the
\* format's width, even offsets. What does not fit loses bits or runs into the
\* next field.
Immediates(op) ==
    IF op = "OP" THEN Word32
    ELSE IF op = "BRANCH" THEN Offsets(13)
    ELSE IF op = "JAL" THEN Offsets(21)
    ELSE IF op = "LUI" THEN Unsigned(20)
    ELSE SignedBits(12)
InRange(c) ==
    /\ c \in [f: DOMAIN Operation, rd: Unsigned(5), rs1: Unsigned(5), rs2: Unsigned(5), imm: Word32]
    /\ c.imm \in Immediates(Operation[c.f][1])
ASSUME CallsAssumption == \A c \in Calls : InRange(c)
ASSUME BinariesAssumption == Binaries \subseteq Seq(Unsigned(8))
-------------------------------------------------------------------------------
(* Properties.                                                                 *)
Assembled == words # <<>> /\ tool \in {"software", "scripts"}

\* The processor decodes every assembled word as the instruction that was asked
\* for, with its operands; lui's immediate arrives in the upper 20 bits.
HardwareRoundTrip ==
    Assembled =>
        LET i == FieldsOf(words[1])
            c == [input EXCEPT !.imm = IF input.f = "lui" THEN Shl(@, 12) ELSE @]
        IN  /\ <<i.opcode, i.funct>> = Operation[input.f]
            /\ \A o \in Operands(i.opcode) : i[o] = c[o]

\* decoder.py finds in every assembled word, LUI apart, the operands it was
\* assembled from, sign-extended.
HostRoundTrip ==
    Assembled /\ input.f # "lui" =>
        LET d == PY!decode(words[1])
            op == Operation[input.f][1]
        IN  /\ d.type = HostType[op]
            /\ \A o \in Operands(op) : d[o] = input[o]

\* The decoder of the processor and the table of control signals that the
\* pipeline model uses agree on every word, compiled ones included.
ControlsOfFields ==
    \A k \in 1 .. Len(words) :
        LET i == FieldsOf(words[k])
        IN  HW!decode(words[k]) =
              [Decode([i EXCEPT !.imm = {}])
                 EXCEPT !.imm = IF i.opcode \in {"OP", "UNKNOWN"} THEN {} ELSE i.imm]

\* bin_to_hex.py keeps every byte in its place and adds less than a word.
BytesInPlace ==
    words # <<>> /\ tool = "bin_to_hex" =>
        /\ 4 * Len(words) - Len(input) \in 0 .. 3
        /\ \A k \in 1 .. Len(input) :
              input[k] = Slice(words[(k + 3) \div 4], 8 * ((k - 1) % 4), 8)
================================================================================
