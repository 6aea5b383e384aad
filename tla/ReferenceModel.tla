----------------------------- MODULE ReferenceModel ----------------------------
(* referencemodel.py, and run_reference.py, which drives it: an instruction set*)
(* machine in Python for the instruction words of program.hex. Its registers   *)
(* are Python integers, which have no width.                                   *)
EXTENDS HostDecoder, Sequences

CONSTANTS
    WordBits,       \* bits of a hardware word: 32
    PyBits          \* bits below the sign that are kept of a Python integer: all

ASSUME BitsAssumption == WordBits \in Nat \ {0} /\ PyBits \in Nat /\ PyBits >= WordBits

VARIABLES
    instructions,   \* the words of program.hex
    regs, pc,       \* ref.regs, ref.pc
    refState        \* the loop is running, done, or left by an exception; idle before

refVars == <<instructions, regs, pc, refState>>

RegIndex == 0 .. 31
WordValues == 0 .. 2^WordBits - 1
-------------------------------------------------------------------------------
(* Python integers and their bits.                                             *)
SignedNumber(negative, v, w) ==
    IF negative THEN -1 - Number((0 .. w - 1) \ v, w) ELSE Number(v, w)
IntOf(v) == SignedNumber(31 \in v, v, 31)

Ones(a) == OneBits(a, PyBits)
PyAnd(a, b) == SignedNumber(a < 0 /\ b < 0, Ones(a) \cap Ones(b), PyBits)
PyOr(a, b) == SignedNumber(a < 0 \/ b < 0, Ones(a) \cup Ones(b), PyBits)
PyXor(a, b) ==
    SignedNumber((a < 0) # (b < 0), (Ones(a) \ Ones(b)) \cup (Ones(b) \ Ones(a)), PyBits)
Masked(a) == a % 2^WordBits                      \* a & 0xFFFFFFFF
Truth(p) == IF p THEN 1 ELSE 0
-------------------------------------------------------------------------------
(* The functions of referencemodel.py that run_reference.py can reach, on the  *)
(* contents of the source registers.                                           *)
execute_addi(a, imm) == a + imm
execute_add(a, b) == a + b
execute_sub(a, b) == a - b
execute_and(a, b) == PyAnd(a, b)
execute_or(a, b) == PyOr(a, b)
execute_xor(a, b) == PyXor(a, b)
execute_slt(a, b) == Truth(a < b)
\* Faulty variant of execute_sltu: the operands are compared as they are.
execute_sltuUnmasked(a, b) == Truth(a < b)
execute_sltu(a, b) == Truth(Masked(a) < Masked(b))

NumberOf(field) == Number(field, 5)              \* register numbers
a1(d) == regs[NumberOf(d.rs1)]
b1(d) == regs[NumberOf(d.rs2)]

\* regs[rd] = value, and pc += 4.
WriteBack(d, value) ==
    /\ regs' = IF d.rd # {} THEN [regs EXCEPT ![NumberOf(d.rd)] = value] ELSE regs
    /\ pc' = pc + 4
    /\ UNCHANGED refState

\* Faulty variant of Skip: the loop does not move on.
SkipStays == UNCHANGED <<regs, pc, refState>>
Skip == pc' = pc + 4 /\ UNCHANGED <<regs, refState>>

\* A name that referencemodel.py does not define, an opcode decode does not know.
Raise(exception) == refState' = exception /\ UNCHANGED <<regs, pc>>
-------------------------------------------------------------------------------
(* The branches of run_reference.py.                                           *)

\* OP-IMM. Only addi has the name the script calls.
ImmediateType(d) ==
    /\ d.type = "I"
    /\ \/ d.funct3 = F000 /\ WriteBack(d, execute_addi(a1(d), IntOf(d.imm)))
       \/ d.funct3 \in {F100, F110, F111, F010, F011} /\ Raise("AttributeError")
       \/ d.funct3 \in {F001, F101} /\ Skip

\* The value of an R-type instruction; a pair of funct3 and funct7 that has no
\* branch leaves the registers alone. funct7 is looked at for ADD and SUB only.
Shifts == {F001, F101}
HasBranch(d) == d.funct3 \notin Shifts /\ (d.funct3 = F000 => d.funct7 \in {{}, Alternative})
RegisterValue(d) ==
    IF d.funct3 = F000
    THEN IF d.funct7 = {} THEN execute_add(a1(d), b1(d)) ELSE execute_sub(a1(d), b1(d))
    ELSE IF d.funct3 = F111 THEN execute_and(a1(d), b1(d))
    ELSE IF d.funct3 = F110 THEN execute_or(a1(d), b1(d))
    ELSE IF d.funct3 = F100 THEN execute_xor(a1(d), b1(d))
    ELSE IF d.funct3 = F010 THEN execute_slt(a1(d), b1(d))
    ELSE execute_sltu(a1(d), b1(d))
RegisterType(d) ==
    /\ d.type = "R"
    /\ IF HasBranch(d) THEN WriteBack(d, RegisterValue(d)) ELSE Skip

\* execute_sw is not defined; a store that is not SW is passed over.
StoreType(d) ==
    /\ d.type = "S"
    /\ IF d.funct3 = F010 THEN Raise("AttributeError") ELSE Skip

\* execute_beq, execute_bne and execute_jal are not defined; nothing advances
\* the program counter behind them, nor for another branch.
BranchType(d) ==
    /\ d.type = "B"
    /\ IF d.funct3 \in {F000, F001} THEN Raise("AttributeError") ELSE UNCHANGED <<regs, pc, refState>>
JumpType(d) == d.type = "J" /\ Raise("AttributeError")

\* decode calls these "LW" and "JALR"; run_reference looks for them under "I"
\* and has no branch for the two names: the loop comes back to the same word.
Unnamed(d) == d.type \in {"LW", "JALR"} /\ UNCHANGED <<regs, pc, refState>>

Unknown(d) == d.type = "ValueError" /\ Raise("ValueError")

Running == refState = "running" /\ pc < 4 * Len(instructions)
Current == decode(instructions[pc \div 4 + 1])

\* One turn of the loop, and its end.
Turn ==
    /\ Running
    /\ LET d == Current
       IN  \/ ImmediateType(d) \/ RegisterType(d) \/ StoreType(d) \/ BranchType(d)
           \/ JumpType(d) \/ Unnamed(d) \/ Unknown(d)
    /\ UNCHANGED instructions
LeaveLoop ==
    /\ refState = "running" /\ ~Running
    /\ refState' = "done" /\ UNCHANGED <<instructions, regs, pc>>

\* The word the loop would never leave.
Spins ==
    Running /\ \/ Current.type \in {"LW", "JALR"}
               \/ Current.type = "B" /\ Current.funct3 \notin {F000, F001}

RefInit(program, state) ==
    instructions = program /\ regs = [r \in RegIndex |-> 0] /\ pc = 0 /\ refState = state
================================================================================
