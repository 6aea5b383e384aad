-------------------------------- MODULE SlotIsa --------------------------------
(* The instruction set this processor implements, instruction by instruction.  *)
(* It differs from RV32I in three ways.                                        *)
(*   - A taken branch or jump at address b is followed by the instruction that *)
(*     was fetched two places after it (b + 8 in straight-line code), and only *)
(*     then by its target; the instruction fetched one place after is skipped. *)
(*     The machine therefore keeps the next two fetch addresses.               *)
(*   - LUI adds its immediate to the register its rs1 field names.             *)
(*   - Register-immediate shifts add.                                          *)
EXTENDS Isa

VARIABLES
    cur,    \* address of the instruction that completes next
    nxt1,   \* address fetched after it
    nxt2    \* address fetched after that

vars == <<isaVars, cur, nxt1, nxt2>>

BuiltResult(i, at, sw) ==
    IF \/ i.opcode = "LUI"
       \/ i.opcode = "OP_IMM" /\ i.funct \notin {"XOR", "OR", "AND", "SLT", "SLTU"}
    THEN Plus(X(i.rs1), i.imm)
    ELSE IF i.opcode = "OP" /\ i.funct \notin AluOp THEN Plus(X(i.rs1), X(i.rs2))
    ELSE Result(i, at, sw)

Step(sw, rx) ==
    LET i == InstrAt(cur) IN
    /\ Effect(i, BuiltResult(i, cur, sw), rx)
    /\ IF Taken(i)
       THEN cur' = nxt2 /\ nxt1' = Target(i, cur) /\ nxt2' = Plus(Target(i, cur), 4)
       ELSE cur' = nxt1 /\ nxt1' = nxt2 /\ nxt2' = Plus(nxt2, 4)

Reset == ResetState(InstrAt(cur)) /\ cur' = 0 /\ nxt1' = 4 /\ nxt2' = 8

Init == IsaInit /\ cur = 0 /\ nxt1 = 4 /\ nxt2 = 8
Next ==
    \/ \E sw \in SwitchValues, rx \in RxBytes \cup {NoRx} : Step(sw, rx)
    \/ \E rx \in RxBytes \cup {NoRx} : Environment(rx) /\ UNCHANGED <<cur, nxt1, nxt2>>
    \/ Reset
Spec == Init /\ [][Next]_vars
================================================================================
