--------------------------------- MODULE RV32I ---------------------------------
(* The machine the README describes: instructions complete one after another,  *)
(* in program order, and a taken branch or a jump goes to its target.          *)
EXTENDS Isa

VARIABLE pc

vars == <<isaVars, pc>>

Step(sw, rx) ==
    LET i == InstrAt(pc) IN
    /\ Effect(i, Result(i, pc, sw), rx)
    /\ pc' = IF Taken(i) THEN Target(i, pc) ELSE Plus(pc, 4)

Reset == ResetState(InstrAt(pc)) /\ pc' = 0

Init == IsaInit /\ pc = 0
Next ==
    \/ \E sw \in SwitchValues, rx \in RxBytes \cup {NoRx} : Step(sw, rx)
    \/ \E rx \in RxBytes \cup {NoRx} : Environment(rx) /\ UNCHANGED pc
    \/ Reset
Spec == Init /\ [][Next]_vars
================================================================================
