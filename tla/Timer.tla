--------------------------------- MODULE Timer ---------------------------------
(* timer.sv: a free-running counter, a compare register, and an interrupt that *)
(* is raised when they are equal and stays until software clears it.           *)
EXTENDS Integers

CONSTANT CounterSize        \* number of values of the counter: 2^32
ASSUME CounterAssumption == CounterSize \in Nat \ {0}

VARIABLES counter, compare, irq_enable, irq
timerVars == <<counter, compare, irq_enable, irq>>

Count == 0 .. CounterSize - 1
TimerTypeOK ==
    /\ counter \in Count /\ compare \in Count
    /\ irq_enable \in BOOLEAN /\ irq \in BOOLEAN

\* What a store to the timer's addresses asks for.
NoWrite == [to |-> "none", data |-> 0]
WriteTo(register, data) == [to |-> register, data |-> data]

TimerInit == counter = 0 /\ compare = 0 /\ irq_enable = FALSE /\ irq = FALSE
TimerReset == counter' = 0 /\ compare' = 0 /\ irq_enable' = FALSE /\ irq' = FALSE

\* One clock cycle. Clearing has priority over a match in the same cycle.
TimerTick(w) ==
    /\ counter' = (counter + 1) % CounterSize
    /\ compare' = IF w.to = "compare" THEN w.data ELSE compare
    /\ irq_enable' = IF w.to = "irq_enable" THEN w.data = 1 ELSE irq_enable
    /\ irq' = (w.to # "irq_clear" /\ (irq \/ (irq_enable /\ counter = compare)))
================================================================================
