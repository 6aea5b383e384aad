------------------------------- MODULE RoundRobin ------------------------------
(* What the RTOS promises the code it runs: contexts that take turns, each of  *)
(* which changes only while it runs, never while the kernel does.              *)
EXTENDS Integers

CONSTANTS
    NumThreads,     \* slots of the thread table
    Fresh           \* the context a new thread of each slot starts with

VARIABLES
    turn,           \* the slot whose turn it is
    inKernel,       \* the trap handler runs instead of it
    context         \* registers, stack pointer and program counter of each slot

rrVars == <<turn, inKernel, context>>
Slot == 0 .. NumThreads - 1

Others == \A s \in Slot \ {turn} : context'[s] = context[s]

Run == ~inKernel /\ ~inKernel' /\ turn' = turn /\ Others
CreateThread(s) ==
    /\ ~inKernel /\ ~inKernel' /\ turn' = turn
    /\ context'[s] = Fresh[s]
    /\ \A t \in Slot \ {turn, s} : context'[t] = context[t]
Interrupt == ~inKernel /\ inKernel' /\ turn' = turn /\ context' = context
Switch == inKernel /\ inKernel' /\ context' = context /\ turn' = IF turn + 1 = NumThreads THEN 0 ELSE turn + 1
Resume == inKernel /\ ~inKernel' /\ turn' = turn /\ context' = context
\* Reset: main starts in the slot whose turn it was.
Restart == ~inKernel' /\ turn' = turn /\ Others

RRInit == turn = 0 /\ ~inKernel
RRNext ==
    Run \/ (\E s \in Slot : CreateThread(s)) \/ Interrupt \/ Switch \/ Resume \/ Restart
RRSpec == RRInit /\ [][RRNext]_rrVars
================================================================================
