------------------------------- MODULE Firmware --------------------------------
(* The firmware of software/: crt0.S, main.c, rtos/thread.c, trap_entry.S and  *)
(* the drivers they call, on the timer, the CSR file and the interrupt         *)
(* controller. One step is one call of a driver, one turn of a thread's loop,  *)
(* or one section of trap_entry.S, in the cycle that takes effect; the cycles  *)
(* between are Stall, and an interrupt may be accepted at any of them.         *)
EXTENDS Timer, TrapUnit

CONSTANTS
    NumThreads,     \* NUM_THREADS of thread.c
    Slice           \* cycles main adds to the counter: 100000000

Slot == 0 .. NumThreads - 1
ASSUME FirmwareAssumption == NumThreads \in Nat \ {0} /\ Slice \in Nat

VARIABLES
    pc,             \* what executes next
    regs, sp,       \* the register file, by the part registers play in a call
    frames,         \* the 128-byte frame at the end of each stack
    threads,        \* thread table: stack pointer and entry
    current_thread,
    leds

cpuVars == <<pc, regs, sp, frames, threads, current_thread, leds>>
vars == <<timerVars, trapVars, cpuVars>>

\* Code addresses: a function, the thread it belongs to, a place in it.
In(code, id, at) == [code |-> code, id |-> id, at |-> at]
Main(at) == In("main", 0, at)
Thread(id, at) == In("thread", id, at)
Trap(at) == In("trap", 0, at)
Create(id) == IF id < NumThreads THEN In("main", id, "thread_create") ELSE Main("set_handler")

ResetVector == In("vector", 0, "start")      \* 0x800, where nothing of this program is known to lie

\* Stacks: each thread's, the linker's _stack_top, and the null pointer.
Boot == -1
Null == -2
Stacks == Slot \cup {Boot, Null}
TopOf(stack) == [stack |-> stack, depth |-> 0]
Push(p) == [stack |-> p.stack, depth |-> p.depth + 1]
Pop(p) == [stack |-> p.stack, depth |-> p.depth - 1]

\* Register values that a step can tell apart: zero, the value of a thread's
\* own, and what the kernel leaves behind.
Zero == [ra |-> 0, a |-> 0, s |-> 0]
Own(id) == id + 1
Scratch == -1
-------------------------------------------------------------------------------
(* The cycle: the timer and the trap unit move in every one.                   *)

Quiet == TimerTick(NoWrite) /\ TrapTick(FALSE, pc, FALSE, NoCsr)
Stores(register, data) == TimerTick(WriteTo(register, data)) /\ TrapTick(FALSE, pc, FALSE, NoCsr)
WritesCsr(register, value) == TimerTick(NoWrite) /\ TrapTick(FALSE, pc, FALSE, CsrWrite(register, value))

Memory == UNCHANGED <<frames, threads, current_thread>>
Step(from, to) == pc = from /\ pc' = to
\* A call leaves its argument in an argument register and the return address in ra.
Called(argument) == regs' = [ra |-> Own(NumThreads), a |-> argument, s |-> regs.s] /\ sp' = sp

SetsMie(mie) == WritesCsr("mstatus", [mie |-> mie, mpie |-> mstatus_mpie])
-------------------------------------------------------------------------------
(* crt0.S and main.c                                                           *)

Start ==
    /\ Step(Main("start"), Main("interrupt_disable"))
    /\ sp' = TopOf(Boot) /\ regs' = [regs EXCEPT !.ra = Own(NumThreads)]
    /\ Quiet /\ Memory /\ leds' = leds

DisableInterrupts ==
    /\ Step(Main("interrupt_disable"), Create(0))
    /\ Called(0) /\ SetsMie(FALSE) /\ Memory /\ leds' = leds

thread_create(id) ==
    /\ Step(Create(id), Create(id + 1))
    /\ frames' = [frames EXCEPT ![id] = Zero]
    /\ threads' = [threads EXCEPT ![id] = [sp |-> Push(TopOf(id)), pc |-> Thread(id, "entry")]]
    /\ Called(id) /\ Quiet /\ UNCHANGED <<current_thread, leds>>

SetHandler ==
    /\ Step(Main("set_handler"), Main("timer_read"))
    /\ Called(0) /\ WritesCsr("mtvec", Trap("save")) /\ Memory /\ leds' = leds

timer_read ==
    /\ Step(Main("timer_read"), Main("timer_set_compare"))
    /\ Called(counter) /\ Quiet /\ Memory /\ leds' = leds

timer_set_compare ==
    /\ Step(Main("timer_set_compare"), Main("timer_irq_enable"))
    /\ Stores("compare", (regs.a + Slice) % CounterSize)
    /\ Called(0) /\ Memory /\ leds' = leds

timer_irq_enable ==
    /\ Step(Main("timer_irq_enable"), Main("gpio_write_leds"))
    /\ Stores("irq_enable", 1) /\ Called(1) /\ Memory /\ leds' = leds

LightMain ==
    /\ Step(Main("gpio_write_leds"), Main("interrupt_enable"))
    /\ leds' = 1 /\ Called(1) /\ Quiet /\ Memory

EnableInterrupts ==
    /\ Step(Main("interrupt_enable"), Main("loop"))
    /\ Called(0) /\ SetsMie(TRUE) /\ Memory /\ leds' = leds

MainNext ==
    \/ Start \/ DisableInterrupts \/ \E id \in Slot : thread_create(id)
    \/ SetHandler \/ timer_read \/ timer_set_compare \/ timer_irq_enable
    \/ LightMain \/ EnableInterrupts
-------------------------------------------------------------------------------
(* The threads: a loop around gpio_write_leds.                                 *)

Enter(id) ==
    /\ Step(Thread(id, "entry"), Thread(id, "call"))
    /\ regs' = [regs EXCEPT !.s = Own(id)]
    /\ Quiet /\ Memory /\ UNCHANGED <<sp, leds>>
CallLeds(id) ==
    /\ Step(Thread(id, "call"), Thread(id, "gpio_write_leds"))
    /\ regs' = [ra |-> Own(id), a |-> Own(id), s |-> regs.s]
    /\ Quiet /\ Memory /\ UNCHANGED <<sp, leds>>
LightThread(id) ==
    /\ Step(Thread(id, "gpio_write_leds"), Thread(id, "call"))
    /\ leds' = regs.a
    /\ Quiet /\ Memory /\ UNCHANGED <<regs, sp>>
ThreadNext == \E id \in Slot : Enter(id) \/ CallLeds(id) \/ LightThread(id)
-------------------------------------------------------------------------------
(* trap_entry.S and interrupt_handler                                          *)

\* Faulty variant of SaveRegisters: a register is used before it is saved.
SaveRegistersLate ==
    /\ Step(Trap("save"), Trap("tcb"))
    /\ frames' = [frames EXCEPT ![sp.stack] = [regs EXCEPT !.a = Scratch]] /\ sp' = Push(sp)
    /\ Quiet /\ UNCHANGED <<regs, threads, current_thread, leds>>
\* Sections 1 and 2: a frame with every register.
SaveRegisters ==
    /\ Step(Trap("save"), Trap("tcb"))
    /\ frames' = [frames EXCEPT ![sp.stack] = regs] /\ sp' = Push(sp)
    /\ Quiet /\ UNCHANGED <<regs, threads, current_thread, leds>>

\* Faulty variant of SaveThread: the table keeps the entry it had.
SaveThreadNoPc ==
    /\ Step(Trap("tcb"), Trap("timer_irq_clear"))
    /\ threads' = [threads EXCEPT ![current_thread].sp = sp]
    /\ regs' = [regs EXCEPT !.a = Scratch]
    /\ Quiet /\ UNCHANGED <<sp, frames, current_thread, leds>>
\* Sections 3 to 5.
SaveThread ==
    /\ Step(Trap("tcb"), Trap("timer_irq_clear"))
    /\ threads' = [threads EXCEPT ![current_thread] = [sp |-> sp, pc |-> mepc]]
    /\ regs' = [regs EXCEPT !.a = Scratch]
    /\ Quiet /\ UNCHANGED <<sp, frames, current_thread, leds>>

timer_irq_clear ==
    /\ Step(Trap("timer_irq_clear"), Trap("schedule"))
    /\ regs' = [ra |-> Scratch, a |-> Scratch, s |-> regs.s]
    /\ Stores("irq_clear", 1) /\ Memory /\ UNCHANGED <<sp, leds>>

\* Faulty variant of schedule: the last slot is passed by one.
scheduleLate ==
    /\ Step(Trap("schedule"), Trap("load"))
    /\ current_thread' = IF current_thread + 1 > NumThreads THEN 0 ELSE current_thread + 1
    /\ Quiet /\ UNCHANGED <<regs, sp, frames, threads, leds>>
schedule ==
    /\ Step(Trap("schedule"), Trap("load"))
    /\ current_thread' = IF current_thread + 1 >= NumThreads THEN 0 ELSE current_thread + 1
    /\ Quiet /\ UNCHANGED <<regs, sp, frames, threads, leds>>

\* Sections 7 to 10.
LoadThread ==
    /\ Step(Trap("load"), Trap("restore"))
    /\ sp' = threads[current_thread].sp
    /\ regs' = [regs EXCEPT !.a = Scratch]
    /\ WritesCsr("mepc", threads[current_thread].pc)
    /\ Memory /\ leds' = leds

\* Faulty variant of RestoreRegisters: x1 is left out of the list.
RestoreRegistersNoRa ==
    /\ Step(Trap("restore"), Trap("mret"))
    /\ regs' = [frames[sp.stack] EXCEPT !.ra = regs.ra] /\ sp' = Pop(sp)
    /\ Quiet /\ Memory /\ leds' = leds
\* Faulty variant of RestoreRegisters: the frame is not removed.
RestoreRegistersKeepFrame ==
    /\ Step(Trap("restore"), Trap("mret"))
    /\ regs' = frames[sp.stack] /\ sp' = sp
    /\ Quiet /\ Memory /\ leds' = leds
\* Sections 11 and 12.
RestoreRegisters ==
    /\ Step(Trap("restore"), Trap("mret"))
    /\ regs' = frames[sp.stack] /\ sp' = Pop(sp)
    /\ Quiet /\ Memory /\ leds' = leds

Return ==
    /\ Step(Trap("mret"), mepc)
    /\ TimerTick(NoWrite) /\ TrapTick(FALSE, pc, TRUE, NoCsr)
    /\ Memory /\ UNCHANGED <<regs, sp, leds>>

TrapNext ==
    \/ SaveRegisters \/ SaveThread \/ timer_irq_clear \/ schedule
    \/ LoadThread \/ RestoreRegisters \/ Return
-------------------------------------------------------------------------------
(* Interrupts, the cycles between steps, and reset.                            *)

TakeInterrupt ==
    /\ irq_taken(irq, TRUE)
    /\ pc' = mtvec
    /\ TimerTick(NoWrite) /\ TrapTick(TRUE, pc, FALSE, NoCsr)
    /\ UNCHANGED <<regs, sp, frames, threads, current_thread, leds>>
Stall == Quiet /\ UNCHANGED cpuVars

\* Reset clears the processor and the devices. Data memory keeps its contents,
\* the thread table and current_thread among them: crt0.S clears nothing.
Reset ==
    /\ pc' = Main("start") /\ regs' = Zero /\ sp' = TopOf(Null) /\ leds' = 0
    /\ TimerReset /\ TrapReset(ResetVector, Main("start"))
    /\ UNCHANGED <<frames, threads, current_thread>>

Init ==
    /\ pc = Main("start") /\ regs = Zero /\ sp = TopOf(Null) /\ leds = 0
    /\ TimerInit /\ TrapInit(ResetVector, Main("start"))
    /\ frames = [st \in Stacks |-> Zero]
    /\ threads = [id \in Slot |-> [sp |-> TopOf(Null), pc |-> Main("start")]]
    /\ current_thread = 0

Execute == MainNext \/ ThreadNext \/ TrapNext
Clock == Execute \/ TakeInterrupt \/ Stall
Next == Clock \/ Reset
Spec == Init /\ [][Next]_vars

\* The clock runs, the program goes on, and a pending interrupt finds a cycle that
\* accepts it.
FairSpec == Spec /\ WF_vars(Clock) /\ WF_vars(Execute) /\ WF_vars(TakeInterrupt)
-------------------------------------------------------------------------------
(* Properties.                                                                 *)

ThreadAt == {"entry", "call", "gpio_write_leds"}
TrapAt == {"save", "tcb", "timer_irq_clear", "schedule", "load", "restore", "mret"}
DevicesAt == {"timer_read", "timer_set_compare", "timer_irq_enable", "gpio_write_leds", "interrupt_enable"}

\* main until it has enabled interrupts, the code that runs with them, trap_entry.
BootCode ==
    {Main(at) : at \in DevicesAt \cup {"start", "interrupt_disable", "set_handler"}} \cup
    {In("main", id, "thread_create") : id \in Slot}
ReadyCode == {Main("loop")} \cup {Thread(id, at) : id \in Slot, at \in ThreadAt}
TrapCode == {Trap(at) : at \in TrapAt}
Code == BootCode \cup ReadyCode \cup TrapCode

Pointer == [stack : Stacks, depth : Int]
Registers == [ra : Int, a : Int, s : Int]

\* The type invariant.
FirmwareTypeOK ==
    /\ TimerTypeOK
    /\ pc \in Code /\ mepc \in Code /\ mtvec \in Code \cup {ResetVector}
    /\ mstatus_mie \in BOOLEAN /\ mstatus_mpie \in BOOLEAN /\ in_interrupt \in BOOLEAN
    /\ regs \in Registers /\ sp \in Pointer /\ leds \in Int
    /\ frames \in [Stacks -> Registers]
    /\ threads \in [Slot -> [sp : Pointer, pc : Code]]
    /\ current_thread \in Slot

InKernel == pc.code = "trap"

\* The context of a slot: what executes, saved at one place or another on its way
\* between the registers, the frame on the stack and the thread table.
Context(s) ==
    IF s # current_thread \/ (InKernel /\ pc.at \in {"timer_irq_clear", "schedule", "load", "restore"})
    THEN [pc |-> threads[s].pc, sp |-> Pop(threads[s].sp), regs |-> frames[threads[s].sp.stack]]
    ELSE [pc |-> IF InKernel THEN mepc ELSE pc,
          sp |-> IF InKernel /\ pc.at = "tcb" THEN Pop(sp) ELSE sp,
          regs |-> IF InKernel /\ pc.at = "tcb" THEN frames[sp.stack] ELSE regs]

\* What thread_create prepares: the function's entry, an empty stack, registers zero.
NewThread(s) == [pc |-> Thread(s, "entry"), sp |-> TopOf(s), regs |-> Zero]

Turns == INSTANCE RoundRobin WITH
    Fresh <- [s \in Slot |-> NewThread(s)], turn <- current_thread, inKernel <- InKernel,
    context <- [s \in Slot |-> Context(s)]

\* To the code it interrupts the firmware is RoundRobin: the registers, the stack
\* pointer and the place of every slot come through a switch as they were, turns go
\* round, and nobody's context changes while another's runs.
ImplementsRoundRobin == Turns!RRSpec

\* trap_entry.S never runs with interrupts open, so it cannot be entered again
\* before it has returned, and outside it the controller is ready for the next
\* interrupt: the entry and the return of interrupt_controller.sv:152 never
\* compete for one cycle.
MaskedInKernel == IF InKernel THEN in_interrupt /\ ~mstatus_mie ELSE ~in_interrupt

\* A frame is taken off the stack it was put on: no stack drifts, however many
\* switches, and the stack a slot runs on is its own or the one main was given.
StacksBalanced ==
    ~InKernel /\ sp.stack # Null => sp.depth = 0 /\ sp.stack \in {current_thread, Boot}

\* main has no slot of its own: the first interrupt puts it where the thread of
\* the current slot was, whose function is not entered again. Every other slot
\* holds the thread created for it.
MainTakesASlot ==
    mstatus_mie =>
        /\ \A s \in Slot : Context(s).pc.code = "main" \/ Context(s).pc.id = s
        /\ \A s, t \in Slot : Context(s).pc.code = "main" /\ Context(t).pc.code = "main" => s = t
        /\ \E s \in Slot : Context(s).pc.code = "main"

\* No pattern but its own reaches the LEDs from a thread, although a switch may
\* fall between setting the argument register and the store.
OwnPattern == pc.code = "thread" /\ pc.at = "gpio_write_leds" => regs.a = Own(pc.id)

\* Every slot gets its turn again and again, although the handler sets no new
\* compare value and a match in the cycle of irq_clear is lost: the counter comes
\* round. Only pressing reset for ever can keep a slot from running.
SlotsTakeTurns ==
    \A s \in Slot : []<>(current_thread = s /\ ~InKernel) \/ []<><<Reset>>_vars
================================================================================
