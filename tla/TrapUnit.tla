-------------------------------- MODULE TrapUnit -------------------------------
(* csr_file.sv and interrupt_controller.sv, wired as the controller's comments *)
(* say: trap_enter = irq_taken, trap_pc = id_pc, trap_return = irq_return.     *)
VARIABLES
    mtvec, mepc,                    \* code addresses
    mstatus_mie, mstatus_mpie,
    in_interrupt
trapVars == <<mtvec, mepc, mstatus_mie, mstatus_mpie, in_interrupt>>

irq_taken(timer_irq, can_take_irq) ==
    timer_irq /\ mstatus_mie /\ ~in_interrupt /\ can_take_irq

\* The register a CSR instruction writes, with the data.
NoCsr == [csr |-> "none"]
CsrWrite(register, value) == [csr |-> register, data |-> value]

TrapInit(trapVector, noAddress) ==
    /\ mtvec = trapVector /\ mepc = noAddress
    /\ mstatus_mie = FALSE /\ mstatus_mpie = TRUE
    /\ in_interrupt = FALSE
TrapReset(trapVector, noAddress) ==
    /\ mtvec' = trapVector /\ mepc' = noAddress
    /\ mstatus_mie' = FALSE /\ mstatus_mpie' = TRUE
    /\ in_interrupt' = FALSE

\* One clock cycle. In csr_file an entry goes before a return, and either before
\* a write to the same register; in the controller a return goes before an entry.
Mtvec(c) == mtvec' = IF c.csr = "mtvec" THEN c.data ELSE mtvec
Mepc(taken, id_pc, c) ==
    mepc' = IF taken THEN id_pc ELSE IF c.csr = "mepc" THEN c.data ELSE mepc

\* Faulty variant of Mstatus: an entry leaves interrupts enabled.
MstatusOpen(taken, mret, c) ==
    IF taken THEN mstatus_mpie' = mstatus_mie /\ UNCHANGED mstatus_mie
    ELSE IF mret THEN mstatus_mie' = mstatus_mpie /\ mstatus_mpie' = TRUE
    ELSE IF c.csr = "mstatus" THEN mstatus_mie' = c.data.mie /\ mstatus_mpie' = c.data.mpie
    ELSE UNCHANGED <<mstatus_mie, mstatus_mpie>>
Mstatus(taken, mret, c) ==
    IF taken THEN mstatus_mpie' = mstatus_mie /\ mstatus_mie' = FALSE
    ELSE IF mret THEN mstatus_mie' = mstatus_mpie /\ mstatus_mpie' = TRUE
    ELSE IF c.csr = "mstatus" THEN mstatus_mie' = c.data.mie /\ mstatus_mpie' = c.data.mpie
    ELSE UNCHANGED <<mstatus_mie, mstatus_mpie>>

\* Faulty variant of InInterrupt: a return is forgotten.
InInterruptSticky(taken, mret) == in_interrupt' = (in_interrupt \/ taken)
InInterrupt(taken, mret) ==
    in_interrupt' = IF mret THEN FALSE ELSE IF taken THEN TRUE ELSE in_interrupt

TrapTick(taken, id_pc, mret, c) ==
    Mtvec(c) /\ Mepc(taken, id_pc, c) /\ Mstatus(taken, mret, c) /\ InInterrupt(taken, mret)
================================================================================
