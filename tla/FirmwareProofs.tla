----------------------------- MODULE FirmwareProofs ----------------------------
(* The firmware keeps its kernel masked, its stacks balanced and its contexts  *)
(* apart, and implements RoundRobin, for any number of threads, any counter    *)
(* size and any slice. The invariant says where the context of every slot is   *)
(* kept while it goes from the registers to the table and back.                *)
EXTENDS Firmware, TLAPS

\* Where main has to be before the thread of a slot is known to be in the table.
Created(s) ==
    /\ pc # Main("start") /\ pc # Main("interrupt_disable")
    /\ \A id \in Slot : pc = In("main", id, "thread_create") => s < id

\* A slot holds main on the stack of crt0.S, or its own thread on its own stack.
HoldsMain(k) == k.pc = Main("loop") /\ k.sp = TopOf(Boot)
HoldsThread(k, s) ==
    /\ k.pc \in {Thread(s, at) : at \in ThreadAt} /\ k.sp = TopOf(s)
    /\ k.pc = Thread(s, "gpio_write_leds") => k.regs.a = Own(s)

Masked ==
    /\ MaskedInKernel
    /\ pc \in BootCode => ~mstatus_mie
    /\ InKernel => mepc \in ReadyCode
HandlerSet ==
    pc \in ReadyCode \cup TrapCode \cup {Main(at) : at \in DevicesAt} => mtvec = Trap("save")
TableInBoot ==
    pc \in BootCode =>
        /\ IF pc = Main("start") THEN sp.stack = Null ELSE sp = TopOf(Boot)
        /\ \A s \in Slot : Created(s) =>
              threads[s] = [sp |-> Push(TopOf(s)), pc |-> Thread(s, "entry")]
TableStacks == \A s \in Slot : threads[s].sp.stack \in {s, Boot, Null}
SlotsFilled ==
    pc \notin BootCode =>
        /\ \A s \in Slot : HoldsMain(Context(s)) \/ HoldsThread(Context(s), s)
        /\ \E s \in Slot : HoldsMain(Context(s))
        /\ \A s, t \in Slot : HoldsMain(Context(s)) /\ HoldsMain(Context(t)) => s = t
Loaded ==
    /\ pc = Trap("restore") => sp = threads[current_thread].sp /\ mepc = threads[current_thread].pc

IInv ==
    /\ FirmwareTypeOK /\ Masked /\ HandlerSet
    /\ TableInBoot /\ TableStacks /\ SlotsFilled /\ Loaded
-------------------------------------------------------------------------------
(* Code addresses.                                                             *)

LEMMA CodeClasses ==
    /\ \A p \in BootCode : p.code = "main" /\ p.at # "loop"
    /\ \A p \in ReadyCode : p.code # "trap" /\ p \notin BootCode
    /\ \A p \in TrapCode : p.code = "trap" /\ p \notin BootCode /\ p \notin ReadyCode
    /\ \A p \in Code : p.code = "trap" => p \in TrapCode
  BY DEF BootCode, ReadyCode, TrapCode, Code, DevicesAt, ThreadAt, TrapAt, Main, Thread, Trap, In

LEMMA BootPlaces ==
    /\ \A at \in DevicesAt \cup {"start", "interrupt_disable", "set_handler"} : Main(at) \in BootCode
    /\ \A id \in Slot : In("main", id, "thread_create") \in BootCode
    /\ \A id \in Nat : id <= NumThreads => Create(id) \in BootCode
  BY FirmwareAssumption DEF BootCode, Create, Slot, DevicesAt

LEMMA RunPlaces ==
    /\ Main("loop") \in ReadyCode
    /\ \A id \in Slot, at \in ThreadAt : Thread(id, at) \in ReadyCode
    /\ \A at \in TrapAt : Trap(at) \in TrapCode
  BY DEF ReadyCode, TrapCode
-------------------------------------------------------------------------------
(* The devices.                                                                *)

LEMMA CountType == ASSUME NEW n \in Int PROVE n % CounterSize \in Count
  BY CounterAssumption DEF Count

LEMMA TimerType ==
    ASSUME TimerTypeOK, NEW w, w.to = "compare" => w.data \in Count, TimerTick(w)
    PROVE  TimerTypeOK'
  <1>1. counter' \in Count
    <2>1. counter + 1 \in Int
      BY DEF TimerTypeOK, Count
    <2> QED
      BY <2>1, CountType DEF TimerTick
  <1> QED
    BY <1>1 DEF TimerTick, TimerTypeOK

\* What the trap unit does in a cycle without entry or return.
LEMMA TrapCycle ==
    ASSUME NEW id_pc, NEW c, TrapTick(FALSE, id_pc, FALSE, c)
    PROVE  /\ in_interrupt' = in_interrupt
           /\ mtvec' = IF c.csr = "mtvec" THEN c.data ELSE mtvec
           /\ mepc' = IF c.csr = "mepc" THEN c.data ELSE mepc
           /\ mstatus_mie' = IF c.csr = "mstatus" THEN c.data.mie ELSE mstatus_mie
           /\ mstatus_mpie' = IF c.csr = "mstatus" THEN c.data.mpie ELSE mstatus_mpie
  BY Zenon DEF TrapTick, Mtvec, Mepc, Mstatus, InInterrupt

LEMMA QuietCycle ==
    ASSUME TimerTypeOK, Quiet
    PROVE  TimerTypeOK' /\ UNCHANGED trapVars
  <1>1. TimerTypeOK'
    BY TimerType DEF Quiet, NoWrite
  <1>2. NoCsr.csr = "none"
    BY DEF NoCsr
  <1> QED
    BY <1>1, <1>2, TrapCycle DEF Quiet, trapVars

LEMMA StoreCycle ==
    ASSUME TimerTypeOK, NEW register, NEW data, register = "compare" => data \in Count,
           Stores(register, data)
    PROVE  TimerTypeOK' /\ UNCHANGED trapVars
  <1>1. TimerTypeOK'
    BY TimerType DEF Stores, WriteTo
  <1>2. NoCsr.csr = "none"
    BY DEF NoCsr
  <1> QED
    BY <1>1, <1>2, TrapCycle DEF Stores, trapVars

LEMMA CsrCycle ==
    ASSUME TimerTypeOK, NEW register, NEW value, WritesCsr(register, value)
    PROVE  /\ TimerTypeOK' /\ in_interrupt' = in_interrupt
           /\ mtvec' = IF register = "mtvec" THEN value ELSE mtvec
           /\ mepc' = IF register = "mepc" THEN value ELSE mepc
           /\ mstatus_mie' = IF register = "mstatus" THEN value.mie ELSE mstatus_mie
           /\ mstatus_mpie' = IF register = "mstatus" THEN value.mpie ELSE mstatus_mpie
  <1>1. TimerTypeOK'
    BY TimerType DEF WritesCsr, NoWrite
  <1>2. CsrWrite(register, value).csr = register /\ CsrWrite(register, value).data = value
    BY DEF CsrWrite
  <1> QED
    BY <1>1, <1>2, TrapCycle, Zenon DEF WritesCsr

LEMMA CalledType ==
    ASSUME FirmwareTypeOK, NEW argument \in Int, Called(argument)
    PROVE  regs' \in Registers /\ sp' = sp
  BY FirmwareAssumption DEF Called, FirmwareTypeOK, Registers, Own
-------------------------------------------------------------------------------
(* Contexts.                                                                   *)

LEMMA Live ==
    ASSUME ~InKernel
    PROVE  Context(current_thread) = [pc |-> pc, sp |-> sp, regs |-> regs]
  BY DEF Context, InKernel

LEMMA LiveNext ==
    ASSUME ~InKernel'
    PROVE  Context(current_thread)' = [pc |-> pc', sp |-> sp', regs |-> regs']
  BY DEF Context, InKernel

LEMMA OthersKept ==
    ASSUME UNCHANGED <<frames, threads, current_thread>>
    PROVE  \A s \in Slot : s # current_thread => Context(s)' = Context(s)
  BY DEF Context

LEMMA FilledKept ==
    ASSUME SlotsFilled, pc \notin BootCode, \A s \in Slot : Context(s)' = Context(s)
    PROVE  SlotsFilled'
  BY Zenon DEF SlotsFilled, HoldsMain, HoldsThread

LEMMA PopPush ==
    /\ \A stack : Pop(Push(TopOf(stack))) = TopOf(stack)
    /\ \A p \in Pointer : Push(p) \in Pointer /\ Pop(p) \in Pointer /\ Pop(Push(p)) = p
  <1>1. \A stack : Push(TopOf(stack)) = [stack |-> stack, depth |-> 1]
    BY DEF Push, TopOf
  <1>2. \A stack : Pop([stack |-> stack, depth |-> 1]) = TopOf(stack)
    BY DEF Pop, TopOf
  <1>3. \A p \in Pointer : Push(p) \in Pointer /\ Pop(p) \in Pointer /\ Pop(Push(p)) = p
    BY DEF Push, Pop, Pointer
  <1> QED
    BY <1>1, <1>2, <1>3

LEMMA HoldsFacts ==
    /\ \A k : HoldsMain(k) => k.pc.code = "main"
    /\ \A k, s : HoldsThread(k, s) => k.pc.code = "thread" /\ k.pc.id = s
  BY DEF HoldsThread, HoldsMain, ThreadAt, Thread, Main, In

LEMMA EntryFields ==
    ASSUME NEW p, NEW q, NEW t, t = [sp |-> p, pc |-> q]
    PROVE  t.sp = p /\ t.pc = q
  OBVIOUS

LEMMA NewHolds ==
    ASSUME NEW k, NEW s, k.pc = Thread(s, "entry"), k.sp = TopOf(s)
    PROVE  HoldsThread(k, s) /\ ~HoldsMain(k)
  BY DEF HoldsThread, HoldsMain, ThreadAt, Thread, Main, In
-------------------------------------------------------------------------------
(* The invariant: init and main.                                               *)

LEMMA InitInv == Init => IInv
  <1> SUFFICES ASSUME Init PROVE IInv
    OBVIOUS
  <1>1. Main("start") \in BootCode /\ pc = Main("start")
    BY BootPlaces DEF Init
  <1>2. FirmwareTypeOK
    <2>1. TimerTypeOK
      <3>1. 0 \in Count
        BY CounterAssumption DEF Count
      <3> QED
        BY <3>1, Zenon DEF Init, TimerInit, TimerTypeOK
    <2>2. 0 \in Slot /\ TopOf(Null) \in Pointer /\ Zero \in Registers
      BY FirmwareAssumption DEF Slot, TopOf, Pointer, Stacks, Zero, Registers
    <2>3. mstatus_mie \in BOOLEAN /\ mstatus_mpie \in BOOLEAN /\ in_interrupt \in BOOLEAN
      BY Zenon DEF Init, TrapInit
    <2>4. pc \in Code /\ mepc \in Code /\ mtvec = ResetVector
      BY <1>1, Zenon DEF Init, TrapInit, Code
    <2>5. frames \in [Stacks -> Registers] /\ threads \in [Slot -> [sp : Pointer, pc : Code]]
      BY <1>1, <2>2 DEF Init, Code
    <2>6. 0 \in Int
      OBVIOUS
    <2> QED
      BY <2>1, <2>2, <2>3, <2>4, <2>5, <2>6 DEF Init, FirmwareTypeOK
  <1>3. Masked /\ HandlerSet /\ SlotsFilled /\ Loaded
    BY <1>1, CodeClasses DEF Init, TrapInit, Masked, MaskedInKernel, InKernel, HandlerSet,
       SlotsFilled, Loaded, Main, Trap, In, DevicesAt
  <1>4. TableInBoot /\ TableStacks
    BY <1>1 DEF Init, TableInBoot, Created, TableStacks, TopOf
  <1> QED
    BY <1>2, <1>3, <1>4 DEF IInv

\* A step of main that creates no thread and leaves interrupts closed.
LEMMA BootStays ==
    ASSUME IInv, pc \in BootCode, pc' \in BootCode, FirmwareTypeOK',
           pc' # Main("start"), sp' = TopOf(Boot),
           in_interrupt' = in_interrupt, mstatus_mie' = FALSE,
           pc' \in {Main(at) : at \in DevicesAt} => mtvec' = Trap("save"),
           UNCHANGED <<frames, threads, current_thread>>,
           \A s \in Slot : Created(s)' => Created(s)
    PROVE  IInv'
  <1>1. pc.code = "main" /\ pc'.code = "main" /\ pc' \notin ReadyCode \cup TrapCode
    BY CodeClasses
  <1>2. Masked'
    BY <1>1 DEF IInv, Masked, MaskedInKernel, InKernel
  <1>3. HandlerSet'
    BY <1>1 DEF HandlerSet
  <1>4. TableInBoot' /\ TableStacks'
    BY DEF IInv, TableInBoot, TableStacks
  <1>5. SlotsFilled' /\ Loaded'
    BY <1>1 DEF SlotsFilled, Loaded, Trap, In
  <1> QED
    BY <1>2, <1>3, <1>4, <1>5 DEF IInv

LEMMA StartInv == ASSUME IInv, Start PROVE IInv'
  <1>1. pc = Main("start") /\ pc' = Main("interrupt_disable") /\ pc \in BootCode /\ pc' \in BootCode
    BY BootPlaces DEF Start, Step
  <1>2. TimerTypeOK' /\ UNCHANGED trapVars
    BY QuietCycle DEF Start, IInv, FirmwareTypeOK
  <1>3. FirmwareTypeOK'
    BY <1>1, <1>2, FirmwareAssumption DEF Start, Memory, IInv, FirmwareTypeOK, trapVars, Code,
       TopOf, Pointer, Stacks, Registers, Own
  <1>4. \A s \in Slot : ~Created(s)'
    BY <1>1 DEF Created
  <1>5. mstatus_mie = FALSE
    BY <1>1 DEF IInv, Masked, FirmwareTypeOK
  <1>6. pc' \notin {Main(at) : at \in DevicesAt}
    BY <1>1 DEF DevicesAt, Main, In
  <1>20. pc' # Main("start")
    BY <1>1 DEF Main, In
  <1> QED
    BY <1>1, <1>2, <1>3, <1>4, <1>5, <1>6, <1>20, BootStays DEF Start, Memory, trapVars

LEMMA timer_readInv == ASSUME IInv, timer_read PROVE IInv'
  <1>1. pc = Main("timer_read") /\ pc' = Main("timer_set_compare") /\ pc \in BootCode /\ pc' \in BootCode
    BY BootPlaces DEF timer_read, Step, DevicesAt
  <1>2. TimerTypeOK' /\ UNCHANGED trapVars
    BY QuietCycle DEF timer_read, IInv, FirmwareTypeOK
  <1>3. regs' \in Registers /\ sp' = sp
    BY CalledType DEF timer_read, IInv, FirmwareTypeOK, TimerTypeOK, Count
  <1>4. FirmwareTypeOK'
    BY <1>1, <1>2, <1>3 DEF timer_read, Memory, IInv, FirmwareTypeOK, trapVars, Code
  <1>5. sp = TopOf(Boot) /\ mstatus_mie = FALSE /\ mtvec = Trap("save")
    BY <1>1 DEF IInv, TableInBoot, Masked, FirmwareTypeOK, HandlerSet, Main, In, DevicesAt
  <1>6. \A s \in Slot : Created(s)
    BY <1>1 DEF Created, Main, In
  <1>20. pc' # Main("start")
    BY <1>1 DEF Main, In
  <1> QED
    BY <1>1, <1>2, <1>3, <1>4, <1>5, <1>6, <1>20, BootStays DEF timer_read, Memory, trapVars

LEMMA timer_irq_enableInv == ASSUME IInv, timer_irq_enable PROVE IInv'
  <1>1. pc = Main("timer_irq_enable") /\ pc' = Main("gpio_write_leds") /\ pc \in BootCode /\ pc' \in BootCode
    BY BootPlaces DEF timer_irq_enable, Step, DevicesAt
  <1>2. TimerTypeOK' /\ UNCHANGED trapVars
    BY StoreCycle DEF timer_irq_enable, IInv, FirmwareTypeOK
  <1>3. regs' \in Registers /\ sp' = sp
    BY CalledType DEF timer_irq_enable, IInv
  <1>4. FirmwareTypeOK'
    BY <1>1, <1>2, <1>3 DEF timer_irq_enable, Memory, IInv, FirmwareTypeOK, trapVars, Code
  <1>5. sp = TopOf(Boot) /\ mstatus_mie = FALSE /\ mtvec = Trap("save")
    BY <1>1 DEF IInv, TableInBoot, Masked, FirmwareTypeOK, HandlerSet, Main, In, DevicesAt
  <1>6. \A s \in Slot : Created(s)
    BY <1>1 DEF Created, Main, In
  <1>20. pc' # Main("start")
    BY <1>1 DEF Main, In
  <1> QED
    BY <1>1, <1>2, <1>3, <1>4, <1>5, <1>6, <1>20, BootStays DEF timer_irq_enable, Memory, trapVars

LEMMA LightMainInv == ASSUME IInv, LightMain PROVE IInv'
  <1>1. pc = Main("gpio_write_leds") /\ pc' = Main("interrupt_enable") /\ pc \in BootCode /\ pc' \in BootCode
    BY BootPlaces DEF LightMain, Step, DevicesAt
  <1>2. TimerTypeOK' /\ UNCHANGED trapVars
    BY QuietCycle DEF LightMain, IInv, FirmwareTypeOK
  <1>3. regs' \in Registers /\ sp' = sp
    BY CalledType DEF LightMain, IInv
  <1>4. FirmwareTypeOK'
    BY <1>1, <1>2, <1>3 DEF LightMain, Memory, IInv, FirmwareTypeOK, trapVars, Code
  <1>5. sp = TopOf(Boot) /\ mstatus_mie = FALSE /\ mtvec = Trap("save")
    BY <1>1 DEF IInv, TableInBoot, Masked, FirmwareTypeOK, HandlerSet, Main, In, DevicesAt
  <1>6. \A s \in Slot : Created(s)
    BY <1>1 DEF Created, Main, In
  <1>20. pc' # Main("start")
    BY <1>1 DEF Main, In
  <1> QED
    BY <1>1, <1>2, <1>3, <1>4, <1>5, <1>6, <1>20, BootStays DEF LightMain, Memory, trapVars

LEMMA timer_set_compareInv == ASSUME IInv, timer_set_compare PROVE IInv'
  <1>0. (regs.a + Slice) % CounterSize \in Count
    BY CountType, FirmwareAssumption DEF IInv, FirmwareTypeOK, Registers
  <1>1. pc = Main("timer_set_compare") /\ pc' = Main("timer_irq_enable") /\ pc \in BootCode /\ pc' \in BootCode
    BY BootPlaces DEF timer_set_compare, Step, DevicesAt
  <1>2. TimerTypeOK' /\ UNCHANGED trapVars
    BY StoreCycle, <1>0 DEF timer_set_compare, IInv, FirmwareTypeOK
  <1>3. regs' \in Registers /\ sp' = sp
    BY CalledType DEF timer_set_compare, IInv
  <1>4. FirmwareTypeOK'
    BY <1>1, <1>2, <1>3 DEF timer_set_compare, Memory, IInv, FirmwareTypeOK, trapVars, Code
  <1>5. sp = TopOf(Boot) /\ mstatus_mie = FALSE /\ mtvec = Trap("save")
    BY <1>1 DEF IInv, TableInBoot, Masked, FirmwareTypeOK, HandlerSet, Main, In, DevicesAt
  <1>6. \A s \in Slot : Created(s)
    BY <1>1 DEF Created, Main, In
  <1>20. pc' # Main("start")
    BY <1>1 DEF Main, In
  <1> QED
    BY <1>1, <1>2, <1>3, <1>4, <1>5, <1>6, <1>20, BootStays DEF timer_set_compare, Memory, trapVars

LEMMA DisableInterruptsInv == ASSUME IInv, DisableInterrupts PROVE IInv'
  <1>1. /\ pc = Main("interrupt_disable") /\ pc' = Create(0)
        /\ pc \in BootCode /\ pc' \in BootCode /\ 0 \in Nat /\ 0 < NumThreads
    BY BootPlaces, FirmwareAssumption DEF DisableInterrupts, Step
  <1>2. /\ TimerTypeOK' /\ mtvec' = mtvec /\ mepc' = mepc /\ in_interrupt' = in_interrupt
        /\ mstatus_mie' = FALSE /\ mstatus_mpie' = mstatus_mpie
    <2>1. WritesCsr("mstatus", [mie |-> FALSE, mpie |-> mstatus_mpie])
      BY DEF DisableInterrupts, SetsMie
    <2>2. TimerTypeOK
      BY DEF IInv, FirmwareTypeOK
    <2> QED
      BY <2>1, <2>2, CsrCycle
  <1>3. regs' \in Registers /\ sp' = sp
    BY CalledType DEF DisableInterrupts, IInv
  <1>4. FirmwareTypeOK'
    BY <1>1, <1>2, <1>3 DEF DisableInterrupts, Memory, IInv, FirmwareTypeOK, Code
  <1>5. sp = TopOf(Boot)
    BY <1>1 DEF IInv, TableInBoot, Main, In
  <1>6. pc' = In("main", 0, "thread_create") /\ 0 \in Slot
    BY <1>1, FirmwareAssumption DEF Create, Slot
  <1>7. \A s \in Slot : ~Created(s)'
    BY <1>6 DEF Created, Slot
  <1>8. pc' \notin {Main(at) : at \in DevicesAt}
    BY <1>6 DEF DevicesAt, Main, In
  <1>20. pc' # Main("start")
    BY <1>6 DEF Main, In
  <1> QED
    BY <1>1, <1>2, <1>3, <1>4, <1>5, <1>7, <1>8, <1>20, BootStays DEF DisableInterrupts, Memory

LEMMA SetHandlerInv == ASSUME IInv, SetHandler PROVE IInv'
  <1>1. pc = Main("set_handler") /\ pc' = Main("timer_read") /\ pc \in BootCode /\ pc' \in BootCode
    BY BootPlaces DEF SetHandler, Step, DevicesAt
  <1>2. /\ TimerTypeOK' /\ mtvec' = Trap("save") /\ mepc' = mepc /\ in_interrupt' = in_interrupt
        /\ mstatus_mie' = mstatus_mie /\ mstatus_mpie' = mstatus_mpie
    BY CsrCycle DEF SetHandler, IInv, FirmwareTypeOK
  <1>3. regs' \in Registers /\ sp' = sp
    BY CalledType DEF SetHandler, IInv
  <1>4. Trap("save") \in Code
    BY RunPlaces DEF Code, TrapAt
  <1>5. FirmwareTypeOK'
    BY <1>1, <1>2, <1>3, <1>4 DEF SetHandler, Memory, IInv, FirmwareTypeOK, Code
  <1>6. sp = TopOf(Boot) /\ mstatus_mie = FALSE
    BY <1>1 DEF IInv, TableInBoot, Masked, FirmwareTypeOK, Main, In
  <1>7. \A s \in Slot : Created(s)
    BY <1>1 DEF Created, Main, In
  <1>20. pc' # Main("start")
    BY <1>1 DEF Main, In
  <1> QED
    BY <1>1, <1>2, <1>3, <1>5, <1>6, <1>7, <1>20, BootStays DEF SetHandler, Memory

LEMMA thread_createInv == ASSUME IInv, NEW id \in Slot, thread_create(id) PROVE IInv'
  <1>1. /\ pc = In("main", id, "thread_create") /\ pc' = Create(id + 1)
        /\ pc \in BootCode /\ pc' \in BootCode
    <2>1. id \in Nat /\ id < NumThreads /\ id + 1 \in Nat /\ id + 1 <= NumThreads
      BY FirmwareAssumption DEF Slot
    <2>2. Create(id) = In("main", id, "thread_create")
      BY <2>1 DEF Create
    <2> QED
      BY <2>1, <2>2, BootPlaces DEF thread_create, Step
  <1>2. pc' # Main("start") /\ pc' # Main("interrupt_disable") /\ pc' \notin {Main(at) : at \in DevicesAt}
    BY <1>1 DEF Create, Main, In, DevicesAt
  <1>3. TimerTypeOK' /\ UNCHANGED trapVars
    BY QuietCycle DEF thread_create, IInv, FirmwareTypeOK
  <1>4. regs' \in Registers /\ sp' = sp /\ sp = TopOf(Boot)
    <2>1. id \in Int
      BY DEF Slot
    <2>2. sp = TopOf(Boot)
      BY <1>1 DEF IInv, TableInBoot, Main, In
    <2> QED
      BY <2>1, <2>2, CalledType DEF thread_create, IInv
  <1>5. Push(TopOf(id)) = [stack |-> id, depth |-> 1] /\ Push(TopOf(id)) \in Pointer
    BY DEF Push, TopOf, Pointer, Stacks
  <1>6. Thread(id, "entry") \in Code /\ Zero \in Registers
    BY RunPlaces DEF Code, ThreadAt, Zero, Registers
  <1>7. FirmwareTypeOK'
    <2>1. frames' \in [Stacks -> Registers] /\ threads' \in [Slot -> [sp : Pointer, pc : Code]]
      BY <1>5, <1>6 DEF thread_create, IInv, FirmwareTypeOK
    <2> QED
      BY <1>1, <1>3, <1>4, <2>1 DEF thread_create, IInv, FirmwareTypeOK, trapVars, Code
  <1>8. Masked'
    BY <1>1, <1>3, CodeClasses DEF IInv, Masked, MaskedInKernel, InKernel, FirmwareTypeOK, trapVars
  <1>9. HandlerSet' /\ SlotsFilled' /\ Loaded'
    BY <1>1, <1>2, CodeClasses DEF HandlerSet, SlotsFilled, Loaded, Trap, In
  <1>10. TableInBoot'
    <2>1. \A s \in Slot : Created(s)' => s = id \/ s < id
      BY <1>1, FirmwareAssumption DEF Created, Create, Slot, Main, In
    <2>2. \A s \in Slot : s < id => Created(s)
      BY <1>1 DEF Created, Main, In, Slot
    <2>3. \A s \in Slot : threads'[s] = IF s = id THEN [sp |-> Push(TopOf(s)), pc |-> Thread(s, "entry")]
                                               ELSE threads[s]
      BY DEF thread_create, IInv, FirmwareTypeOK
    <2>4. \A s \in Slot : Created(s) => threads[s] = [sp |-> Push(TopOf(s)), pc |-> Thread(s, "entry")]
      BY <1>1 DEF IInv, TableInBoot
    <2> QED
      BY <1>2, <1>4, <2>1, <2>2, <2>3, <2>4 DEF TableInBoot
  <1>11. TableStacks'
    BY <1>5 DEF thread_create, IInv, FirmwareTypeOK, TableStacks
  <1> QED
    BY <1>7, <1>8, <1>9, <1>10, <1>11 DEF IInv

LEMMA EnableInterruptsInv == ASSUME IInv, EnableInterrupts PROVE IInv'
  <1>1. pc = Main("interrupt_enable") /\ pc' = Main("loop") /\ pc \in BootCode /\ pc' \in ReadyCode
    BY BootPlaces, RunPlaces DEF EnableInterrupts, Step, DevicesAt
  <1>2. /\ TimerTypeOK' /\ mtvec' = mtvec /\ mepc' = mepc /\ in_interrupt' = in_interrupt
        /\ mstatus_mie' = TRUE /\ mstatus_mpie' = mstatus_mpie
    <2>1. WritesCsr("mstatus", [mie |-> TRUE, mpie |-> mstatus_mpie])
      BY DEF EnableInterrupts, SetsMie
    <2>2. TimerTypeOK
      BY DEF IInv, FirmwareTypeOK
    <2> QED
      BY <2>1, <2>2, CsrCycle
  <1>3. regs' \in Registers /\ sp' = sp
    BY CalledType DEF EnableInterrupts, IInv
  <1>4. FirmwareTypeOK'
    BY <1>1, <1>2, <1>3 DEF EnableInterrupts, Memory, IInv, FirmwareTypeOK, Code
  <1>5. pc' \notin BootCode /\ pc'.code = "main" /\ pc.code = "main"
    BY <1>1, CodeClasses DEF Main, In
  <1>6. Masked'
    BY <1>2, <1>5 DEF IInv, Masked, MaskedInKernel, InKernel
  <1>7. HandlerSet'
    BY <1>1, <1>2 DEF IInv, HandlerSet, DevicesAt
  <1>8. TableInBoot' /\ TableStacks' /\ Loaded'
    BY <1>5 DEF EnableInterrupts, Memory, IInv, TableInBoot, TableStacks, Loaded, Trap, In
  <1>9. SlotsFilled'
    <2>1. \A s \in Slot : threads[s] = [sp |-> Push(TopOf(s)), pc |-> Thread(s, "entry")]
      BY <1>1 DEF IInv, TableInBoot, Created, Main, In
    <2>2. \A s \in Slot : s # current_thread => Context(s)'.pc = Thread(s, "entry") /\ Context(s)'.sp = TopOf(s)
      <3> SUFFICES ASSUME NEW s \in Slot, s # current_thread
                   PROVE  Context(s)'.pc = Thread(s, "entry") /\ Context(s)'.sp = TopOf(s)
        OBVIOUS
      <3>1. Context(s)'.pc = threads[s].pc /\ Context(s)'.sp = Pop(threads[s].sp)
        BY DEF EnableInterrupts, Memory, Context
      <3> QED
        <4>1. threads[s].pc = Thread(s, "entry") /\ threads[s].sp = Push(TopOf(s))
          <5>1. threads[s] = [sp |-> Push(TopOf(s)), pc |-> Thread(s, "entry")]
            BY <2>1
          <5> QED
            BY <5>1, EntryFields
        <4> QED
          BY <3>1, <4>1, PopPush
    <2>3. HoldsMain(Context(current_thread)')
      <3>1. ~InKernel'
        BY <1>5 DEF InKernel
      <3>2. sp' = TopOf(Boot)
        BY <1>1, <1>3 DEF IInv, TableInBoot, Main, In
      <3> QED
        BY <1>1, <3>1, <3>2, LiveNext DEF HoldsMain, EnableInterrupts, Memory
    <2>4. \A s \in Slot : s # current_thread => HoldsThread(Context(s)', s) /\ ~HoldsMain(Context(s)')
      BY <2>2, NewHolds
    <2>5. current_thread' = current_thread /\ current_thread \in Slot
      BY DEF EnableInterrupts, Memory, IInv, FirmwareTypeOK
    <2>6. \A s \in Slot : HoldsMain(Context(s))' <=> s = current_thread
      BY <2>3, <2>4, <2>5, Zenon DEF HoldsMain
    <2>7. \A s \in Slot : HoldsMain(Context(s))' \/ HoldsThread(Context(s), s)'
      BY <2>3, <2>4, <2>5, Zenon DEF HoldsMain, HoldsThread
    <2> QED
      BY <2>5, <2>6, <2>7, Zenon DEF SlotsFilled
  <1> QED
    BY <1>4, <1>6, <1>7, <1>8, <1>9 DEF IInv
-------------------------------------------------------------------------------
(* The invariant: threads, cycles between steps, interrupts and reset.         *)

\* What runs outside the kernel with interrupts open.
LEMMA Running ==
    ASSUME IInv, pc \in ReadyCode
    PROVE  /\ ~InKernel /\ pc \notin BootCode
           /\ current_thread \in Slot
           /\ \/ pc = Main("loop") /\ sp = TopOf(Boot)
              \/ /\ pc \in {Thread(current_thread, at) : at \in ThreadAt} /\ sp = TopOf(current_thread)
                 /\ pc = Thread(current_thread, "gpio_write_leds") => regs.a = Own(current_thread)
  <1>1. ~InKernel /\ pc \notin BootCode
    BY CodeClasses DEF InKernel
  <1>2. current_thread \in Slot
    BY DEF IInv, FirmwareTypeOK
  <1>3. HoldsMain(Context(current_thread)) \/ HoldsThread(Context(current_thread), current_thread)
    BY <1>1, <1>2 DEF IInv, SlotsFilled
  <1> QED
    BY <1>1, <1>2, <1>3, Live DEF HoldsMain, HoldsThread

LEMMA ThreadStays ==
    ASSUME IInv, NEW id \in Slot, NEW from \in ThreadAt, NEW to \in ThreadAt,
           pc = Thread(id, from), pc' = Thread(id, to),
           to = "gpio_write_leds" => regs'.a = Own(id),
           TimerTypeOK', UNCHANGED trapVars, Memory, sp' = sp, regs' \in Registers, leds' \in Int
    PROVE  IInv'
  <1>1. pc \in ReadyCode /\ pc' \in ReadyCode
    BY RunPlaces
  <1>2. pc.code = "thread" /\ pc'.code = "thread" /\ pc' \notin BootCode
    BY <1>1, CodeClasses DEF Thread, In
  <1>3. id = current_thread /\ sp = TopOf(id)
    BY <1>1, Running DEF Thread, Main, In, ThreadAt
  <1>4. FirmwareTypeOK'
    BY <1>1 DEF Memory, IInv, FirmwareTypeOK, trapVars, Code
  <1>5. Masked' /\ HandlerSet'
    BY <1>1, <1>2, CodeClasses DEF IInv, Masked, MaskedInKernel, InKernel, HandlerSet, trapVars, Memory
  <1>6. TableInBoot' /\ TableStacks' /\ Loaded'
    BY <1>2 DEF Memory, IInv, TableInBoot, TableStacks, Loaded, Trap, In
  <1>7. SlotsFilled'
    <2>1. \A s \in Slot : s # current_thread => Context(s)' = Context(s)
      BY OthersKept DEF Memory
    <2>2. current_thread \in Slot /\ current_thread' = current_thread /\ pc \notin BootCode
      BY <1>1, Running DEF Memory
    <2>3. HoldsThread(Context(current_thread), current_thread)' /\ ~HoldsMain(Context(current_thread))'
      <3>1. Context(current_thread)' = [pc |-> pc', sp |-> sp', regs |-> regs']
        BY <1>2, LiveNext DEF InKernel
      <3> QED
        BY <1>2, <1>3, <2>2, <3>1 DEF HoldsThread, HoldsMain, Thread, Main, In
    <2>4. ~HoldsMain(Context(current_thread))
      BY <1>1, <1>2, Live, Running DEF HoldsMain, Main, In
    <2>5. \A s \in Slot : HoldsMain(Context(s))' <=> HoldsMain(Context(s))
      BY <2>1, <2>2, <2>3, <2>4, Zenon DEF HoldsMain
    <2>6. \A s \in Slot : HoldsMain(Context(s))' \/ HoldsThread(Context(s), s)'
      <3>1. \A s \in Slot : s # current_thread =>
                (HoldsMain(Context(s))' <=> HoldsMain(Context(s))) /\
                (HoldsThread(Context(s), s)' <=> HoldsThread(Context(s), s))
        BY <2>1, Zenon DEF HoldsMain, HoldsThread
      <3>2. \A s \in Slot : HoldsMain(Context(s)) \/ HoldsThread(Context(s), s)
        BY <2>2 DEF IInv, SlotsFilled
      <3>3. HoldsThread(Context(current_thread), current_thread)'
        BY <2>3
      <3> QED
        BY <2>2, <3>1, <3>2, <3>3, Zenon DEF HoldsThread
    <2> QED
      BY <2>2, <2>5, <2>6, Zenon DEF IInv, SlotsFilled
  <1> QED
    BY <1>4, <1>5, <1>6, <1>7 DEF IInv

LEMMA ThreadInv == ASSUME IInv, ThreadNext PROVE IInv'
  <1>0. TimerTypeOK /\ regs \in Registers /\ leds \in Int
    BY DEF IInv, FirmwareTypeOK
  <1>1. ASSUME NEW id \in Slot, Enter(id) PROVE IInv'
    <2>1. TimerTypeOK' /\ UNCHANGED trapVars
      BY <1>0, <1>1, QuietCycle DEF Enter
    <2>2. regs' \in Registers
      BY <1>0, <1>1 DEF Enter, Registers, Own, Slot
    <2> QED
      BY <1>0, <1>1, <2>1, <2>2, ThreadStays DEF Enter, Step, ThreadAt
  <1>2. ASSUME NEW id \in Slot, CallLeds(id) PROVE IInv'
    <2>1. TimerTypeOK' /\ UNCHANGED trapVars
      BY <1>0, <1>2, QuietCycle DEF CallLeds
    <2>2. regs' \in Registers /\ regs'.a = Own(id)
      BY <1>0, <1>2 DEF CallLeds, Registers, Own, Slot
    <2> QED
      BY <1>0, <1>2, <2>1, <2>2, ThreadStays DEF CallLeds, Step, ThreadAt
  <1>3. ASSUME NEW id \in Slot, LightThread(id) PROVE IInv'
    <2>1. TimerTypeOK' /\ UNCHANGED trapVars
      BY <1>0, <1>3, QuietCycle DEF LightThread
    <2>2. regs.a \in Int
      BY <1>0 DEF Registers
    <2> QED
      BY <1>0, <1>3, <2>1, <2>2, ThreadStays DEF LightThread, Step, ThreadAt
  <1> QED
    BY <1>1, <1>2, <1>3 DEF ThreadNext

LEMMA StallInv == ASSUME IInv, Stall PROVE IInv'
  <1>1. TimerTypeOK' /\ UNCHANGED trapVars /\ UNCHANGED cpuVars
    BY QuietCycle DEF Stall, IInv, FirmwareTypeOK
  <1>2. FirmwareTypeOK'
    BY <1>1 DEF IInv, FirmwareTypeOK, trapVars, cpuVars
  <1>3. Masked' /\ HandlerSet' /\ TableInBoot' /\ TableStacks' /\ Loaded'
    BY <1>1 DEF IInv, Masked, MaskedInKernel, InKernel, HandlerSet, TableInBoot, Created, TableStacks,
       Loaded, trapVars, cpuVars
  <1>4. SlotsFilled'
    BY <1>1 DEF IInv, SlotsFilled, Context, InKernel, trapVars, cpuVars
  <1> QED
    BY <1>2, <1>3, <1>4 DEF IInv

LEMMA ResetInv == ASSUME IInv, Reset PROVE IInv'
  <1>1. Main("start") \in BootCode /\ pc' = Main("start")
    BY BootPlaces DEF Reset
  <1>2. FirmwareTypeOK'
    <2>1. TimerTypeOK'
      <3>1. 0 \in Count
        BY CounterAssumption DEF Count
      <3> QED
        BY <3>1, Zenon DEF Reset, TimerReset, TimerTypeOK
    <2>2. TopOf(Null) \in Pointer /\ Zero \in Registers
      BY DEF TopOf, Pointer, Stacks, Zero, Registers
    <2>3. mstatus_mie' \in BOOLEAN /\ mstatus_mpie' \in BOOLEAN /\ in_interrupt' \in BOOLEAN
      BY Zenon DEF Reset, TrapReset
    <2>4. pc' \in Code /\ mepc' \in Code /\ mtvec' = ResetVector
      BY <1>1, Zenon DEF Reset, TrapReset, Code
    <2>5. 0 \in Int
      OBVIOUS
    <2> QED
      BY <2>1, <2>2, <2>3, <2>4, <2>5 DEF Reset, IInv, FirmwareTypeOK
  <1>3. Masked' /\ HandlerSet' /\ SlotsFilled' /\ Loaded'
    BY <1>1, CodeClasses DEF Reset, TrapReset, Masked, MaskedInKernel, InKernel, HandlerSet,
       SlotsFilled, Loaded, Main, Trap, In, DevicesAt
  <1>4. TableInBoot' /\ TableStacks'
    BY <1>1 DEF Reset, IInv, TableInBoot, Created, TableStacks, TopOf
  <1> QED
    BY <1>2, <1>3, <1>4 DEF IInv
-------------------------------------------------------------------------------
(* The invariant: trap_entry.S. Its steps change no context.                   *)

LEMMA OwnStacks ==
    ASSUME IInv, pc \notin BootCode, NEW s \in Slot
    PROVE  Context(s).sp.stack \in {s, Boot}
  <1>1. HoldsMain(Context(s)) \/ HoldsThread(Context(s), s)
    BY DEF IInv, SlotsFilled
  <1> QED
    BY <1>1 DEF HoldsMain, HoldsThread, TopOf

LEMMA DistinctStacks ==
    ASSUME IInv, pc \notin BootCode, NEW s \in Slot, NEW t \in Slot, s # t
    PROVE  Context(s).sp.stack # Context(t).sp.stack
  <1>1. /\ HoldsMain(Context(s)) \/ HoldsThread(Context(s), s)
        /\ HoldsMain(Context(t)) \/ HoldsThread(Context(t), t)
        /\ ~(HoldsMain(Context(s)) /\ HoldsMain(Context(t)))
    BY DEF IInv, SlotsFilled
  <1>2. s # Boot /\ t # Boot
    BY DEF Slot, Boot
  <1> QED
    BY <1>1, <1>2 DEF HoldsMain, HoldsThread, TopOf

LEMMA KernelStays ==
    ASSUME IInv, pc \in TrapCode, pc' \in TrapCode, FirmwareTypeOK',
           in_interrupt' = in_interrupt, mstatus_mie' = mstatus_mie, mtvec' = mtvec,
           mepc' \in ReadyCode, \A s \in Slot : Context(s)' = Context(s),
           TableStacks', Loaded'
    PROVE  IInv'
  <1>1. pc.code = "trap" /\ pc'.code = "trap" /\ pc \notin BootCode /\ pc' \notin BootCode
    BY CodeClasses
  <1>2. Masked'
    BY <1>1 DEF IInv, Masked, MaskedInKernel, InKernel
  <1>3. HandlerSet'
    BY DEF IInv, HandlerSet
  <1>4. TableInBoot'
    BY <1>1 DEF TableInBoot
  <1>5. SlotsFilled'
    BY <1>1, FilledKept DEF IInv
  <1> QED
    BY <1>2, <1>3, <1>4, <1>5 DEF IInv

LEMMA TakeInterruptStep ==
    ASSUME IInv, TakeInterrupt
    PROVE  /\ IInv' /\ pc \in ReadyCode /\ pc' = Trap("save")
           /\ \A s \in Slot : Context(s)' = Context(s)
           /\ current_thread' = current_thread
  <1>1. pc \in ReadyCode
    <2>1. mstatus_mie /\ ~in_interrupt
      BY DEF TakeInterrupt, irq_taken
    <2>2. pc \notin BootCode
      BY <2>1 DEF IInv, Masked
    <2>3. pc \notin TrapCode
      BY <2>1, CodeClasses DEF IInv, Masked, MaskedInKernel, InKernel
    <2> QED
      BY <2>2, <2>3 DEF IInv, FirmwareTypeOK, Code
  <1>2. pc' = Trap("save") /\ pc' \in TrapCode
    BY <1>1, RunPlaces DEF TakeInterrupt, IInv, HandlerSet, TrapAt
  <1>3. TimerTypeOK'
    BY TimerType DEF TakeInterrupt, IInv, FirmwareTypeOK, NoWrite
  <1>4. in_interrupt' /\ ~mstatus_mie' /\ mstatus_mpie' = mstatus_mie /\ mepc' = pc /\ mtvec' = mtvec
    BY Zenon DEF TakeInterrupt, TrapTick, Mtvec, Mepc, Mstatus, InInterrupt, NoCsr
  <1>5. UNCHANGED <<regs, sp, frames, threads, current_thread, leds>>
    BY DEF TakeInterrupt
  <1>6. in_interrupt' \in BOOLEAN /\ mstatus_mie' \in BOOLEAN /\ mstatus_mpie' \in BOOLEAN
    <2>1. in_interrupt' = TRUE /\ mstatus_mie' = FALSE
      BY Zenon DEF TakeInterrupt, TrapTick, Mstatus, InInterrupt
    <2> QED
      BY <1>4, <2>1, Zenon DEF IInv, FirmwareTypeOK
  <1>7. FirmwareTypeOK'
    BY <1>1, <1>2, <1>3, <1>4, <1>5, <1>6 DEF IInv, FirmwareTypeOK, Code
  <1>8. pc'.code = "trap" /\ pc'.at = "save" /\ pc' \notin BootCode /\ pc'.code # "main"
    BY <1>2, CodeClasses DEF Trap, In
  <1>9. \A s \in Slot : Context(s)' = Context(s)
    <2>1. Context(current_thread)' = Context(current_thread)
      BY <1>1, <1>4, <1>5, <1>8, Running DEF Context, InKernel
    <2> QED
      BY <1>5, <2>1, OthersKept
  <1>10. Masked' /\ HandlerSet' /\ TableInBoot' /\ TableStacks' /\ Loaded'
    BY <1>1, <1>2, <1>4, <1>5, <1>8 DEF IInv, Masked, MaskedInKernel, InKernel, HandlerSet,
       TableInBoot, TableStacks, Loaded, Trap, In
  <1>11. SlotsFilled'
    BY <1>1, <1>9, FilledKept, CodeClasses DEF IInv
  <1> QED
    BY <1>1, <1>2, <1>5, <1>7, <1>9, <1>10, <1>11 DEF IInv

LEMMA SaveRegistersStep ==
    ASSUME IInv, SaveRegisters
    PROVE  IInv' /\ \A s \in Slot : Context(s)' = Context(s)
  <1>1. pc = Trap("save") /\ pc' = Trap("tcb") /\ pc \in TrapCode /\ pc' \in TrapCode
    BY RunPlaces DEF SaveRegisters, Step, TrapAt
  <1>2. pc \notin BootCode /\ pc.code = "trap" /\ pc.at = "save" /\ pc'.code = "trap" /\ pc'.at = "tcb"
    BY <1>1, CodeClasses DEF Trap, In
  <1>3. TimerTypeOK' /\ UNCHANGED trapVars
    BY QuietCycle DEF SaveRegisters, IInv, FirmwareTypeOK
  <1>4. current_thread \in Slot /\ sp \in Pointer /\ sp.stack \in Stacks
    BY DEF IInv, FirmwareTypeOK, Pointer
  <1>5. /\ frames' = [frames EXCEPT ![sp.stack] = regs] /\ sp' = Push(sp)
        /\ UNCHANGED <<regs, threads, current_thread, leds>>
    BY DEF SaveRegisters
  <1>6. FirmwareTypeOK'
    BY <1>1, <1>3, <1>4, <1>5, PopPush DEF IInv, FirmwareTypeOK, trapVars, Code
  <1>7. Context(current_thread).sp = sp
    BY <1>2 DEF Context, InKernel
  <1>8. Context(current_thread)' = Context(current_thread)
    <2>1. Context(current_thread) = [pc |-> mepc, sp |-> sp, regs |-> regs]
      BY <1>2 DEF Context, InKernel
    <2>2. Context(current_thread)' = [pc |-> mepc', sp |-> Pop(sp'), regs |-> frames'[sp'.stack]]
      BY <1>2, <1>5 DEF Context, InKernel
    <2>3. sp'.stack = sp.stack /\ Pop(sp') = sp
      BY <1>4, <1>5, PopPush DEF Push
    <2>4. frames'[sp.stack] = regs
      BY <1>4, <1>5 DEF IInv, FirmwareTypeOK
    <2> QED
      BY <1>3, <2>1, <2>2, <2>3, <2>4 DEF trapVars
  <1>9. \A s \in Slot : s # current_thread => Context(s)' = Context(s)
    <2> SUFFICES ASSUME NEW s \in Slot, s # current_thread PROVE Context(s)' = Context(s)
      OBVIOUS
    <2>1. Context(s) = [pc |-> threads[s].pc, sp |-> Pop(threads[s].sp), regs |-> frames[threads[s].sp.stack]]
      BY DEF Context
    <2>2. Context(s)' = [pc |-> threads[s].pc, sp |-> Pop(threads[s].sp), regs |-> frames'[threads[s].sp.stack]]
      BY <1>5 DEF Context
    <2>3. threads[s].sp.stack # sp.stack
      BY <1>2, <1>4, <1>7, <2>1, DistinctStacks DEF Pop
    <2>4. frames'[threads[s].sp.stack] = frames[threads[s].sp.stack]
      BY <1>5, <2>3 DEF IInv, FirmwareTypeOK, Pointer
    <2> QED
      BY <2>1, <2>2, <2>4
  <1>10. TableStacks' /\ Loaded'
    BY <1>1, <1>5 DEF IInv, TableStacks, Loaded, Trap, In
  <1>11. mepc' \in ReadyCode
    BY <1>2, <1>3 DEF IInv, Masked, InKernel, trapVars
  <1>12. \A s \in Slot : Context(s)' = Context(s)
    BY <1>5, <1>8, <1>9
  <1>13. in_interrupt' = in_interrupt /\ mstatus_mie' = mstatus_mie /\ mtvec' = mtvec
    BY <1>3 DEF trapVars
  <1> QED
    BY <1>1, <1>6, <1>10, <1>11, <1>12, <1>13, KernelStays

LEMMA SaveThreadStep ==
    ASSUME IInv, SaveThread
    PROVE  IInv' /\ \A s \in Slot : Context(s)' = Context(s)
  <1>1. pc = Trap("tcb") /\ pc' = Trap("timer_irq_clear") /\ pc \in TrapCode /\ pc' \in TrapCode
    BY RunPlaces DEF SaveThread, Step, TrapAt
  <1>2. /\ pc \notin BootCode /\ pc.code = "trap" /\ pc.at = "tcb"
        /\ pc'.code = "trap" /\ pc'.at = "timer_irq_clear"
    BY <1>1, CodeClasses DEF Trap, In
  <1>3. current_thread \in Slot /\ mepc \in ReadyCode
    BY <1>2 DEF IInv, FirmwareTypeOK, Masked, InKernel
  <1>4. TimerTypeOK' /\ UNCHANGED trapVars
    BY QuietCycle DEF SaveThread, IInv, FirmwareTypeOK
  <1>5. /\ threads' = [threads EXCEPT ![current_thread] = [sp |-> sp, pc |-> mepc]]
        /\ UNCHANGED <<sp, frames, current_thread, leds>>
    BY DEF SaveThread
  <1>6. regs' \in Registers
    BY DEF SaveThread, IInv, FirmwareTypeOK, Registers, Scratch
  <1>7. threads'[current_thread] = [sp |-> sp, pc |-> mepc]
    BY <1>3, <1>5 DEF IInv, FirmwareTypeOK
  <1>8. \A s \in Slot : s # current_thread => threads'[s] = threads[s]
    BY <1>5 DEF IInv, FirmwareTypeOK
  <1>20. FirmwareTypeOK'
    BY <1>1, <1>4, <1>5, <1>6 DEF IInv, FirmwareTypeOK, trapVars, Code
  <1>21. in_interrupt' = in_interrupt /\ mstatus_mie' = mstatus_mie /\ mtvec' = mtvec /\ mepc' \in ReadyCode
    BY <1>3, <1>4 DEF trapVars
  <1>9. Context(current_thread) = [pc |-> mepc, sp |-> Pop(sp), regs |-> frames[sp.stack]]
    BY <1>2 DEF Context, InKernel
  <1>22. \A s \in Slot : Context(s)' = Context(s)
    <2>1. threads'[current_thread].sp = sp /\ threads'[current_thread].pc = mepc
      BY <1>7, EntryFields
    <2>2. Context(current_thread)' = Context(current_thread)
      BY <1>2, <1>5, <1>9, <2>1 DEF Context, InKernel
    <2>3. \A s \in Slot : s # current_thread => Context(s)' = Context(s)
      BY <1>5, <1>8 DEF Context
    <2> QED
      BY <1>5, <2>2, <2>3
  <1>23. TableStacks'
    <2>1. sp.stack \in {current_thread, Boot}
      BY <1>2, <1>3, <1>9, OwnStacks DEF Pop
    <2>2. threads'[current_thread].sp = sp
      BY <1>7, EntryFields
    <2> QED
      BY <1>8, <2>1, <2>2 DEF IInv, TableStacks
  <1>24. Loaded'
    BY <1>1 DEF Loaded, Trap, In
  <1> QED
    BY <1>1, <1>20, <1>21, <1>22, <1>23, <1>24, KernelStays

LEMMA timer_irq_clearStep ==
    ASSUME IInv, timer_irq_clear
    PROVE  IInv' /\ \A s \in Slot : Context(s)' = Context(s)
  <1>1. pc = Trap("timer_irq_clear") /\ pc' = Trap("schedule") /\ pc \in TrapCode /\ pc' \in TrapCode
    BY RunPlaces DEF timer_irq_clear, Step, TrapAt
  <1>2. /\ pc \notin BootCode /\ pc.code = "trap" /\ pc.at = "timer_irq_clear"
        /\ pc'.code = "trap" /\ pc'.at = "schedule"
    BY <1>1, CodeClasses DEF Trap, In
  <1>3. current_thread \in Slot /\ mepc \in ReadyCode
    BY <1>2 DEF IInv, FirmwareTypeOK, Masked, InKernel
  <1>4. TimerTypeOK' /\ UNCHANGED trapVars
    BY StoreCycle DEF timer_irq_clear, IInv, FirmwareTypeOK
  <1>5. UNCHANGED <<sp, frames, threads, current_thread, leds>> /\ regs' \in Registers
    BY DEF timer_irq_clear, Memory, IInv, FirmwareTypeOK, Registers, Scratch
  <1>20. FirmwareTypeOK'
    BY <1>1, <1>4, <1>5 DEF IInv, FirmwareTypeOK, trapVars, Code
  <1>21. in_interrupt' = in_interrupt /\ mstatus_mie' = mstatus_mie /\ mtvec' = mtvec /\ mepc' \in ReadyCode
    BY <1>3, <1>4 DEF trapVars
  <1>22. \A s \in Slot : Context(s)' = Context(s)
    BY <1>2, <1>5 DEF Context, InKernel
  <1>23. TableStacks'
    BY <1>5 DEF IInv, TableStacks
  <1>24. Loaded'
    BY <1>1 DEF Loaded, Trap, In
  <1> QED
    BY <1>1, <1>20, <1>21, <1>22, <1>23, <1>24, KernelStays

LEMMA scheduleStep ==
    ASSUME IInv, schedule
    PROVE  IInv' /\ \A s \in Slot : Context(s)' = Context(s)
  <1>1. pc = Trap("schedule") /\ pc' = Trap("load") /\ pc \in TrapCode /\ pc' \in TrapCode
    BY RunPlaces DEF schedule, Step, TrapAt
  <1>2. /\ pc \notin BootCode /\ pc.code = "trap" /\ pc.at = "schedule"
        /\ pc'.code = "trap" /\ pc'.at = "load"
    BY <1>1, CodeClasses DEF Trap, In
  <1>3. current_thread \in Slot /\ mepc \in ReadyCode
    BY <1>2 DEF IInv, FirmwareTypeOK, Masked, InKernel
  <1>4. TimerTypeOK' /\ UNCHANGED trapVars
    BY QuietCycle DEF schedule, IInv, FirmwareTypeOK
  <1>5. UNCHANGED <<regs, sp, frames, threads, leds>> /\ current_thread' \in Slot
    BY <1>3, FirmwareAssumption DEF schedule, Slot
  <1>20. FirmwareTypeOK'
    BY <1>1, <1>4, <1>5 DEF IInv, FirmwareTypeOK, trapVars, Code
  <1>21. in_interrupt' = in_interrupt /\ mstatus_mie' = mstatus_mie /\ mtvec' = mtvec /\ mepc' \in ReadyCode
    BY <1>3, <1>4 DEF trapVars
  <1>22. \A s \in Slot : Context(s)' = Context(s)
    BY <1>2, <1>5 DEF Context, InKernel
  <1>23. TableStacks'
    BY <1>5 DEF IInv, TableStacks
  <1>24. Loaded'
    BY <1>1 DEF Loaded, Trap, In
  <1> QED
    BY <1>1, <1>20, <1>21, <1>22, <1>23, <1>24, KernelStays

LEMMA LoadThreadStep ==
    ASSUME IInv, LoadThread
    PROVE  IInv' /\ \A s \in Slot : Context(s)' = Context(s)
  <1>1. pc = Trap("load") /\ pc' = Trap("restore") /\ pc \in TrapCode /\ pc' \in TrapCode
    BY RunPlaces DEF LoadThread, Step, TrapAt
  <1>2. /\ pc \notin BootCode /\ pc.code = "trap" /\ pc.at = "load"
        /\ pc'.code = "trap" /\ pc'.at = "restore"
    BY <1>1, CodeClasses DEF Trap, In
  <1>3. current_thread \in Slot /\ mepc \in ReadyCode
    BY <1>2 DEF IInv, FirmwareTypeOK, Masked, InKernel
  <1>4. TimerTypeOK' /\ in_interrupt' = in_interrupt /\ mstatus_mie' = mstatus_mie
        /\ mstatus_mpie' = mstatus_mpie /\ mtvec' = mtvec /\ mepc' = threads[current_thread].pc
    BY CsrCycle DEF LoadThread, IInv, FirmwareTypeOK
  <1>5. UNCHANGED <<frames, threads, current_thread, leds>> /\ sp' = threads[current_thread].sp
    BY DEF LoadThread, Memory
  <1>6. regs' \in Registers
    BY DEF LoadThread, IInv, FirmwareTypeOK, Registers, Scratch
  <1>7. threads[current_thread].sp \in Pointer /\ threads[current_thread].pc \in ReadyCode
    <2>1. Context(current_thread).pc = threads[current_thread].pc
      BY <1>2 DEF Context, InKernel
    <2>2. Context(current_thread).pc \in ReadyCode
      <3>1. HoldsMain(Context(current_thread)) \/ HoldsThread(Context(current_thread), current_thread)
        BY <1>2, <1>3 DEF IInv, SlotsFilled
      <3> QED
        BY <1>3, <3>1, RunPlaces DEF HoldsMain, HoldsThread
    <2> QED
      BY <1>3, <2>1, <2>2 DEF IInv, FirmwareTypeOK
  <1>20. FirmwareTypeOK'
    BY <1>1, <1>4, <1>5, <1>6, <1>7 DEF IInv, FirmwareTypeOK, Code
  <1>21. in_interrupt' = in_interrupt /\ mstatus_mie' = mstatus_mie /\ mtvec' = mtvec /\ mepc' \in ReadyCode
    BY <1>4, <1>7
  <1>22. \A s \in Slot : Context(s)' = Context(s)
    BY <1>2, <1>5 DEF Context, InKernel
  <1>23. TableStacks'
    BY <1>5 DEF IInv, TableStacks
  <1>24. Loaded'
    BY <1>4, <1>5 DEF Loaded
  <1> QED
    BY <1>1, <1>20, <1>21, <1>22, <1>23, <1>24, KernelStays

LEMMA RestoreRegistersStep ==
    ASSUME IInv, RestoreRegisters
    PROVE  IInv' /\ \A s \in Slot : Context(s)' = Context(s)
  <1>1. pc = Trap("restore") /\ pc' = Trap("mret") /\ pc \in TrapCode /\ pc' \in TrapCode
    BY RunPlaces DEF RestoreRegisters, Step, TrapAt
  <1>2. /\ pc \notin BootCode /\ pc.code = "trap" /\ pc.at = "restore"
        /\ pc'.code = "trap" /\ pc'.at = "mret"
    BY <1>1, CodeClasses DEF Trap, In
  <1>3. current_thread \in Slot /\ mepc \in ReadyCode
    BY <1>2 DEF IInv, FirmwareTypeOK, Masked, InKernel
  <1>4. TimerTypeOK' /\ UNCHANGED trapVars
    BY QuietCycle DEF RestoreRegisters, IInv, FirmwareTypeOK
  <1>5. /\ UNCHANGED <<frames, threads, current_thread, leds>>
        /\ regs' = frames[sp.stack] /\ sp' = Pop(sp)
    BY DEF RestoreRegisters, Memory
  <1>6. regs' \in Registers /\ sp' \in Pointer
    <2>1. sp \in Pointer /\ sp.stack \in Stacks
      BY DEF IInv, FirmwareTypeOK, Pointer
    <2> QED
      BY <1>5, <2>1, PopPush DEF IInv, FirmwareTypeOK
  <1>20. FirmwareTypeOK'
    BY <1>1, <1>4, <1>5, <1>6 DEF IInv, FirmwareTypeOK, trapVars, Code
  <1>21. in_interrupt' = in_interrupt /\ mstatus_mie' = mstatus_mie /\ mtvec' = mtvec /\ mepc' \in ReadyCode
    BY <1>3, <1>4 DEF trapVars
  <1>22. \A s \in Slot : Context(s)' = Context(s)
    <2>1. sp = threads[current_thread].sp /\ mepc = threads[current_thread].pc
      BY <1>1 DEF IInv, Loaded
    <2>2. Context(current_thread) = [pc |-> mepc, sp |-> Pop(sp), regs |-> frames[sp.stack]]
      BY <1>2, <2>1 DEF Context, InKernel
    <2>3. Context(current_thread)' = [pc |-> mepc', sp |-> sp', regs |-> regs']
      BY <1>2, <1>5 DEF Context, InKernel
    <2>4. Context(current_thread)' = Context(current_thread)
      BY <1>4, <1>5, <2>2, <2>3 DEF trapVars
    <2>5. \A s \in Slot : s # current_thread => Context(s)' = Context(s)
      BY <1>5, OthersKept
    <2> QED
      BY <1>5, <2>4, <2>5
  <1>23. TableStacks'
    BY <1>5 DEF IInv, TableStacks
  <1>24. Loaded'
    BY <1>1 DEF Loaded, Trap, In
  <1> QED
    BY <1>1, <1>20, <1>21, <1>22, <1>23, <1>24, KernelStays

LEMMA ReturnStep ==
    ASSUME IInv, Return
    PROVE  /\ IInv' /\ pc = Trap("mret") /\ pc' \in ReadyCode
           /\ \A s \in Slot : Context(s)' = Context(s)
           /\ current_thread' = current_thread
  <1>1. pc = Trap("mret") /\ pc' = mepc /\ pc \in TrapCode
    BY RunPlaces DEF Return, Step, TrapAt
  <1>2. pc \notin BootCode /\ pc.code = "trap" /\ pc.at = "mret"
    BY <1>1, CodeClasses DEF Trap, In
  <1>3. current_thread \in Slot /\ pc' \in ReadyCode
    BY <1>1, <1>2 DEF IInv, FirmwareTypeOK, Masked, InKernel
  <1>4. TimerTypeOK'
    BY TimerType DEF Return, IInv, FirmwareTypeOK, NoWrite
  <1>5. /\ ~in_interrupt' /\ mstatus_mie' = mstatus_mpie /\ mepc' = mepc /\ mtvec' = mtvec
        /\ mstatus_mpie' = TRUE /\ in_interrupt' = FALSE
    BY Zenon DEF Return, TrapTick, Mtvec, Mepc, Mstatus, InInterrupt, NoCsr
  <1>6. UNCHANGED <<regs, sp, frames, threads, current_thread, leds>>
    BY DEF Return, Memory
  <1>7. pc'.code # "trap" /\ pc' \notin BootCode /\ pc' \notin TrapCode
    BY <1>3, CodeClasses
  <1>8. FirmwareTypeOK'
    <2>1. in_interrupt' \in BOOLEAN /\ mstatus_mie' \in BOOLEAN /\ mstatus_mpie' \in BOOLEAN
      BY <1>5, Zenon DEF IInv, FirmwareTypeOK
    <2> QED
      BY <1>1, <1>3, <1>4, <1>5, <1>6, <2>1 DEF IInv, FirmwareTypeOK, Code
  <1>9. \A s \in Slot : Context(s)' = Context(s)
    <2>1. Context(current_thread) = [pc |-> mepc, sp |-> sp, regs |-> regs]
      BY <1>2 DEF Context, InKernel
    <2>2. Context(current_thread)' = [pc |-> pc', sp |-> sp', regs |-> regs']
      BY <1>7, LiveNext DEF InKernel
    <2>3. Context(current_thread)' = Context(current_thread)
      BY <1>1, <1>6, <2>1, <2>2
    <2> QED
      BY <1>6, <2>3, OthersKept
  <1>10. Masked'
    BY <1>5, <1>7 DEF Masked, MaskedInKernel, InKernel
  <1>11. HandlerSet' /\ TableInBoot' /\ TableStacks' /\ Loaded'
    BY <1>1, <1>5, <1>6, <1>7 DEF IInv, HandlerSet, TableInBoot, TableStacks, Loaded, Trap, In
  <1>12. SlotsFilled'
    BY <1>2, <1>9, FilledKept DEF IInv
  <1> QED
    BY <1>1, <1>3, <1>6, <1>8, <1>9, <1>10, <1>11, <1>12 DEF IInv
-------------------------------------------------------------------------------
(* The refinement: every step is a step of RoundRobin or leaves it as it is.   *)

\* A step outside the kernel that touches neither the table nor the frames.
LEMMA RunsOn ==
    ASSUME ~InKernel, ~InKernel', Memory
    PROVE  Turns!RRNext
  <1>1. \A s \in Slot : s # current_thread => Context(s)' = Context(s)
    BY OthersKept DEF Memory
  <1>2. Turns!Run
    BY <1>1 DEF Turns!Run, Turns!Others, Turns!Slot, Slot, Memory
  <1> QED
    BY <1>2 DEF Turns!RRNext

\* A step of the kernel that changes no context.
LEMMA KernelHides ==
    ASSUME InKernel, InKernel', current_thread' = current_thread, \A s \in Slot : Context(s)' = Context(s)
    PROVE  UNCHANGED Turns!rrVars
  <1>1. [s \in Slot |-> Context(s)]' = [s \in Slot |-> Context(s)]
    BY DEF Slot
  <1> QED
    BY <1>1 DEF Turns!rrVars, InKernel

LEMMA CreatesThread ==
    ASSUME IInv, NEW id \in Slot, thread_create(id)
    PROVE  Turns!RRNext
  <1>1. ~InKernel /\ ~InKernel' /\ current_thread' = current_thread
    <2>1. id \in Nat /\ id < NumThreads /\ id + 1 \in Nat /\ id + 1 <= NumThreads
      BY FirmwareAssumption DEF Slot
    <2>2. Create(id) \in BootCode /\ Create(id + 1) \in BootCode
      BY <2>1, BootPlaces, FirmwareAssumption
    <2>3. pc \in BootCode /\ pc' \in BootCode
      BY <2>2 DEF thread_create, Step
    <2> QED
      BY <2>3, CodeClasses DEF thread_create, InKernel
  <1>2. ASSUME NEW s \in Slot, s # current_thread, s # id
        PROVE  Context(s)' = Context(s)
    <2>1. threads[s].sp.stack # id /\ threads[s].sp.stack \in Stacks
      BY <1>2 DEF IInv, TableStacks, Slot, Boot, Null, Stacks
    <2>2. frames'[threads[s].sp.stack] = frames[threads[s].sp.stack] /\ threads'[s] = threads[s]
      BY <1>2, <2>1 DEF thread_create, IInv, FirmwareTypeOK
    <2> QED
      BY <1>1, <1>2, <2>2 DEF Context
  <1>3. CASE id = current_thread
    <2>1. Turns!Run
      BY <1>1, <1>2, <1>3 DEF Turns!Run, Turns!Others, Turns!Slot, Slot
    <2> QED
      BY <2>1 DEF Turns!RRNext
  <1>4. CASE id # current_thread
    <2>1. Context(id)' = [pc |-> threads'[id].pc, sp |-> Pop(threads'[id].sp),
                          regs |-> frames'[threads'[id].sp.stack]]
      BY <1>1, <1>4 DEF Context
    <2>2. threads'[id] = [sp |-> Push(TopOf(id)), pc |-> Thread(id, "entry")] /\ frames'[id] = Zero
      BY DEF thread_create, IInv, FirmwareTypeOK, Stacks
    <2>3. threads'[id].sp = Push(TopOf(id)) /\ threads'[id].pc = Thread(id, "entry")
      BY <2>2, EntryFields
    <2>4. Push(TopOf(id)).stack = id
      BY DEF Push, TopOf
    <2>5. Context(id)' = NewThread(id)
      BY <2>1, <2>2, <2>3, <2>4, PopPush DEF NewThread
    <2>6. Turns!CreateThread(id)
      BY <1>1, <1>2, <2>5 DEF Turns!CreateThread, Turns!Slot, Slot
    <2> QED
      BY <2>6 DEF Turns!RRNext, Turns!Slot, Slot
  <1> QED
    BY <1>3, <1>4

LEMMA MainRefines == ASSUME IInv, MainNext PROVE Turns!RRNext
  <1>1. CASE \E id \in Slot : thread_create(id)
    BY <1>1, CreatesThread
  <1>2. CASE \/ Start \/ DisableInterrupts \/ SetHandler \/ timer_read \/ timer_set_compare
             \/ timer_irq_enable \/ LightMain \/ EnableInterrupts
    <2>1. Memory
      BY <1>2 DEF Start, DisableInterrupts, SetHandler, timer_read, timer_set_compare,
         timer_irq_enable, LightMain, EnableInterrupts
    <2>2. pc.code = "main" /\ pc'.code = "main"
      <3>1. Create(0).code = "main" /\ \A at : Main(at).code = "main"
        BY DEF Create, Main, In
      <3> QED
        BY <1>2, <3>1 DEF Start, DisableInterrupts, SetHandler, timer_read, timer_set_compare,
           timer_irq_enable, LightMain, EnableInterrupts, Step
    <2> QED
      BY <2>1, <2>2, RunsOn DEF InKernel
  <1> QED
    BY <1>1, <1>2 DEF MainNext

LEMMA ThreadRefines == ASSUME ThreadNext PROVE Turns!RRNext
  <1>1. Memory
    BY DEF ThreadNext, Enter, CallLeds, LightThread
  <1>2. pc.code = "thread" /\ pc'.code = "thread"
    BY DEF ThreadNext, Enter, CallLeds, LightThread, Step, Thread, In
  <1> QED
    BY <1>1, <1>2, RunsOn DEF InKernel

LEMMA TrapRefines == ASSUME IInv, TrapNext PROVE [Turns!RRNext]_(Turns!rrVars)
  <1>1. CASE SaveRegisters \/ SaveThread \/ timer_irq_clear \/ LoadThread \/ RestoreRegisters
    <2>1. InKernel /\ InKernel' /\ current_thread' = current_thread
      BY <1>1 DEF SaveRegisters, SaveThread, timer_irq_clear, LoadThread, RestoreRegisters, Step,
         Memory, InKernel, Trap, In
    <2>2. \A s \in Slot : Context(s)' = Context(s)
      BY <1>1, SaveRegistersStep, SaveThreadStep, timer_irq_clearStep, LoadThreadStep, RestoreRegistersStep
    <2> QED
      BY <2>1, <2>2, KernelHides
  <1>2. CASE schedule
    <2>1. InKernel /\ InKernel'
      BY <1>2 DEF schedule, Step, InKernel, Trap, In
    <2>2. \A s \in Slot : Context(s)' = Context(s)
      BY <1>2, scheduleStep
    <2>3. current_thread' = IF current_thread + 1 = NumThreads THEN 0 ELSE current_thread + 1
      BY <1>2, FirmwareAssumption DEF schedule, IInv, FirmwareTypeOK, Slot
    <2>4. Turns!Switch
      BY <2>1, <2>2, <2>3 DEF Turns!Switch
    <2> QED
      BY <2>4 DEF Turns!RRNext
  <1>3. CASE Return
    <2>1. InKernel /\ ~InKernel'
      BY <1>3, ReturnStep, CodeClasses DEF InKernel, Trap, In
    <2>2. Turns!Resume
      BY <1>3, <2>1, ReturnStep DEF Turns!Resume
    <2> QED
      BY <2>2 DEF Turns!RRNext
  <1> QED
    BY <1>1, <1>2, <1>3 DEF TrapNext

LEMMA StallRefines == ASSUME IInv, Stall PROVE UNCHANGED Turns!rrVars
  <1>1. UNCHANGED trapVars /\ UNCHANGED cpuVars
    BY QuietCycle DEF Stall, IInv, FirmwareTypeOK
  <1> QED
    BY <1>1 DEF Turns!rrVars, Context, InKernel, trapVars, cpuVars

LEMMA InterruptRefines == ASSUME IInv, TakeInterrupt PROVE Turns!RRNext
  <1>1. ~InKernel /\ InKernel'
    BY TakeInterruptStep, CodeClasses DEF InKernel, Trap, In
  <1>2. Turns!Interrupt
    BY <1>1, TakeInterruptStep DEF Turns!Interrupt
  <1> QED
    BY <1>2 DEF Turns!RRNext

LEMMA ResetRefines == ASSUME Reset PROVE Turns!RRNext
  <1>1. ~InKernel' /\ current_thread' = current_thread
    BY DEF Reset, InKernel, Main, In
  <1>2. \A s \in Slot : s # current_thread => Context(s)' = Context(s)
    BY OthersKept DEF Reset
  <1>3. Turns!Restart
    BY <1>1, <1>2 DEF Turns!Restart, Turns!Others, Turns!Slot, Slot
  <1> QED
    BY <1>3 DEF Turns!RRNext
-------------------------------------------------------------------------------
(* Theorems.                                                                   *)

LEMMA Inductive == IInv /\ [Next]_vars => IInv'
  <1> SUFFICES ASSUME IInv, [Next]_vars PROVE IInv'
    OBVIOUS
  <1>1. CASE MainNext
    <2>1. CASE Start
      BY <2>1, StartInv
    <2>2. CASE DisableInterrupts
      BY <2>2, DisableInterruptsInv
    <2>3. CASE \E id \in Slot : thread_create(id)
      BY <2>3, thread_createInv
    <2>4. CASE SetHandler
      BY <2>4, SetHandlerInv
    <2>5. CASE timer_read
      BY <2>5, timer_readInv
    <2>6. CASE timer_set_compare
      BY <2>6, timer_set_compareInv
    <2>7. CASE timer_irq_enable
      BY <2>7, timer_irq_enableInv
    <2>8. CASE LightMain
      BY <2>8, LightMainInv
    <2>9. CASE EnableInterrupts
      BY <2>9, EnableInterruptsInv
    <2> QED
      BY <1>1, <2>1, <2>2, <2>3, <2>4, <2>5, <2>6, <2>7, <2>8, <2>9 DEF MainNext
  <1>2. CASE ThreadNext
    BY <1>2, ThreadInv
  <1>3. CASE TrapNext
    BY <1>3, SaveRegistersStep, SaveThreadStep, timer_irq_clearStep, scheduleStep, LoadThreadStep,
       RestoreRegistersStep, ReturnStep DEF TrapNext
  <1>4. CASE TakeInterrupt
    BY <1>4, TakeInterruptStep
  <1>5. CASE Stall
    BY <1>5, StallInv
  <1>6. CASE Reset
    BY <1>6, ResetInv
  <1>7. CASE UNCHANGED vars
    <2>1. FirmwareTypeOK'
      BY <1>7 DEF IInv, FirmwareTypeOK, TimerTypeOK, vars, timerVars, trapVars, cpuVars
    <2>2. Masked' /\ HandlerSet' /\ TableInBoot' /\ TableStacks' /\ Loaded'
      BY <1>7 DEF IInv, Masked, MaskedInKernel, InKernel, HandlerSet, TableInBoot, Created, TableStacks,
         Loaded, vars, trapVars, cpuVars
    <2>3. SlotsFilled'
      BY <1>7 DEF IInv, SlotsFilled, Context, InKernel, vars, trapVars, cpuVars
    <2> QED
      BY <2>1, <2>2, <2>3 DEF IInv
  <1> QED
    BY <1>1, <1>2, <1>3, <1>4, <1>5, <1>6, <1>7 DEF Next, Clock, Execute

\* The invariant from which the theorems below follow: where each context is kept,
\* on which stack, and what the trap unit holds meanwhile.
THEOREM Invariant == Spec => []IInv
  <1>1. IInv /\ [Next]_vars => IInv'
    BY Inductive
  <1> QED
    BY <1>1, InitInv, PTL DEF Spec

\* For any number of threads, sizes of counter and slice: nothing leaves its type.
THEOREM FirmwareTypeCorrect == Spec => []FirmwareTypeOK
  <1>1. IInv => FirmwareTypeOK
    BY DEF IInv
  <1> QED
    BY <1>1, Invariant, PTL

\* trap_entry.S is never entered while it runs, with any number of threads.
THEOREM KernelIsMasked == Spec => []MaskedInKernel
  <1>1. IInv => MaskedInKernel
    BY DEF IInv, Masked
  <1> QED
    BY <1>1, Invariant, PTL

\* No stack drifts, however many switches there were.
THEOREM NoStackDrifts == Spec => []StacksBalanced
  <1>1. IInv => StacksBalanced
    <2> SUFFICES ASSUME IInv, ~InKernel, sp.stack # Null
                 PROVE  sp.depth = 0 /\ sp.stack \in {current_thread, Boot}
      BY DEF StacksBalanced
    <2>1. pc \in BootCode \/ pc \in ReadyCode
      BY CodeClasses DEF IInv, FirmwareTypeOK, Code, InKernel
    <2>2. CASE pc \in ReadyCode
      BY <2>2, Running DEF TopOf
    <2>3. CASE pc \in BootCode /\ pc # Main("start")
      BY <2>3 DEF IInv, TableInBoot, TopOf
    <2>4. CASE pc = Main("start")
      <3>1. Main("start") \in BootCode
        BY BootPlaces
      <3> QED
        BY <2>4, <3>1 DEF IInv, TableInBoot
    <2> QED
      BY <2>1, <2>2, <2>3, <2>4
  <1> QED
    BY <1>1, Invariant, PTL

\* main takes the slot of one thread, and every other slot holds its own.
THEOREM MainIsInASlot == Spec => []MainTakesASlot
  <1>1. IInv => MainTakesASlot
    <2> SUFFICES ASSUME IInv, mstatus_mie PROVE MainTakesASlot
      BY DEF MainTakesASlot
    <2>1. pc \notin BootCode
      BY DEF IInv, Masked
    <2>2. \A s \in Slot :
            /\ HoldsMain(Context(s)) \/ Context(s).pc.id = s
            /\ HoldsMain(Context(s)) <=> Context(s).pc.code = "main"
      BY <2>1, HoldsFacts DEF IInv, SlotsFilled
    <2> QED
      BY <2>1, <2>2, Zenon DEF IInv, SlotsFilled, MainTakesASlot
  <1> QED
    BY <1>1, Invariant, PTL

\* No thread writes another's pattern to the LEDs.
THEOREM PatternsAreOwn == Spec => []OwnPattern
  <1>1. IInv => OwnPattern
    <2> SUFFICES ASSUME IInv, pc.code = "thread", pc.at = "gpio_write_leds" PROVE regs.a = Own(pc.id)
      BY DEF OwnPattern
    <2>1. pc \in ReadyCode
      BY CodeClasses DEF IInv, FirmwareTypeOK, Code
    <2> QED
      BY <2>1, Running DEF Main, Thread, In
  <1> QED
    BY <1>1, Invariant, PTL
\* To the code it interrupts the firmware is a round robin, with any number of
\* threads and whenever interrupts and resets come.
THEOREM FirmwareImplementsRoundRobin == Spec => ImplementsRoundRobin
  <1>1. Init => Turns!RRInit
    BY DEF Init, Turns!RRInit, InKernel, Main, In
  <1>2. IInv /\ [Next]_vars => [Turns!RRNext]_(Turns!rrVars)
    <2>1. ASSUME UNCHANGED vars PROVE UNCHANGED Turns!rrVars
      BY <2>1 DEF Turns!rrVars, Context, InKernel, vars, trapVars, cpuVars
    <2> QED
      BY <2>1, MainRefines, ThreadRefines, TrapRefines, StallRefines, InterruptRefines, ResetRefines
         DEF Next, Clock, Execute
  <1> QED
    BY <1>1, <1>2, Invariant, PTL DEF Spec, ImplementsRoundRobin, Turns!RRSpec
================================================================================
