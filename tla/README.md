# Verification of 32bitrisc

TLA+ models, TLC runs and TLAPS proofs for the processor in this repository: a
five-stage RISC-V pipeline (SystemVerilog) with memory-mapped UART, switches and
LEDs, its UART transmitter and receiver, the stand-alone blocks beside it (caches,
timer, CSR file, interrupt controller), the firmware, and the host scripts that assemble,
decode and compare. Paths below are relative to
`32bitrisc.srcs/sources_1/new/` unless they begin with `software/` or `scripts/`.

The top-level `README.md` of the repository says of itself that it describes an
*updated* `cpu_top.sv`. The models follow the source that is here; where the two
disagree in what the processor computes, the disagreement is a run of its own
(section 6).

## 1. Inventory

| Part | State | Operations | Interacts with | What is hard | Correct when |
|---|---|---|---|---|---|
| Pipeline: `cpu_top.sv`, `if_stage.sv`, `pc.sv`, `id_ex_reg.sv`, `ex_mem_reg.sv`, `mem_wb_reg.sv` | program counter, four pipeline registers, debug latches | one clock cycle; reset | register file, memories, UART ports | five instructions overlap; forwarding, load-use stall, flush, UART wait and the enable pin act in the same cycle | it is an instruction-at-a-time machine |
| Register file, `imem.sv`, `dmem.sv` | 32 registers, ROM, RAM | write on the falling edge, combinational read; synchronous store | pipeline | RAM is not reset; addresses alias | stores happen once, in order |
| Decoder `instr_decoder.sv`, `ALU.sv`, `cpu_types_pkg.sv` | none | pure functions | pipeline | encodings without a case fall through to defaults | each format's control signals are those of its instruction |
| UART side of `cpu_top.sv` | `rx_buffer`, `rx_data_ready`, `led_out` | start pulse, hold a byte, clear on read | pipeline, `uart_tx`, `uart_rx` | a byte arrives while one is read; a load frozen in MEM | sent once; read only if delivered |
| `uart.sv` (`uart_tx`), `uart_rx.sv` | state, baud and bit counters, shift register | one clock cycle; reset | the line, `cpu_top` | sampling with another board's clock; back-to-back frames; a reset in mid-frame | bytes intact, in order, all of them |
| `top_fpga.sv` | two display latches | wiring | all of the above | – | – |
| `dcache.sv` | 16 lines | look up, fill on load miss, update on store hit | not instantiated | stale line; store widths; aliases of a RAM word | a hit returns what memory holds |
| `Icache.sv` | 16 lines | look up, fill | not instantiated | a line changes its owner | every fetch returns what the ROM holds |
| `timer.sv` | counter, compare, irq | count, write, clear | trap unit, drivers | equality compare; clear and match in one cycle | an enabled match is delivered once |
| `csr_file.sv`, `interrupt_controller.sv` | mtvec, mepc, mstatus, `in_interrupt` | CSR write, trap entry, MRET | not instantiated | entry and return in one cycle, with opposite priorities | no nested entry; mepc survives until MRET |
| `software/main.c`, `trap_entry.S`, `rtos/thread.c` | thread table, `current_thread`, stacks | create, schedule, save, restore | timer, trap unit | preemption anywhere; the first interrupt; reset without clearing memory | each context resumes as it was, in turn |
| `software/drivers/*` | device registers | polling reads and writes | UART ports, timer | one-byte hold buffer against a polling loop | no byte twice; loss only on overrun |
| `software/assembler.py`, `scripts/assembler.py`, `bin_to_hex.py`, `generate_hex.py` | files | encode, reformat, draw | ROM image | field packing, signs, byte order | decoding what was encoded gives it back |
| `software/hello_world.py` | a list of words | place, patch | ROM image | offsets patched by hand, words behind jumps | the program prints the box |
| `scripts/decoder.py`, `referencemodel.py`, `run_reference.py`, `parse_*.py`, `check_regs.py`, `scoreboard.py` | registers without a width, dictionaries | decode, execute, read logs, compare | program and simulation logs | Python integers against words | it follows the hardware, and differs where the hardware is wrong |
| `eleven_towers_ai.sv` | move scores | evaluate a board | not instantiated | score widths, round robin over pairings | a legal best move |
| testbenches, Vivado artefacts | – | stimulus, reports | – | – | not modelled |

The parts that are not instantiated are complete designs whose wiring into the
processor is described by the top-level README only.

## 2. Plan

Done, in this order:

1. `CpuTypes`, `UartPorts`, `TxPort`, `ControlUnit`, `CpuPipeline`: the processor, cycle by cycle.
2. `Isa`, `SlotIsa`, `RV32I`, `PipelineRefinement`, `MCPipeline`: what the processor
   promises, and TLC's check that it keeps the promise.
3. `CpuPipelineProofs`: typing and the interlock invariants for every size and program.
4. `UartFrame`, `UartTx`, `UartRx`, `UartLink`, `MCUart`: the serial line.
5. `DCache`, `ICache`, `Caches`, `MCCaches`: the caches.
6. `BitWords`, `InstrFormats`, `Assembler`, `ScriptAssembler`, `HostDecoder`, `InstrDecoder`,
   `Toolchain`: encoding and decoding, on both sides.
7. `HelloWorld`, `HelloRun`, `MCHello`: the repository's program on the pipeline.
8. `ReferenceModel`, `HostFlow`, `MCHostFlow`: the scripts around a simulation.
9. `Timer`, `TrapUnit`, `Firmware`, `RoundRobin`, `FirmwareProofs`: preemption.
10. `UartDriver`, `MCUartDriver`: the polling loops of `uart.c`.
11. `PipelineRefinementProofs`, `CachesProofs`, `UartDriverProofs`, `UartLinkProofs`, `HostFlowProofs`,
   `HelloRunProofs`: the theorems about the rest.

Every safety invariant and every safety action property that a passing run checks is now also a
theorem. To prove next: the safety half of `EndsOrSpins` (where the loop of `run_reference.py` can
stand still), and `RoundRobin`'s consequences for a single thread. Section 7 says what cannot be proved.

## 3. Modules and how they correspond to the code

| Module | Models | Correspondence |
|---|---|---|
| `CpuTypes` | `cpu_types_pkg.sv`, `ALU.sv`, the address map | Widths are constants. An instruction is the record of its decoded fields; the raw `rs1`, `rs2`, `rd` fields are always there, because the interlock and the forwarding unit look at them whatever the format. |
| `UartPorts`, `TxPort` | the UART part of `cpu_top.sv`; the transmitter as its user sees it | `RxHold` lines 340-357, `TxSend` 359-365, `MmioRead` 367-375, `CountStart` 401-407. |
| `CpuPipeline` | `cpu_top.sv` and the modules it instantiates | One variable per pipeline register. `Cycle(enable, sw, rx)` is one clock cycle with the values of the pins: the combinational signals are operators with the code's names (`HazardStall`, `BranchTaken`, `GlobalStall`, `UartWait`, ...), the registers' `always_ff` blocks are `Fetch`, `Issue`, `Execute`, `Memory`, `StoreRam`, `Latch`. `Reset(enable)` is a cycle with `rst` high; it still writes the RAM, as `dmem.sv` has no reset. |
| `Isa`, `SlotIsa`, `RV32I` | specification only | What an instruction does, then two orders of execution: the one the README names, and the one this processor has. |
| `PipelineRefinement` | specification only | History variables `tag` and `memNext`, the refinement mapping, and `WellWritten`: the programs for which the two orders of execution are one. |
| `CpuPipelineProofs`, `PipelineRefinementProofs` | – | Theorems about `CpuPipeline`; that it implements `SlotIsa` and, on well-written programs, `RV32I`. |
| `UartTx`, `UartRx`, `UartFrame` | `uart.sv`, `uart_rx.sv` | One action per state of the `case`; `TxReset`, `RxReset` are the asynchronous resets. `BaudDiv` is `CLK_FREQ / BAUD`, `DataBits` is 8 in the code. |
| `UartLink` | the loopback of `uart_tb.sv`, or two boards | `Together` clocks both sides with the wire between them; `TxAhead` and `RxAhead` give one side a cycle the other does not have. |
| `UartLinkProofs` | – | Theorems about the serial line. |
| `ControlUnit` | `instr_decoder.sv`, from decoded fields to control signals | `Decode` is the `case` over opcodes; `Control` the record of the outputs. |
| `DCache` | `dcache.sv` | `Hit`, `RawData`, `ReadData` are the combinational part, `Load`, `Store`, `Reset` the cases of the `always_ff`. A word is its four bytes, an address the slices the cache takes of it. `RamStore` is the memory behind the cache, written in the same cycle by whoever uses it. |
| `ICache`, `Caches` | `Icache.sv`; both caches on one reset | `Instruction` is what the port shows, `Fetch` a clock edge with an address, `EmptyLines` the reset. `Rom` is `imem.sv` behind the port. |
| `CachesProofs` | – | Theorems about both caches. |
| `Timer` | `timer.sv` | `TimerTick(w)` is one cycle with the store `w` (or none) to one of its addresses; a clear goes before a match. |
| `TrapUnit` | `csr_file.sv`, `interrupt_controller.sv` | `TrapTick(taken, id_pc, mret, c)` is one cycle: trap entry, return and a CSR write `c`, with each register's own priority. Wired as the comments of `interrupt_controller.sv` say. |
| `Firmware` | `crt0.S`, `main.c`, `rtos/thread.c`, `trap_entry.S`, `drivers/interrupt.c`, `timer.c`, `gpio.c` | One action per driver call of `main` and of the handler, three per turn of a thread, one per section of `trap_entry.S` (save, thread table, load, restore, return). Each is the cycle in which it takes effect; `Stall` is any other cycle, and `TakeInterrupt` may come in any cycle in which the controller allows it. |
| `RoundRobin` | specification only | Contexts that take turns, each changing only while it runs. `Firmware`'s mapping, `Context(s)`, follows a slot's registers, stack pointer and program counter through frame, thread table and `mepc`. |
| `FirmwareProofs` | – | Theorems about `Firmware`. |
| `UartDriver` | `drivers/uart.c` over `UartPorts` and `TxPort` | One action per access to the device and per turn of a loop. A string is the memory at a pointer, up to its first NUL: `FinishLine` writes one, `PutsReturns` is the exit of the loop of `uart_puts` at one, typed or written. Its caller, a program that answers each line with the line, is not in the repository. |
| `UartDriverProofs` | – | Theorems about the driver. |
| `BitWords`, `InstrFormats` | shifts and masks of Python; the six formats | A word is the set of its one bits. `OneBits` and `Number` go from an integer to its bits and back; a set with its sign (`fill`) is a signed integer, as `decoder.py`'s `sign_extend` makes it. |
| `Assembler`, `ScriptAssembler` | `software/assembler.py`, `scripts/.../assembler.py` | One operator per function, with the function's name. |
| `HostDecoder` | `scripts/.../decoder.py` | `decode(word)`, opcode by opcode. |
| `InstrDecoder` | `instr_decoder.sv` from the 32-bit word | Fields, five immediates, `alu_control`, all outputs. |
| `Toolchain` | the round trip; `bin_to_hex.py` | A call of an assembler function, or a binary file, becomes words; `Padded` and `LittleEndian` are `bin_to_hex.py`. |
| `HelloWorld`, `HelloRun` | `hello_world.py`; its image on `CpuPipeline` | The program is built as the script builds it, placeholders first and offsets patched after. `sent` records what leaves the UART. |
| `HelloRunProofs` | – | Theorems about that program on the pipeline. |
| `ReferenceModel` | `referencemodel.py`, `run_reference.py` | Registers are Python integers: `PyBits` bits and a sign, with `PyBits` so large that no value of the program reaches it (see section 8). A turn of the loop is an action; a branch of the `if` that has no code skips, stays, or raises, as in the script. |
| `HostFlow` | `generate_hex.py`, `parse_asm_log.py`, `parse_regs.py`, `scoreboard.py` | Three tools over the state of `Toolchain` and `ReferenceModel`; the hardware's decoder and ALU run the same program and leave the simulator's `REG` records. |
| `HostFlowProofs` | – | Theorems about the assemblers, the decoders, the tools and the reference model, with the bit arithmetic they rest on. |
| `MCPipeline`, `MCUart`, `MCCaches`, `MCHello`, `MCHostFlow`, `MCUartDriver` | – | Programs and constants for TLC. `rtos` needs none: `MCFirmware.cfg` runs `Firmware` itself. |

Definitions whose comment begins "Faulty variant of" are not part of the model: each
is what a plausible mistake would make of the definition it stands before, and the
property it is paired with in PROJECT.json fails when it takes that definition's place.

### The refinement

An instruction completes at the edge that takes it out of MEM; its register value is
then in MEM/WB (the mapping reads registers through `WrittenRegs`), its store or its
UART access has just happened. `tag` tells instructions from bubbles, and `Window`
reads off the address of the oldest instruction in flight and the two that were
fetched after it. `SlotIsa` keeps exactly these three addresses, since a taken branch
in EX has already let one more instruction into IF/ID. A cycle in which MEM holds a
bubble, or the pipeline is frozen, is an `Environment` step (a byte arrives, the
transmitter finishes) or a stutter.

## 4. Runs

Word size 32 (5 bits) is enough for RAM, MMIO, negative numbers and wraparound to be
distinct and all reachable by one ADDI; three registers give x0 and two that conflict;
two RAM words give aliases and neighbours; ROMs of four words, in which the program
counter wraps, put every pair and triple of the chosen instructions next to one
another, in every position, before and behind every branch.

| Run | Asks | Bounds |
|---|---|---|
| `mixed` | Are all data and control hazards resolved? `NoLoadForwarding`, `RedirectNotLost`, `StallIsOneBubble`, `ImplementsSlotIsa`, `TypeOK` | all 12^4 ROMs over 12 instructions, two RAM contents, reset at any cycle |
| `devices` | Is a byte sent once, and marked read only if it is delivered; can stalls stop the processor? `RxByteHandedOver`, `ImplementsSlotIsa`, `KeepsCompleting` | UART programs; two received bytes at any time; transmitter busy for any time; enable high or low and reset in any cycle |
| `slots` | When software leaves the branch slot empty, is this RV32I? `ImplementsRV32I` | the `WellWritten` ROMs over 12 instructions: a NOP two places after each transfer |
| `uart` | Do bytes arrive intact, in order, all of them, with clock drift, back-to-back frames and resets of either board, and is the transmitter the port the pipeline assumes? `BytesArriveIntact`, `AtMostOneFrameBehind`, `LinkTypeOK`, `EveryByteArrives`, `ImplementsTxPort` | 8 cycles per bit, 2 bits per byte, all 4 bytes, 2 slips per frame |
| `caches` | Can a line be stale, does every load return the RAM's bytes and every fetch the ROM's word? `Coherent`, `LoadsReturnMemory`, `FetchesAreTheRom` | one line each, three tags of which the memories tell two apart, bytes of two values, two stored words, any tag and word at power-up in the instruction cache (the memories and the data cache start from zeros here; the theorems take any) |
| `hello` | Does the repository's program print its box on this pipeline? `PrintsTheScreen`, `FinishesTheScreen`, `ImplementsRV32I` | the 256 words the script writes, unabridged; 10-bit words, so that MMIO begins at 512; transmitter of any pace, reset in any cycle |
| `host` | Do the decoders get back what the assemblers encode, do the logs name the words, does the reference model follow the hardware? `HardwareRoundTrip`, `HostRoundTrip`, `ControlsOfFields`, `BytesInPlace`, `LogNamesWords`, `ReferenceFollowsHardware`, `FalseAlarms`, `EndsOrSpins` | every function with boundary registers and immediates; binary files of up to five bytes over all opcodes and funct3; two draws; programs of four words over the listed instructions on 13-bit registers |
| `rtos` | To the code it interrupts, is the firmware a round robin? `ImplementsRoundRobin`, `MaskedInKernel`, `StacksBalanced`, `MainTakesASlot`, `OwnPattern`, `SlotsTakeTurns`, `FirmwareTypeOK` | two threads, as `NUM_THREADS`; a counter of 16 values, a slice of 5: the compare value is met before, while and after the kernel runs; interrupts and resets in any cycle |
| `serial` | Does polling lose or double a byte? Is a line answered, as it was typed, and does it fit its buffer? `LinesAsTyped`, `NoOverrunWhileReading`, `LineFitsBuffer`, `AnswersTheLine`, `EveryLineAnswered` | NUL, two letters and both line ends, lines of two characters, a byte in any step at least `MinGap` = 2 quiet steps after the last, transmitter of any pace |
| `branch_slot`, `lui_operand`, `shift_immediate` | expected violations, section 6 | the smallest program families that show them |

On drift: the receiver looks at the middle of a bit, one cycle after the edge. With
`BaudDiv = 8`, two slips in a frame are tolerated and three are not, so the bound of
`uart` is the largest that can pass. The number of data bits does not change this,
since the bound is on slips per frame, but each further bit multiplies the states.

`AtMostOneFrameBehind` has two halves: the receiver is done with a frame before the transmitter can accept
the next byte, and a frame that is on its way finds the receiver waiting only in the two cycles
by which it sees the line fall late.

On resets: a reset of one side in mid-frame may make the receiver take a data bit for
a start bit. `torn` records this until both sides have waited together on a high line;
until then nothing is claimed, from then on everything is claimed again. A sender that
never pauses may keep the receiver out of step; the model allows that.

On the reference model: 13 bits are the smallest word that holds a 12-bit immediate and that
four additions can outgrow, which is what `ReferenceFollowsHardware` and `FalseAlarms` are
about. Integers of the model keep `PyBits` = 16 bits and a sign, more than any of the programs needs. The
encodings of the same run are 32 bits wide.

On `serial`: `MinGap` = 2 is the smallest for which `NoOverrunWhileReading` and `LineFitsBuffer` hold, since
a turn of `uart_gets` is three accesses; with 1 both fail. A byte takes 8680 cycles at the baud rate
of `uart.sv`. Three limits of the code are in the model and in the wording of its properties:

- `uart_gets` has no bound on its buffer. `MaxLine` is a bound on what is typed, not something the driver
  enforces; `LineFitsBuffer` says that a caller with `MaxLine + 1` bytes is safe from it, which needs that no line
  end is ever lost in mid-line.
- A NUL that is typed is stored like any character, and the answer ends there (`IsText`).
- What waited in the holding buffer when the program was sending (`Leftover`) may be overwritten, for there is
  no overrun flag (`cpu_top.sv:349`). If that was a line end and no other is typed, the line is never
  answered. `EveryLineAnswered` promises the answer only where no later byte took the place of such a line
  end; without the exception TLC finds it violated.

On `rtos`: a third thread adds no way for two contexts to meet, and the theorems of section 7
are for any number.

## 5. Fairness

- `FairSpec` (pipeline), `RunFairSpec` (`hello`): the clock does not stop (`WF` of a cycle with the
  enable pin high: `top_fpga.sv` ties it to 1), and a transmission ends (`TxDone`). The
  second is what `uart` shows of the transmitter: `ImplementsTxPort` contains
  `tx_busy ~> ~tx_busy`.
- `LinkFairSpec`: the clocks do not stop. Starting a byte is never forced.
- `FlowFairSpec` (`host`): the loop of `run_reference.py` goes on while it runs.
- `FairSpec` (`rtos`): the clock runs; the program makes its next step (the stalls of the pipeline
  end: `KeepsCompleting` of `devices`); an interrupt that can be taken is taken in the end.
  The last is outside the source here: `can_take_irq` is an input that `cpu_top.sv` does
  not drive, and the top-level README line 99 lists the stalls that hold it back, all
  of which end.
- `FairSpec` (`serial`): the program goes on wherever it can (`Progress`: a step that leaves the place it is at), and a
  transmission ends. No byte has to arrive: a poll that finds nothing is no progress, and a program that waits for a byte may
  wait for ever. So the liveness is that of the driver, not of somebody typing.

No fair specification forces or forbids resets. Where a reset starts over what is promised
(`KeepsCompleting`, `FinishesTheScreen`, `SlotsTakeTurns`), the property excepts the behaviours that
reset for ever; a byte in flight is discarded by a reset of either board (`EveryByteArrives`).

## 6. Where code and documents disagree

- `branch_slot`: the instruction fetched two places after a taken branch or jump is executed.
  `if_stage.sv` has no flush input; README lines 12 and 41 speak of pipeline flushing, line
  5 of an RV32I processor. `software/hello_world.py` places NOPs behind its jumps.
- `lui_operand`: `instr_decoder.sv:213` gives LUI the ALU's addition and says its rs1 field is
  0 in machine code. The bits are part of the immediate.
- `shift_immediate`: SLLI, SRLI and SRAI have no case in the decoder and add;
  `software/trap_entry.S` uses `slli`.

`SlotIsa` states what the processor does instead, and `mixed` and `devices` show that these
three are all the differences there are on the program families they run.

Disagreements that are no runs, found while modelling:

- The comment of `trap_entry.S` (lines 108-110) has the handler rearm the timer; `main.c:32-37` does not.
  The next interrupt comes when the counter has gone round (2^32 cycles). The top-level README, line 115,
  says so itself. `SlotsTakeTurns` shows that turns go on all the same, also when the match
  falls into the cycle of `irq_clear`.
- `main` has no slot: from the first interrupt on it is kept in the slot of the current thread, whose function
  is never entered. `MainTakesASlot` states it, and the same README line.
- `software/trap_entry.S` indexes the thread table with `slli`, which this decoder turns into an
  addition, and uses CSR instructions, which it has no case for. `Firmware` takes the instruction set the
  assembly is written in; on the `cpu_top.sv` of this repository, which contains neither timer, CSR
  file nor an LED register at 0x80000004, the firmware cannot run.
- `uart_putc` polls before it stores, and the processor holds the store while the transmitter is
  busy: either would do alone. `EveryLineAnswered` breaks when the poll looks at the wrong bit.
- `decoder.py:50` is not Python as it stands, and `scoreboard.py` imports names the other
  scripts do not define, and reads the registers as the result of a call; both are modelled mended.
- `generate_hex.py` announces 100 instructions and writes one: the choice of an instruction is
  after the loop that draws. The modelled `Draw` and `AddInstr` do the same.
- `generate_hex.py` writes its log to `program.asm`, `parse_asm_log.py` reads `asm.log`.
- `run_reference.py` passes over shifts, repeats loads, JALR and unknown branches for ever, and
  raises on functions `referencemodel.py` does not have; `EndsOrSpins` and `ReferenceFollowsHardware` say
  exactly where it can be trusted. `scoreboard.py` reports registers that are right
  (`FalseAlarms`).

## 7. Proofs

`CpuPipelineProofs` proves for every word size, register count, memory size, program and
input sequence, from the named assumptions in `CpuTypes`, `UartPorts` and `CpuPipeline`
(sizes positive, word size even and at least 32, programs are arrays of instructions,
`BitResult` returns words):

- `TypeCorrect`: `Spec => []TypeOK`. `TypeOK` is inductive by itself; the lemmas type each
  combinational signal.
- `LoadsNotForwardedFromMem`, `RedirectionsNotLost`, `StallsAreOneBubble`: none of the three is
  inductive. `InterlockInv` adds two facts. `ControlCoherent`: the control bits in ID/EX and
  EX/MEM come from one decoded instruction, so no instruction is both a load and a transfer, and
  a load is marked as such by both of its bits. `LoadNotNamedBehind`: when a load is in MEM, the
  instruction in EX does not name its destination, because the interlock kept it in ID one
  cycle longer. The first excludes a branch and a stall together; the second is
  `NoLoadForwarding`; the stall's single bubble follows from what the flush writes into ID/EX.
- `RxBytesHandedOver`: an action property, from typing and the definition of the read.

`PipelineRefinementProofs` proves the refinements, from the same assumptions:

- `PipelineImplementsSlotIsa`: `RSpec => ImplementsSlotIsa`, for every program and input. Each cycle is one
  instruction of `SlotIsa`, one of its `Environment` steps, or a stutter. The invariant `RefInv` says what is in
  flight: tags are consistent from stage to stage (`TagsOK`), bubbles write nothing
  (`BubblesIdle`), every tagged stage holds the decoding of the ROM word at its address (`Decoded`), the operands
  in ID/EX become right once the instructions ahead of them have completed (`OperandsSettled`),
  EX/MEM holds what `Isa` computes (`Executed`), and the addresses in flight are the ones execution takes
  next (`Followed`). The step is split by what MEM holds and whether the pipeline is frozen, stalled or redirected.
- `PipelineImplementsRV32I`: the documented instruction set, under two hypotheses. `ProgramsWellWritten`: the slot,
  two words behind a transfer, is a `nop`, as `hello_world.py` writes it, `lui` names no source, and
  functions are the ones their format has. `RomDivides`: the ROM's size divides the address space, as 1 KiB divides 4 GiB. `SlotInv` (a taken branch has its slot behind it, and the slot is
  empty) is what is added to `RefInv`.

`CachesProofs` proves, for any set of tags and indexes, any byte size and any aliasing of the RAM, from
`CacheableAssumption` (of the addresses at which a RAM word appears, one is cacheable):

- `CacheCoherent`: `Spec => []Coherent`, inductive together with typing. The step for a store
  needs `MergesAgree`: the cache's cases on the low address bits write the same bytes as a RAM
  that writes `Width` bytes at the aligned offset. Without the assumption the property is false: the
  cache compares the whole upper address, `dmem.sv` drops its top bits.
- `LoadsCorrect`: a load of any width at any offset, hit or miss, is the number RV32I defines from
  the bytes in RAM. `HitOrMissSame` carries coherence to the load formatter; `FormatsAsLoaded` is the arithmetic of
  picking bytes and extending signs.
- `CachesImplementDCache`, and with it `CachesCoherent` and `CachesLoadsCorrect`: the same of both caches on
  one reset.
- `InstructionsAreTheRom`: what the instruction port shows is the ROM's word. The property is about the
  port, the invariant about the lines: a valid line is the ROM's at its tag and index (`LinesAreTheRom`).

`UartDriverProofs` proves for any bytes and line ends, from `DriverAssumption`:

- `LinesAreAsTyped`: what `uart_gets` returns is what was typed. It is inductive with `PollHolds`: between the poll
  that answered and the access that relies on it, nothing takes the byte away.
- `AnswersAreTheLine`: what `uart_puts` sent is a beginning of the string, and when it returns it is the
  string up to its first NUL, for any bytes, NUL included. `Terminated` is what it adds to the invariant: the rest of
  the string still holds a NUL, so the pointer never leaves the buffer.
- `NoOverrun`: bytes at least two driver steps apart (`MinGap >= 2`) are not overwritten while `uart_gets`
  runs. A byte takes 8680 cycles on the line. `FreshByte` bounds the age of a waiting byte by where the
  loop is. With `MinGap = 1` TLC finds the property violated: the bound is tight.
- `LinesFit`, for `MinGap >= 2`: no more is stored than the longest line and its NUL. `InRoom` counts, at every place of
  the loop, what is stored, held and typed since the last line end; `LeftoverFirst` says that the only byte that can be
  overwritten is the first of what `uart_gets` reads, where nothing is stored yet.

`UartLinkProofs` proves for any frame length, any number of cycles per bit and any bytes:

- `LinkTypeCorrect`, from the sizes alone.
- `NeverAFrameBehind` and `BytesAreIntact` under `Tolerance`: `MaxSlips + 2 <= BaudDiv - BaudDiv \div 2`. At
  868 cycles per bit that is 432 cycles of drift within a frame. The hypothesis is sharp: with a
  bit of 8 cycles and 3 slips, or of 7 and 3, TLC finds a byte damaged. `LinkInv` is the
  invariant: each side's counters fit its state (`TxFollows`, `RxFollows`), and, unless a reset tore the frame, the
  receiver's place in the frame is the transmitter's up to the slips so far (`Tracking`, with `InStep`
  bounding `Lead`), so that every sample falls into its own bit.
- `TransmitterIsThePort`: the safety half of `ImplementsTxPort`, which lets the processor's model use
  `TxPort` in place of `uart.sv`.

`HostFlowProofs` proves, from `CallsAssumption` (operands are in the range of their fields),
`BinariesAssumption` (a file is bytes) and `DrawsAssumption` (the bounds in `generate_hex.py`):

- `HardwareReadsCalls`, `HostReadsCalls`, `ControlsAgree`: for every operation, register and immediate, not only the
  ones `host` enumerates, `instr_decoder.sv` and (LUI apart) `decoder.py` get back from the word what the
  assembler was told, and the control signals are those of `ControlUnit`. A word is a set of bits, so the argument
  is bit by bit: `Placed` and `FieldAt` say where a slice goes and is found again, one lemma per format
  says what the whole word is. `SameFunctions` does it once for both assemblers.
- `BytesStayInPlace`: every byte of the file is in the hex word that its address names, little end first.
- `LogNamesTheWords`: what `parse_asm_log.py` reads is what is in the words. The invariant `MadeWords` says that
  each line and its word come from one draw; `OperationsDiffer` that two mnemonics never share an encoding.
- `ReferenceFollows`, `AlarmsAreFalse`: under `exact`, each register of the reference model, masked, is the hardware's,
  and when the run is done `scoreboard.py` reports exactly the registers whose reference value lies outside a
  word. From `BitsAssumption` (a word has a bit, a Python integer keeps at least as many) and `ProgramsAssumption`
  (a program is words), for every width and every program. The invariant is `Follows`: the two machines agree
  register by register modulo 2^`WordBits`, the hardware's registers are words, and the last `REG` record of each
  register is its value, or there is none and it is 0. The step goes through the instructions that have a branch in
  `run_reference.py`: sums and differences agree by arithmetic modulo a power of two, AND, OR and XOR
  because masking an integer takes its low bits, the negative ones' too (`SignedNumber`). `exact` excepts what the
  script gets wrong: shifts and unknown functions, which it passes over, and SLT of values that have outgrown the word.
- The bit arithmetic below this, `OnesAndNumber` and the lemmas around it: the number made of an integer's bits is the
  integer modulo 2^w, for every w. It takes induction over the width. The library's induction theorems have an
  operator as a parameter and cannot be instantiated, so `Induction` states it for a set
  and proves it from the well-foundedness of inclusion; the provers know no laws of `^`, so powers of two get
  theirs from the library's theorem on the number of subsets.

`HelloRunProofs` proves, from `HelloAssumption` (the ROM holds the image and its size divides the address space, a
row has at least three characters and there is at least one row, both counts fit a word, shifting 1 gives
the first MMIO address) and the assumptions of the pipeline:

- `HelloPrintsTheScreen`: the bytes sent are a beginning of the box, for every width, number of rows, word size and
  ROM size, at any pace of the transmitter and after any reset. `hello` shows it for one box.
- `HelloImplementsRV32I`: the pipeline runs this program as RV32I does. That it is well written, a hypothesis of
  `PipelineImplementsRV32I`, is proved of the list the script builds (`ImageWellWritten`).

The argument has four parts. The script's list, with its patched calls, is turned into tables of what stands at which word
(`Listing`). Each cycle of the pipeline that completes an instruction is one step of RV32I (`CycleDoc`, of
`PipelineRefinementProofs`, which needs `SlotsAreEmpty`), so a lemma per instruction says what a cycle does to the program
counter and the registers (`Walks`). `Located` says what is in the registers at each of the 124 words: how many rows
(x9) and characters (x8) are left, who is to be returned to (x1, x2), what is to be printed (x7), where the
UART is (x5); a step leads from a located state to a located state and only the store in `putchar` counts a character
(`MainAdvances`, `TopAdvances`, `MiddleAdvances`, `PutCharAdvances`). `HelloInv` adds that what was sent is the box as far
as this place; `ScreenCharacters` says which character stands where in it. TLC checked `HelloInv` as an
invariant on a box of four by two before it was proved.

`FirmwareProofs` proves for any number of threads, any counter size and any slice, from
`CounterAssumption` and `FirmwareAssumption` (positive, natural numbers):

- `FirmwareTypeCorrect`, `KernelIsMasked`, `NoStackDrifts`, `MainIsInASlot`, `PatternsAreOwn`: the safety invariants
  of `rtos`. None is inductive but the typing. `IInv` is: besides them it says that until interrupts are
  enabled every thread created so far has its frame and entry in the table (`TableInBoot`); that from then on every
  slot is either `main` on the stack of `crt0.S` or its own thread on its own stack, and exactly one
  is `main` (`SlotsFilled`); that no stack of the table belongs to another slot (`TableStacks`), which
  makes the frames of two slots distinct, so that saving one leaves the other; and that
  between loading and restoring, `sp` and `mepc` are the selected thread's (`Loaded`).
- `FirmwareImplementsRoundRobin`: `Spec => ImplementsRoundRobin`. `Context(s)` is built so that no step of
  `trap_entry.S` changes any context, each being only moved; the lemmas `...Step` prove this section by
  section. Then `TakeInterrupt` is `Interrupt`, `schedule` is `Switch`, `Return` is `Resume`,
  `thread_create` of another slot is `CreateThread`, `Reset` is `Restart`, every step outside
  the kernel `Run`, and the rest stutters.

Only model-checked:

- all liveness, since fairness and ENABLED are outside the proof system: `KeepsCompleting`, `EveryByteArrives`,
  the liveness half of `ImplementsTxPort`, `EveryLineAnswered`, `SlotsTakeTurns`, `FinishesTheScreen`, `EndsOrSpins`;
- the three runs that expect a violation.

## 8. Abstractions

- One step is a whole clock cycle. The falling edge comes first, so a register written in
  write-back is seen by the reads of the same cycle, as in the code.
- Asynchronous resets are a step at the clock edge.
- A program is an array of decoded instructions; the ROM never changes.
- The bit-lane ALU operations are a constant operator in the theorems, defined for TLC.
- Received bytes come from the environment, as `uart_rx` delivers them (`UartRx` shows a byte is
  a one-cycle pulse); a transmission takes any positive number of cycles.
- A register of the reference model keeps `PyBits` bits and a sign where its AND, OR and XOR take it apart; Python keeps
  as many as there are. A run that ends has a largest integer, so some `PyBits` represents it exactly, and the
  theorems are for every `PyBits`.
- Power-up contents of the RAM are a set of choices; no run reads an undriven register,
  since every register starts from reset.
- The caches are modelled on their own; `cpu_top.sv` does not contain them. A cycle that uses both is two
  steps, since they share nothing but the reset.
- In `Firmware` a register file is three values (return address, argument, saved registers), the least
  that tells a restored context from another; a stack is its owner and the number of frames on it.
  The pushes and pops of a called function are not modelled: each returns the stack as it found it.
- `Stall` is the time between two steps; no bound is put on it but fairness.
- `debug_pc`, `debug_x5`, `debug_x8` and the LED wiring are outputs without state.

## 9. Not modelled

- `eleven_towers_ai.sv`: `base_pairing_scores` and `best_pairing` are each written by two `always_comb`
  blocks, which SystemVerilog forbids, so no build says which of the two scores counts. It has
  no state and nothing instantiates it. (Its constant 80000 at line 131 does not fit 16 bits either.)
- `timer_irq_disable`, `timer_irq_pending`, `gpio_read_switches`, and the null checks of `uart_puts` and
  `uart_gets`: nothing calls the former, and the callers there are pass no null pointer.
- The two display latches of `top_fpga.sv`, which drive nothing.
- File access of the host scripts; `check_regs.py` repeats the loop of `parse_regs.py` and prints.
- `main.elf`, `program.bin`, `link.ld`, testbenches, Vivado projects and reports: images, stimulus and
  generated files.
- The wiring of timer, trap unit and caches into a processor: the `cpu_top.sv` that has it is
  not in the repository.
