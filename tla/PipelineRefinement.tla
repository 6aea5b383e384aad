-------------------------- MODULE PipelineRefinement ---------------------------
(* The pipeline implements an instruction-set machine. An instruction          *)
(* completes at the clock edge that takes it out of MEM: its result is then in *)
(* MEM/WB and its store, send or read has happened. History variables mark     *)
(* which stages hold instructions of the program, rather than bubbles, and     *)
(* keep the two fetch addresses that followed the instruction in MEM.          *)
EXTENDS CpuPipeline

VARIABLES
    tag,      \* for ID, EX and MEM: a bubble, an instruction, or one in a branch's slot
    memNext   \* the addresses in ID and IF when the instruction in MEM was in EX

ghosts == <<tag, memNext>>
allVars == <<vars, ghosts>>

Tag == {"bubble", "instr", "slot"}

GhostInit ==
    /\ tag = [id |-> "bubble", ex |-> "bubble", mem |-> "bubble"]
    /\ memNext = <<0, 0>>

\* The tags move with the instructions; an instruction that enters ID as a
\* branch is taken is in that branch's slot.
GhostCycle(enable) ==
    IF GlobalStall(enable) THEN UNCHANGED ghosts
    ELSE /\ tag' = [mem |-> tag.ex,
                    ex  |-> IF HazardStall \/ BranchTaken THEN "bubble" ELSE tag.id,
                    id  |-> IF HazardStall THEN tag.id
                            ELSE IF BranchTaken THEN "slot" ELSE "instr"]
         /\ memNext' = <<ifid.pc, pc>>

GhostReset ==
    /\ tag' = [id |-> "bubble", ex |-> "bubble", mem |-> "bubble"]
    /\ memNext' = <<0, 0>>

RInit == Init /\ GhostInit
RCycle(enable, sw, rx) == Cycle(enable, sw, rx) /\ GhostCycle(enable)
RClock == \E enable \in Enables, sw \in SwitchValues, rx \in Rx : RCycle(enable, sw, rx)
RPressReset == \E enable \in Enables : Reset(enable) /\ GhostReset
RNext == RClock \/ RPressReset
RSpec == RInit /\ [][RNext]_allVars

REnabledClock == \E sw \in SwitchValues, rx \in Rx : RCycle(TRUE, sw, rx)
RTxDone == RClock /\ tx_busy /\ ~tx_busy'
RFairSpec == RSpec /\ WF_allVars(REnabledClock) /\ WF_allVars(RTxDone)
-------------------------------------------------------------------------------
(* The refinement mapping.                                                     *)

\* The oldest instruction in flight, and the two fetched after it.
Window ==
    IF tag.mem # "bubble" THEN <<Minus(exmem.pc_plus4, 4), memNext[1], memNext[2]>>
    ELSE IF tag.ex # "bubble" THEN <<idex.pc, ifid.pc, pc>>
    ELSE IF tag.id # "bubble" THEN <<ifid.pc, pc, Plus(pc, 4)>>
    ELSE <<pc, Plus(pc, 4), Plus(pc, 8)>>

OldestTag ==
    IF tag.mem # "bubble" THEN tag.mem ELSE IF tag.ex # "bubble" THEN tag.ex ELSE tag.id

SlotMachine == INSTANCE SlotIsa
    WITH x <- WrittenRegs, cur <- Window[1], nxt1 <- Window[2], nxt2 <- Window[3]

\* Programs that do not use what SlotIsa has and RV32I has not: the word fetched
\* two places after a branch or jump is a NOP, LUI names register 0 as rs1, and
\* every function code has a case in the decoder. hello_world.py writes its
\* programs this way.
Transfers == {"BRANCH", "JAL", "JALR"}
WellWritten(r) == \A k \in RomWord :
    /\ r[k].opcode \in Transfers => r[(k + 2) % RomWords] = Nop
    /\ r[k].opcode = "LUI" => r[k].rs1 = 0
    /\ r[k].opcode = "OP" => r[k].funct \in AluOp
    /\ r[k].opcode = "OP_IMM" => r[k].funct \in {"ADD", "XOR", "OR", "AND", "SLT", "SLTU"}

\* While a branch's slot is the oldest instruction, the documented machine is
\* already at the target.
DocMachine == INSTANCE RV32I
    WITH x <- WrittenRegs, pc <- IF OldestTag = "slot" THEN Window[2] ELSE Window[1]
-------------------------------------------------------------------------------
(* Properties.                                                                 *)

\* The pipeline implements SlotIsa for every program: forwarding, stalls,
\* redirection, the UART handshake, the enable pin and reset are invisible to
\* the program, every load, store and byte happens once and in order.
ImplementsSlotIsa == SlotMachine!Spec

\* The pipeline implements the documented machine.
ImplementsRV32I == DocMachine!Spec

\* Instructions keep completing: no combination of load-use stalls, taken
\* branches and UART waits, begun in any state a reset can interrupt, stops the
\* processor for good.
KeepsCompleting ==
    []<><<RPressReset \/ \E sw \in SwitchValues, rx \in Rx : SlotMachine!Step(sw, rx)>>_allVars
================================================================================
