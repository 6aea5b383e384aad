------------------------------ MODULE CpuPipeline ------------------------------
(* The five-stage pipeline of cpu_top.sv with its fetch stage, pipeline        *)
(* registers, register file and data memory. One step is one clock cycle: the  *)
(* falling edge (the register file writes) and the rising edge that ends the   *)
(* cycle (every other register).                                               *)
EXTENDS UartPorts, ControlUnit

CONSTANTS
    Programs,       \* the ROM contents considered
    PowerUpRam,     \* the RAM contents at power-up considered
    SwitchValues,   \* values of the board switches
    Enables         \* values of the enable pin: {TRUE} on the board (top_fpga)

ASSUME ProgramAssumption == Programs \subseteq [RomWord -> Instr]
ASSUME PowerUpAssumption == PowerUpRam \subseteq [MemWord -> Word]
ASSUME SwitchAssumption == SwitchValues \subseteq 0 .. 15
ASSUME EnableAssumption == Enables \subseteq BOOLEAN

VARIABLES
    rom,     \* imem, fixed
    pc,      \* program counter register
    ifid,    \* IF/ID register
    idex,    \* ID/EX register
    exmem,   \* EX/MEM register
    memwb,   \* MEM/WB register
    regs,    \* register file
    ram,     \* dmem
    debug    \* the sticky flags debug_mem_write_seen and debug_uart_addr_seen

coreVars == <<rom, pc, ifid, idex, exmem, memwb, regs, ram, debug>>
vars == <<coreVars, portVars>>

Rx == RxBytes \cup {NoRx}
-------------------------------------------------------------------------------
(* Combinational signals of the cycle, named as in cpu_top.sv.                 *)

\* Write-back and the register file, whose write on the falling edge is seen by
\* the reads of the same cycle; register 0 reads as zero.
WritebackData ==
    IF memwb.jal_to_reg THEN memwb.pc_plus4
    ELSE IF memwb.mem_to_reg THEN memwb.read_data
    ELSE memwb.alu_result

WrittenRegs ==
    IF memwb.reg_write /\ memwb.rd # 0
    THEN [regs EXCEPT ![memwb.rd] = WritebackData]
    ELSE regs

ReadReg(r) == IF r = 0 THEN 0 ELSE WrittenRegs[r]

\* Forwarding unit: where EX takes the value of register r from.
\* Faulty variant of Forward: the older result, in WB, wins.
ForwardWbFirst(r) ==
    IF memwb.reg_write /\ memwb.rd # 0 /\ memwb.rd = r THEN "WB"
    ELSE IF exmem.reg_write /\ exmem.rd # 0 /\ exmem.rd = r THEN "MEM"
    ELSE "REG"

Forward(r) ==
    IF exmem.reg_write /\ exmem.rd # 0 /\ exmem.rd = r THEN "MEM"
    ELSE IF memwb.reg_write /\ memwb.rd # 0 /\ memwb.rd = r THEN "WB"
    ELSE "REG"

MemForwardData == IF exmem.jal_to_reg THEN exmem.pc_plus4 ELSE exmem.alu_result

Operand(r, latched) ==
    IF Forward(r) = "MEM" THEN MemForwardData
    ELSE IF Forward(r) = "WB" THEN WritebackData
    ELSE latched

\* Execute.
OperandA == Operand(idex.ctl.rs1, idex.rs1_data)
OperandB == Operand(idex.ctl.rs2, idex.rs2_data)
AluB == IF idex.ctl.alu_src THEN idex.ctl.imm ELSE OperandB

BranchTarget ==
    IF idex.ctl.jalr THEN EvenPart(Plus(OperandA, idex.ctl.imm))
                     ELSE Plus(idex.pc, idex.ctl.imm)

BranchTaken ==
    \/ idex.ctl.branch_eq /\ ~Less(OperandA, AluB) /\ ~More(OperandA, AluB)
    \/ idex.ctl.branch_ne /\ (Less(OperandA, AluB) \/ More(OperandA, AluB))
    \/ idex.ctl.jump
    \/ idex.ctl.jalr

\* Load-use hazard: the raw register fields of the instruction in ID.
\* Faulty variants of HazardStall: the second operand is forgotten; any
\* instruction that writes a register stalls its user.
HazardStallRs1Only ==
    idex.ctl.mem_read /\ idex.ctl.rd # 0 /\ idex.ctl.rd = ifid.instr.rs1
HazardStallAnyWriter ==
    /\ idex.ctl.reg_write
    /\ idex.ctl.rd # 0
    /\ idex.ctl.rd \in {ifid.instr.rs1, ifid.instr.rs2}
HazardStall ==
    /\ idex.ctl.mem_read
    /\ idex.ctl.rd # 0
    /\ idex.ctl.rd \in {ifid.instr.rs1, ifid.instr.rs2}

\* Memory stage and the UART handshake.
UartWriteRequest(enable) == exmem.mem_write /\ enable /\ exmem.alu_result = UartData
\* Faulty variant of UartWait: every store to the UART waits, busy or not.
UartWaitAlways(enable) == UartWriteRequest(enable)
UartWait(enable) == UartWriteRequest(enable) /\ tx_busy
UartStart(enable) == UartWriteRequest(enable) /\ ~tx_busy
\* Faulty variant of UartRead: a load frozen by the enable pin counts as read.
UartReadFrozen(enable) == exmem.mem_read /\ exmem.alu_result = UartData
UartRead(enable) == exmem.mem_read /\ enable /\ exmem.alu_result = UartData
\* Faulty variant of GlobalStall: a store to the UART does not wait.
GlobalStallEnableOnly(enable) == ~enable
GlobalStall(enable) == ~enable \/ UartWait(enable)

RamStore(enable) == exmem.mem_write /\ enable /\ ~IsMmio(exmem.alu_result)

MemReadData(enable, sw) ==
    IF IsMmio(exmem.alu_result) THEN MmioRead(exmem.alu_result, sw)
    ELSE IF exmem.mem_read /\ enable THEN ram[WordIndex(exmem.alu_result, RamWords)]
    ELSE 0
-------------------------------------------------------------------------------
(* The pipeline registers at the rising edge.                                  *)

\* Fetch (if_stage.sv). IF/ID follows the fetched word even when a branch is
\* taken: there is no flush on this side of ID.
Fetch(stall) ==
    IF stall THEN UNCHANGED <<pc, ifid>>
    ELSE /\ pc' = IF BranchTaken THEN BranchTarget ELSE Plus(pc, 4)
         /\ ifid' = [instr |-> rom[WordIndex(pc, RomWords)], pc |-> pc]

Bubble == [pc |-> 0, rs1_data |-> 0, rs2_data |-> 0, ctl |-> NoControl]

\* Faulty variants of Issue: the instruction in ID goes on although it is stalled,
\* or although a branch is taken.
IssueNoBubble(stall) ==
    idex' = IF stall THEN idex
            ELSE IF BranchTaken THEN Bubble
            ELSE [pc |-> ifid.pc,
                  rs1_data |-> ReadReg(ifid.instr.rs1),
                  rs2_data |-> ReadReg(ifid.instr.rs2),
                  ctl |-> Decode(ifid.instr)]
IssueNoFlush(stall) ==
    idex' = IF stall THEN idex
            ELSE IF HazardStall THEN Bubble
            ELSE [pc |-> ifid.pc,
                  rs1_data |-> ReadReg(ifid.instr.rs1),
                  rs2_data |-> ReadReg(ifid.instr.rs2),
                  ctl |-> Decode(ifid.instr)]
\* Decode into ID/EX; a load-use stall or a taken branch inserts a bubble.
Issue(stall) ==
    idex' = IF stall THEN idex
            ELSE IF HazardStall \/ BranchTaken THEN Bubble
            ELSE [pc |-> ifid.pc,
                  rs1_data |-> ReadReg(ifid.instr.rs1),
                  rs2_data |-> ReadReg(ifid.instr.rs2),
                  ctl |-> Decode(ifid.instr)]

\* Execute into EX/MEM.
Execute(stall) ==
    exmem' = IF stall THEN exmem
             ELSE [alu_result |-> AluResult(idex.ctl.alu_control, OperandA, AluB),
                   write_data |-> OperandB,
                   pc_plus4   |-> Plus(idex.pc, 4),
                   rd         |-> idex.ctl.rd,
                   reg_write  |-> idex.ctl.reg_write,
                   mem_read   |-> idex.ctl.mem_read,
                   mem_write  |-> idex.ctl.mem_write,
                   mem_to_reg |-> idex.ctl.mem_to_reg,
                   jal_to_reg |-> idex.ctl.jal_to_reg]

\* Data memory (dmem.sv): written whenever the stage holds an enabled store.
StoreRam(enable) ==
    ram' = IF RamStore(enable)
           THEN [ram EXCEPT ![WordIndex(exmem.alu_result, RamWords)] = exmem.write_data]
           ELSE ram

\* Memory into MEM/WB.
Memory(enable, sw) ==
    memwb' = IF GlobalStall(enable) THEN memwb
             ELSE [alu_result |-> exmem.alu_result,
                   read_data  |-> MemReadData(enable, sw),
                   pc_plus4   |-> exmem.pc_plus4,
                   rd         |-> exmem.rd,
                   reg_write  |-> exmem.reg_write,
                   mem_to_reg |-> exmem.mem_to_reg,
                   jal_to_reg |-> exmem.jal_to_reg]

Latch(enable) ==
    debug' = [mem_write_seen |-> debug.mem_write_seen \/ exmem.mem_write,
              uart_addr_seen |-> debug.uart_addr_seen \/ UartWriteRequest(enable)]

\* One clock cycle out of reset, with the inputs the pins have in that cycle.
Cycle(enable, sw, rx) ==
    /\ regs' = WrittenRegs
    /\ Fetch(GlobalStall(enable) \/ HazardStall)
    /\ Issue(GlobalStall(enable))
    /\ Execute(GlobalStall(enable))
    /\ Memory(enable, sw)
    /\ StoreRam(enable)
    /\ Latch(enable)
    /\ RxHold(UartRead(enable), rx)
    /\ TxSend(UartStart(enable), exmem.write_data % ByteSize)
    /\ CountStart(UartStart(enable))
    /\ UNCHANGED rom
-------------------------------------------------------------------------------
(* Reset and the specification.                                                *)

ResetExMem == [alu_result |-> 0, write_data |-> 0, pc_plus4 |-> 0, rd |-> 0,
               reg_write |-> FALSE, mem_read |-> FALSE, mem_write |-> FALSE,
               mem_to_reg |-> FALSE, jal_to_reg |-> FALSE]
ResetMemWb == [alu_result |-> 0, read_data |-> 0, pc_plus4 |-> 0, rd |-> 0,
               reg_write |-> FALSE, mem_to_reg |-> FALSE, jal_to_reg |-> FALSE]

\* One clock cycle in reset. Every register is cleared, but dmem has no reset:
\* a store that is in MEM still reaches it at this edge.
Reset(enable) ==
    /\ pc' = 0
    /\ ifid' = [instr |-> Nop, pc |-> 0]
    /\ idex' = Bubble
    /\ exmem' = ResetExMem
    /\ memwb' = ResetMemWb
    /\ regs' = [r \in Reg |-> 0]
    /\ debug' = [mem_write_seen |-> FALSE, uart_addr_seen |-> FALSE]
    /\ StoreRam(enable)
    /\ PortsReset
    /\ UNCHANGED rom

\* The processor just after the first reset.
Init ==
    /\ rom \in Programs
    /\ ram \in PowerUpRam
    /\ pc = 0
    /\ ifid = [instr |-> Nop, pc |-> 0]
    /\ idex = Bubble
    /\ exmem = ResetExMem
    /\ memwb = ResetMemWb
    /\ regs = [r \in Reg |-> 0]
    /\ debug = [mem_write_seen |-> FALSE, uart_addr_seen |-> FALSE]
    /\ PortsInit

Clock == \E enable \in Enables, sw \in SwitchValues, rx \in Rx : Cycle(enable, sw, rx)
PressReset == \E enable \in Enables : Reset(enable)

Next == Clock \/ PressReset
Spec == Init /\ [][Next]_vars

\* The board's clock never stops, a transmission ends (uart.sv counts its bits
\* down) and, for liveness, reset is released for good.
TxDone == Clock /\ tx_busy /\ ~tx_busy'
EnabledClock == \E sw \in SwitchValues, rx \in Rx : Cycle(TRUE, sw, rx)
FairSpec == Init /\ [][Clock]_vars /\ WF_vars(EnabledClock) /\ WF_vars(TxDone)
-------------------------------------------------------------------------------
(* Properties.                                                                 *)

IdExType == [pc: Word, rs1_data: Word, rs2_data: Word, ctl: Control]
ExMemType == [alu_result: Word, write_data: Word, pc_plus4: Word, rd: Reg,
              reg_write: BOOLEAN, mem_read: BOOLEAN, mem_write: BOOLEAN,
              mem_to_reg: BOOLEAN, jal_to_reg: BOOLEAN]
MemWbType == [alu_result: Word, read_data: Word, pc_plus4: Word, rd: Reg,
              reg_write: BOOLEAN, mem_to_reg: BOOLEAN, jal_to_reg: BOOLEAN]

\* Every register of the processor stays within its width (cpu_top.sv's
\* declarations): in particular every address arithmetic wraps at 32 bits.
TypeOK ==
    /\ rom \in [RomWord -> Instr]
    /\ pc \in Word
    /\ ifid \in [instr: Instr, pc: Word]
    /\ idex \in IdExType
    /\ exmem \in ExMemType
    /\ memwb \in MemWbType
    /\ regs \in [Reg -> Word]
    /\ ram \in [MemWord -> Word]
    /\ debug \in [mem_write_seen: BOOLEAN, uart_addr_seen: BOOLEAN]
    /\ PortsTypeOK

\* EX never takes an operand from a load that is still in MEM: mem_forward_data
\* would be the load's address. The load-use stall, two stages earlier and one
\* cycle before, is what excludes it.
NoLoadForwarding ==
    \A r \in {idex.ctl.rs1, idex.ctl.rs2} : Forward(r) = "MEM" => ~exmem.mem_to_reg

\* A taken branch never meets a load-use stall: the stall would hold the program
\* counter while ID/EX is flushed, and the redirection would be lost.
RedirectNotLost == ~(BranchTaken /\ HazardStall)

\* A load-use stall lasts one cycle of a pipeline that moves: the bubble it
\* inserts ends it.
StallIsOneBubble ==
    [][HazardStall => UNCHANGED <<idex, exmem, memwb>> \/ ~HazardStall']_vars

\* The receive flag falls only as a load of DATA leaves MEM with the buffered
\* byte: a byte is never marked read by a load that does not deliver it.
RxByteHandedOver ==
    [][Clock /\ rx_data_ready /\ ~rx_data_ready'
         => memwb'.mem_to_reg /\ memwb'.read_data = rx_buffer]_vars
================================================================================
