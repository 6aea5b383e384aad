--------------------------- MODULE CpuPipelineProofs ---------------------------
(* Theorems about the pipeline, for every width, program and input.            *)
EXTENDS CpuPipeline, TLAPS

-------------------------------------------------------------------------------
(* Operators stay within a word.                                               *)

LEMMA ModWord == ASSUME NEW a \in Int PROVE a % WordSize \in Word
  BY SizeAssumption DEF Word

LEMMA PlusType == ASSUME NEW a \in Word, NEW b \in Word PROVE Plus(a, b) \in Word
  BY ModWord DEF Plus, Word

LEMMA PlusFourType == ASSUME NEW a \in Word PROVE Plus(a, 4) \in Word
  BY ModWord DEF Plus, Word

LEMMA MinusType == ASSUME NEW a \in Word, NEW b \in Word PROVE Minus(a, b) \in Word
  BY ModWord DEF Minus, Word

LEMMA EvenPartType == ASSUME NEW a \in Word PROVE EvenPart(a) \in Word
  BY SizeAssumption DEF EvenPart, Word

LEMMA BitType == ASSUME NEW p \in BOOLEAN PROVE Bit(p) \in 0 .. 1
  BY DEF Bit

LEMMA SmallWord == ASSUME NEW n \in 0 .. 31 PROVE n \in Word
  BY SizeAssumption DEF Word

LEMMA AluResultType ==
  ASSUME NEW op \in AluOp, NEW a \in Word, NEW b \in Word
  PROVE  AluResult(op, a, b) \in Word
<1>1. CASE op = "ADD"
  BY <1>1, PlusType DEF AluResult
<1>2. CASE op = "SUB"
  BY <1>2, MinusType DEF AluResult
<1>3. CASE op = "SLT"
  BY <1>3, SmallWord DEF AluResult, Bit
<1>4. CASE op = "SLTU"
  BY <1>4, SmallWord DEF AluResult, Bit
<1>5. CASE op \in BitOp
  BY <1>5, BitResultAssumption DEF AluResult, BitOp
<1> QED
  BY <1>1, <1>2, <1>3, <1>4, <1>5 DEF AluOp

LEMMA WordIndexType ==
  ASSUME NEW a \in Word, NEW n \in Nat \ {0}
  PROVE  WordIndex(a, n) \in 0 .. n - 1
<1>1. a \div 4 \in Int
  BY DEF Word
<1> QED
  BY <1>1 DEF WordIndex

LEMMA DecodeType == ASSUME NEW i \in Instr PROVE Decode(i) \in Control
<1>1. AluControl(i) \in AluOp
  BY DEF AluControl, AluOp, BitOp, Instr
<1>2. 0 \in Word
  BY SmallWord
<1> QED
  BY <1>1, <1>2 DEF Decode, Control, Instr

LEMMA ConstantTypes ==
  /\ 0 \in Word /\ 0 \in Reg /\ 0 \in Byte /\ 0 \in 0 .. LedSize - 1
  /\ Nop \in Instr
  /\ NoControl \in Control
  /\ Bubble \in IdExType
  /\ ResetExMem \in ExMemType
  /\ ResetMemWb \in MemWbType
<1>1. 0 \in Word /\ 0 \in Reg /\ 0 \in Byte /\ 0 \in 0 .. LedSize - 1
  BY SizeAssumption DEF Word, Reg, Byte
<1>2. Nop \in Instr
  BY <1>1 DEF Nop, Instr, Opcode, Funct, AluOp
<1>3. NoControl \in Control
  BY <1>1 DEF NoControl, Control, AluOp
<1>4. Bubble \in IdExType
  BY <1>1, <1>3 DEF Bubble, IdExType
<1>5. ResetExMem \in ExMemType
  BY <1>1 DEF ResetExMem, ExMemType
<1>6. ResetMemWb \in MemWbType
  BY <1>1 DEF ResetMemWb, MemWbType
<1> QED
  BY <1>1, <1>2, <1>3, <1>4, <1>5, <1>6

-------------------------------------------------------------------------------
(* The signals of a cycle have their widths.                                   *)

LEMMA WritebackType ==
  ASSUME TypeOK
  PROVE  WritebackData \in Word /\ WrittenRegs \in [Reg -> Word]
<1>1. WritebackData \in Word
  BY DEF TypeOK, MemWbType, WritebackData
<1>2. WrittenRegs \in [Reg -> Word]
  BY <1>1 DEF TypeOK, MemWbType, WrittenRegs
<1> QED
  BY <1>1, <1>2

LEMMA ReadRegType ==
  ASSUME TypeOK, NEW r \in Reg
  PROVE  ReadReg(r) \in Word
  BY WritebackType, ConstantTypes DEF ReadReg

LEMMA OperandType ==
  ASSUME TypeOK
  PROVE  OperandA \in Word /\ OperandB \in Word /\ AluB \in Word
<1>1. ASSUME NEW r, NEW d \in Word PROVE Operand(r, d) \in Word
  <2>1. MemForwardData \in Word
    BY DEF TypeOK, ExMemType, MemForwardData
  <2>2. WritebackData \in Word
    BY WritebackType
  <2>3. CASE Forward(r) = "MEM"
    BY <2>1, <2>3 DEF Operand
  <2>4. CASE Forward(r) = "WB"
    BY <2>2, <2>4 DEF Operand
  <2>5. CASE Forward(r) # "MEM" /\ Forward(r) # "WB"
    BY <2>5, <1>1 DEF Operand
  <2> QED
    BY <2>3, <2>4, <2>5
<1>2. /\ idex.rs1_data \in Word
      /\ idex.rs2_data \in Word
      /\ idex.ctl.imm \in Word
  BY DEF TypeOK, IdExType, Control
<1>3. OperandA \in Word /\ OperandB \in Word
  BY <1>1, <1>2 DEF OperandA, OperandB
<1> QED
  BY <1>2, <1>3 DEF AluB

LEMMA BranchTargetType == ASSUME TypeOK PROVE BranchTarget \in Word
<1>1. idex.pc \in Word /\ idex.ctl.imm \in Word
  BY DEF TypeOK, IdExType, Control
<1>2. Plus(OperandA, idex.ctl.imm) \in Word /\ Plus(idex.pc, idex.ctl.imm) \in Word
  BY <1>1, OperandType, PlusType
<1> QED
  BY <1>2, EvenPartType DEF BranchTarget

LEMMA MmioReadType ==
  ASSUME TypeOK, NEW addr, NEW sw \in SwitchValues
  PROVE  MmioRead(addr, sw) \in Word
<1>1. sw \in Word
  BY SwitchAssumption, SmallWord
<1>2. rx_buffer \in Word
  BY SizeAssumption DEF TypeOK, PortsTypeOK, Byte, Word
<1>3. 2 * Bit(rx_data_ready) + Bit(tx_busy) \in Word
  <2>1. Bit(rx_data_ready) \in 0 .. 1 /\ Bit(tx_busy) \in 0 .. 1
    BY BitType DEF TypeOK, PortsTypeOK
  <2>2. 2 * Bit(rx_data_ready) + Bit(tx_busy) \in 0 .. 31
    BY <2>1
  <2> QED
    BY <2>2, SmallWord
<1>4. CASE addr = SwitchAddr
  BY <1>1, <1>4 DEF MmioRead
<1>5. CASE addr # SwitchAddr /\ addr = UartStatus
  BY <1>3, <1>5, SizeAssumption DEF MmioRead, UartStatus, UartData, MmioBase
<1>6. CASE addr # SwitchAddr /\ addr # UartStatus /\ addr = UartData
  BY <1>2, <1>6 DEF MmioRead
<1>7. CASE addr # SwitchAddr /\ addr # UartStatus /\ addr # UartData
  BY <1>7, ConstantTypes DEF MmioRead
<1> QED
  BY <1>4, <1>5, <1>6, <1>7

LEMMA MemReadDataType ==
  ASSUME TypeOK, NEW enable, NEW sw \in SwitchValues
  PROVE  MemReadData(enable, sw) \in Word
<1>1. ram[WordIndex(exmem.alu_result, RamWords)] \in Word
  <2>1. exmem.alu_result \in Word
    BY DEF TypeOK, ExMemType
  <2>2. WordIndex(exmem.alu_result, RamWords) \in MemWord
    BY <2>1, WordIndexType, SizeAssumption DEF MemWord
  <2> QED
    BY <2>2 DEF TypeOK
<1> QED
  BY <1>1, MmioReadType, ConstantTypes DEF MemReadData

-------------------------------------------------------------------------------
(* Type correctness.                                                           *)

LEMMA InitTypeOK == Init => TypeOK
<1> SUFFICES ASSUME Init PROVE TypeOK
  OBVIOUS
<1>1. rom \in [RomWord -> Instr] /\ ram \in [MemWord -> Word]
  BY ProgramAssumption, PowerUpAssumption DEF Init
<1>2. PortsTypeOK
  BY ConstantTypes DEF Init, PortsInit, PortsTypeOK
<1>3. regs \in [Reg -> Word]
  BY ConstantTypes DEF Init
<1> QED
  BY <1>1, <1>2, <1>3, ConstantTypes DEF Init, TypeOK

LEMMA StoreRamType ==
  ASSUME TypeOK, NEW enable, StoreRam(enable)
  PROVE  ram' \in [MemWord -> Word]
<1>1. exmem.alu_result \in Word /\ exmem.write_data \in Word /\ ram \in [MemWord -> Word]
  BY DEF TypeOK, ExMemType
<1>2. WordIndex(exmem.alu_result, RamWords) \in MemWord
  BY <1>1, WordIndexType, SizeAssumption DEF MemWord
<1> QED
  BY <1>1, <1>2 DEF StoreRam

LEMMA CycleTypeOK ==
  ASSUME TypeOK, NEW enable \in Enables, NEW sw \in SwitchValues, NEW rx \in Rx,
         Cycle(enable, sw, rx)
  PROVE  TypeOK'
<1> USE DEF Cycle
<1>1. rom' \in [RomWord -> Instr]
  BY DEF TypeOK
<1>2. pc' \in Word /\ ifid' \in [instr: Instr, pc: Word]
  <2>1. pc \in Word /\ Plus(pc, 4) \in Word /\ BranchTarget \in Word
    BY PlusFourType, BranchTargetType DEF TypeOK
  <2>2. rom[WordIndex(pc, RomWords)] \in Instr
    BY <2>1, WordIndexType, SizeAssumption DEF TypeOK, RomWord
  <2> QED
    BY <2>1, <2>2 DEF Fetch, TypeOK
<1>3. idex' \in IdExType
  <2>1. ifid.instr \in Instr /\ ifid.pc \in Word
    BY DEF TypeOK
  <2>2. ifid.instr.rs1 \in Reg /\ ifid.instr.rs2 \in Reg
    BY <2>1 DEF Instr
  <2>3. /\ ReadReg(ifid.instr.rs1) \in Word
        /\ ReadReg(ifid.instr.rs2) \in Word
        /\ Decode(ifid.instr) \in Control
    BY <2>1, <2>2, ReadRegType, DecodeType
  <2> QED
    BY <2>1, <2>3, ConstantTypes DEF Issue, IdExType, TypeOK
<1>4. exmem' \in ExMemType
  <2>1. idex.ctl \in Control /\ idex.pc \in Word
    BY DEF TypeOK, IdExType
  <2>2. AluResult(idex.ctl.alu_control, OperandA, AluB) \in Word
    BY <2>1, OperandType, AluResultType DEF Control
  <2>3. OperandB \in Word /\ Plus(idex.pc, 4) \in Word
    BY <2>1, OperandType, PlusFourType
  <2> QED
    BY <2>1, <2>2, <2>3 DEF Execute, ExMemType, Control, TypeOK
<1>5. memwb' \in MemWbType
  <2>1. MemReadData(enable, sw) \in Word
    BY MemReadDataType
  <2> QED
    BY <2>1 DEF Memory, ExMemType, MemWbType, TypeOK
<1>6. regs' \in [Reg -> Word]
  BY WritebackType
<1>7. ram' \in [MemWord -> Word]
  BY StoreRamType
<1>8. debug' \in [mem_write_seen: BOOLEAN, uart_addr_seen: BOOLEAN]
  <2>1. exmem.mem_write \in BOOLEAN /\ enable \in BOOLEAN
    BY EnableAssumption DEF TypeOK, ExMemType
  <2> QED
    BY <2>1 DEF Latch, UartWriteRequest, TypeOK
<1>9. PortsTypeOK'
  <2>1. rx = NoRx \/ rx \in Byte
    BY RxAssumption DEF Rx
  <2>2. rx_buffer' \in Byte /\ rx_data_ready' \in BOOLEAN
    BY <2>1 DEF RxHold, TypeOK, PortsTypeOK
  <2>3. tx_byte' \in Byte /\ tx_busy' \in BOOLEAN
    <3>1. exmem.write_data % ByteSize \in Byte
      BY SizeAssumption DEF TypeOK, ExMemType, Word, Byte
    <3> QED
      BY <3>1 DEF TxSend, TypeOK, PortsTypeOK
  <2>4. led_out' \in 0 .. LedSize - 1
    BY SizeAssumption DEF CountStart, TypeOK, PortsTypeOK
  <2> QED
    BY <2>2, <2>3, <2>4 DEF PortsTypeOK
<1> QED
  BY <1>1, <1>2, <1>3, <1>4, <1>5, <1>6, <1>7, <1>8, <1>9 DEF TypeOK

LEMMA ResetTypeOK ==
  ASSUME TypeOK, NEW enable \in Enables, Reset(enable)
  PROVE  TypeOK'
<1>1. ram' \in [MemWord -> Word]
  BY StoreRamType DEF Reset
<1>2. PortsTypeOK'
  BY ConstantTypes DEF Reset, PortsReset, PortsTypeOK
<1>3. regs' \in [Reg -> Word]
  BY ConstantTypes DEF Reset
<1> QED
  BY <1>1, <1>2, <1>3, ConstantTypes DEF Reset, TypeOK

LEMMA NextTypeOK == TypeOK /\ [Next]_vars => TypeOK'
<1> SUFFICES ASSUME TypeOK, [Next]_vars PROVE TypeOK'
  OBVIOUS
<1>1. CASE Clock
  BY <1>1, CycleTypeOK DEF Clock
<1>2. CASE PressReset
  BY <1>2, ResetTypeOK DEF PressReset
<1>3. CASE UNCHANGED vars
  BY <1>3 DEF vars, coreVars, portVars, TypeOK, PortsTypeOK
<1> QED
  BY <1>1, <1>2, <1>3 DEF Next

\* Every register of the processor keeps its declared width, for every program,
\* word size, register count and memory size.
THEOREM TypeCorrect == Spec => []TypeOK
  BY InitTypeOK, NextTypeOK, PTL DEF Spec

-------------------------------------------------------------------------------
(* The load-use interlock. NoLoadForwarding and RedirectNotLost are not        *)
(* inductive: they need what the decoder guarantees about the flags that travel*)
(* down the pipeline, and that the instruction behind a load in MEM never names*)
(* its destination.                                                            *)

ControlCoherent ==
    /\ idex.ctl.mem_to_reg = idex.ctl.mem_read
    /\ idex.ctl.mem_read => ~idex.ctl.mem_write
    /\ idex.ctl.mem_read => /\ ~idex.ctl.jump /\ ~idex.ctl.jalr
                            /\ ~idex.ctl.branch_eq /\ ~idex.ctl.branch_ne
    /\ exmem.mem_to_reg = exmem.mem_read
    /\ exmem.mem_read => ~exmem.mem_write

LoadNotNamedBehind ==
    exmem.mem_to_reg /\ exmem.rd # 0 => exmem.rd \notin {idex.ctl.rs1, idex.ctl.rs2}

InterlockInv == ControlCoherent /\ LoadNotNamedBehind

LEMMA DecodeCoherent ==
  ASSUME NEW i \in Instr
  PROVE  /\ Decode(i).mem_to_reg = Decode(i).mem_read
         /\ Decode(i).mem_read => ~Decode(i).mem_write
         /\ Decode(i).mem_read => /\ ~Decode(i).jump /\ ~Decode(i).jalr
                                  /\ ~Decode(i).branch_eq /\ ~Decode(i).branch_ne
         /\ Decode(i).rs1 = i.rs1 /\ Decode(i).rs2 = i.rs2
  BY DEF Decode

LEMMA ResetInterlock ==
  ASSUME idex = Bubble, exmem = ResetExMem
  PROVE  InterlockInv
<1>1. /\ idex.ctl.mem_to_reg = FALSE
      /\ idex.ctl.mem_read = FALSE
  BY DEF Bubble, NoControl
<1>2. /\ exmem.mem_to_reg = FALSE
      /\ exmem.mem_read = FALSE
  BY DEF ResetExMem
<1> QED
  BY <1>1, <1>2 DEF InterlockInv, ControlCoherent, LoadNotNamedBehind

LEMMA InitInterlock == Init => InterlockInv
  BY ResetInterlock DEF Init

LEMMA CycleInterlock ==
  ASSUME TypeOK, InterlockInv, NEW enable, NEW sw, NEW rx, Cycle(enable, sw, rx)
  PROVE  InterlockInv'
<1>1. CASE GlobalStall(enable)
  <2>1. UNCHANGED <<idex, exmem>>
    BY <1>1 DEF Cycle, Issue, Execute
  <2> QED
    BY <2>1 DEF InterlockInv, ControlCoherent, LoadNotNamedBehind
<1>2. CASE ~GlobalStall(enable)
  <2>1. /\ exmem'.rd = idex.ctl.rd
        /\ exmem'.mem_read = idex.ctl.mem_read
        /\ exmem'.mem_write = idex.ctl.mem_write
        /\ exmem'.mem_to_reg = idex.ctl.mem_to_reg
    BY <1>2 DEF Cycle, Execute
  <2>2. CASE HazardStall \/ BranchTaken
    <3>1. idex'.ctl = NoControl
      BY <1>2, <2>2 DEF Cycle, Issue, Bubble
    <3> QED
      BY <2>1, <3>1 DEF InterlockInv, ControlCoherent, LoadNotNamedBehind, NoControl
  <2>3. CASE ~(HazardStall \/ BranchTaken)
    <3>1. idex'.ctl = Decode(ifid.instr)
      BY <1>2, <2>3 DEF Cycle, Issue
    <3>2. ifid.instr \in Instr
      BY DEF TypeOK
    <3>3. ControlCoherent'
      BY <2>1, <3>1, <3>2, DecodeCoherent DEF InterlockInv, ControlCoherent
    <3>4. LoadNotNamedBehind'
      BY <2>1, <2>3, <3>1, <3>2, DecodeCoherent
         DEF InterlockInv, ControlCoherent, LoadNotNamedBehind, HazardStall
    <3> QED
      BY <3>3, <3>4 DEF InterlockInv
  <2> QED
    BY <2>2, <2>3
<1> QED
  BY <1>1, <1>2

LEMMA NextInterlock == TypeOK /\ InterlockInv /\ [Next]_vars => InterlockInv'
<1> SUFFICES ASSUME TypeOK, InterlockInv, [Next]_vars PROVE InterlockInv'
  OBVIOUS
<1>1. CASE Clock
  BY <1>1, CycleInterlock DEF Clock
<1>2. CASE PressReset
  <2>1. idex' = Bubble /\ exmem' = ResetExMem
    BY <1>2 DEF PressReset, Reset
  <2>2. /\ idex'.ctl.mem_to_reg = FALSE /\ idex'.ctl.mem_read = FALSE
        /\ exmem'.mem_to_reg = FALSE /\ exmem'.mem_read = FALSE
    BY <2>1 DEF Bubble, NoControl, ResetExMem
  <2> QED
    BY <2>2 DEF InterlockInv, ControlCoherent, LoadNotNamedBehind
<1>3. CASE UNCHANGED vars
  BY <1>3 DEF vars, coreVars, InterlockInv, ControlCoherent, LoadNotNamedBehind
<1> QED
  BY <1>1, <1>2, <1>3 DEF Next

LEMMA InterlockCorrect == Spec => []InterlockInv
  BY InitInterlock, NextInterlock, TypeCorrect, PTL DEF Spec

\* EX never takes the address of a load in MEM for the loaded value, whatever
\* the program, the UART and the enable pin do: hazard_stall (cpu_top.sv) is
\* enough for the forwarding unit behind it.
THEOREM LoadsNotForwardedFromMem == Spec => []NoLoadForwarding
<1>1. InterlockInv => NoLoadForwarding
  BY DEF InterlockInv, LoadNotNamedBehind, NoLoadForwarding, Forward
<1> QED
  BY <1>1, InterlockCorrect, PTL

\* A taken branch and a load-use stall exclude each other, so the redirected
\* program counter is always latched in the cycle that flushes ID/EX.
THEOREM RedirectionsNotLost == Spec => []RedirectNotLost
<1>1. InterlockInv => RedirectNotLost
  BY DEF InterlockInv, ControlCoherent, RedirectNotLost, BranchTaken, HazardStall
<1> QED
  BY <1>1, InterlockCorrect, PTL

\* A load-use stall lasts one cycle of a running pipeline.
THEOREM StallsAreOneBubble == Spec => StallIsOneBubble
<1>1. [Next]_vars
        => [HazardStall => UNCHANGED <<idex, exmem, memwb>> \/ ~HazardStall']_vars
  <2> SUFFICES ASSUME Next, HazardStall, ~UNCHANGED <<idex, exmem, memwb>>
               PROVE  ~HazardStall'
    BY DEF vars
  <2>1. idex' = Bubble
    <3>1. CASE PressReset
      BY <3>1 DEF PressReset, Reset
    <3>2. ASSUME NEW enable, NEW sw, NEW rx, Cycle(enable, sw, rx) PROVE idex' = Bubble
      BY <3>2 DEF Cycle, Issue, Execute, Memory
    <3> QED
      BY <3>1, <3>2 DEF Next, Clock
  <2> QED
    BY <2>1 DEF HazardStall, Bubble, NoControl
<1> QED
  BY <1>1, PTL DEF Spec, StallIsOneBubble

\* The receive flag falls only in the cycle in which a load of DATA carries the
\* buffered byte into MEM/WB.
THEOREM RxBytesHandedOver == Spec => RxByteHandedOver
<1>1. ASSUME InterlockInv, Clock, rx_data_ready, ~rx_data_ready'
      PROVE  memwb'.mem_to_reg /\ memwb'.read_data = rx_buffer
  <2>1. PICK enable \in Enables, sw \in SwitchValues, rx \in Rx : Cycle(enable, sw, rx)
    BY <1>1 DEF Clock
  <2>2. UartRead(enable)
    BY <1>1, <2>1 DEF Cycle, RxHold
  <2>3. ~GlobalStall(enable) /\ exmem.mem_to_reg
    BY <1>1, <2>2 DEF UartRead, GlobalStall, UartWait, UartWriteRequest, InterlockInv,
                      ControlCoherent
  <2>4. MemReadData(enable, sw) = rx_buffer
    <3>1. /\ MmioBase \in Int
          /\ UartData >= MmioBase /\ UartData # SwitchAddr /\ UartData # UartStatus
      BY SizeAssumption DEF UartData, UartStatus, SwitchAddr, MmioBase
    <3> QED
      BY <2>2, <3>1 DEF MemReadData, MmioRead, IsMmio, UartRead
  <2> QED
    BY <2>1, <2>3, <2>4 DEF Cycle, Memory
<1>2. InterlockInv /\ [Next]_vars
        => [Clock /\ rx_data_ready /\ ~rx_data_ready'
              => memwb'.mem_to_reg /\ memwb'.read_data = rx_buffer]_vars
  BY <1>1
<1> QED
  BY <1>2, InterlockCorrect, PTL DEF Spec, RxByteHandedOver
================================================================================
