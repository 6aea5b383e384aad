---------------------------------- MODULE Isa ----------------------------------
(* What one instruction does to the state a program sees: registers, data      *)
(* memory and the UART registers. No pipeline: an instruction completes in one *)
(* step. Where execution goes next is left to the machines that EXTEND this    *)
(* module: RV32I (program order) and SlotIsa (the order this processor has).   *)
EXTENDS UartPorts

CONSTANTS SwitchValues

VARIABLES
    rom,    \* program memory
    x,      \* registers
    ram     \* data memory

isaVars == <<rom, x, ram, portVars>>

InstrAt(at) == rom[WordIndex(at, RomWords)]
X(r) == IF r = 0 THEN 0 ELSE x[r]

\* Loads and stores.
DataAddr(i) == Plus(X(i.rs1), i.imm)
SendsByte(i) == i.opcode = "STORE" /\ DataAddr(i) = UartData
ReadsByte(i) == i.opcode = "LOAD" /\ DataAddr(i) = UartData
WritesRam(i) == i.opcode = "STORE" /\ ~IsMmio(DataAddr(i))
StoredRam(i) == [ram EXCEPT ![WordIndex(DataAddr(i), RamWords)] = X(i.rs2)]
Loaded(i, sw) == IF IsMmio(DataAddr(i)) THEN MmioRead(DataAddr(i), sw)
                                        ELSE ram[WordIndex(DataAddr(i), RamWords)]

\* Control transfer.
Taken(i) ==
    \/ i.opcode \in {"JAL", "JALR"}
    \/ i.opcode = "BRANCH" /\ i.funct = "BEQ" /\ X(i.rs1) = X(i.rs2)
    \/ i.opcode = "BRANCH" /\ i.funct = "BNE" /\ X(i.rs1) # X(i.rs2)
Target(i, at) == IF i.opcode = "JALR" THEN EvenPart(DataAddr(i)) ELSE Plus(at, i.imm)

\* The value an instruction at address at gives its destination register.
Writes(i) == i.rd # 0 /\ i.opcode \in {"OP", "OP_IMM", "LOAD", "JAL", "JALR", "LUI"}
Result(i, at, sw) ==
    IF i.opcode = "OP" THEN AluResult(i.funct, X(i.rs1), X(i.rs2))
    ELSE IF i.opcode = "OP_IMM" THEN AluResult(i.funct, X(i.rs1), i.imm)
    ELSE IF i.opcode = "LOAD" THEN Loaded(i, sw)
    ELSE IF i.opcode = "LUI" THEN i.imm
    ELSE Plus(at, 4)                                 \* JAL, JALR

\* A store to the UART waits for the transmitter; nothing else waits.
CanComplete(i) == SendsByte(i) => ~tx_busy

\* Instruction i completes with result value while rx arrives from the line.
Effect(i, value, rx) ==
    /\ CanComplete(i)
    /\ x' = IF Writes(i) THEN [x EXCEPT ![i.rd] = value] ELSE x
    /\ ram' = IF WritesRam(i) THEN StoredRam(i) ELSE ram
    /\ RxHold(ReadsByte(i), rx)
    /\ TxSend(SendsByte(i), X(i.rs2) % ByteSize)
    /\ CountStart(SendsByte(i))
    /\ UNCHANGED rom

\* Time passes: a byte may arrive, the transmitter may finish.
Environment(rx) ==
    /\ RxHold(FALSE, rx)
    /\ TxSend(FALSE, 0)
    /\ CountStart(FALSE)
    /\ UNCHANGED <<rom, x, ram>>

\* Reset clears all but the memories; the instruction in progress may still
\* have stored its word.
ResetState(i) ==
    /\ x' = [r \in Reg |-> 0]
    /\ ram' \in {ram} \cup (IF WritesRam(i) THEN {StoredRam(i)} ELSE {})
    /\ PortsReset
    /\ UNCHANGED rom

IsaInit ==
    /\ x = [r \in Reg |-> 0]
    /\ PortsInit
================================================================================
