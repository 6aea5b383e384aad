------------------------------- MODULE HelloRun --------------------------------
(* The program of hello_world.py on the pipeline of cpu_top.sv, and what comes *)
(* out of the UART.                                                            *)
EXTENDS PipelineRefinement, HelloWorld, SequencesExt

\* The image is in the ROM, and branch targets wrap with the ROM; the sizes of the
\* box are loop counts; shifting 1 by TopBit gives the first MMIO address.
ASSUME HelloAssumption ==
    /\ Programs \subseteq Images
    /\ NumRegs = 32 /\ RomWords >= 126 /\ WordSize % (4 * RomWords) = 0
    /\ Width \in 3 .. WordSize - 1 /\ Rows \in 1 .. WordSize - 1
    /\ TopBit \in Word /\ BitResult("SLL", 1, TopBit) = MmioBase
    /\ ByteSize > HASH

VARIABLE sent       \* history: the bytes sent since the last reset

runVars == <<allVars, sent>>

Sends(enable) ==
    sent' = IF UartStart(enable) THEN Append(sent, exmem.write_data % ByteSize) ELSE sent

RunInit == RInit /\ sent = <<>>
RunClock ==
    \E enable \in Enables, switches \in SwitchValues, rx \in Rx : RCycle(enable, switches, rx) /\ Sends(enable)
RunReset == RPressReset /\ sent' = <<>>
RunNext == RunClock \/ RunReset
RunSpec == RunInit /\ [][RunNext]_runVars

RunEnabled == \E switches \in SwitchValues, rx \in Rx : RCycle(TRUE, switches, rx) /\ Sends(TRUE)
RunTxDone == RunClock /\ tx_busy /\ ~tx_busy'
RunFairSpec == RunSpec /\ WF_runVars(RunEnabled) /\ WF_runVars(RunTxDone)
-------------------------------------------------------------------------------
(* Properties.                                                                 *)

\* Whatever the transmitter's pace, and after any reset, the bytes sent are the
\* beginning of the box: no character is lost, doubled or out of place, although
\* loops, calls and returns leave words behind their jumps in the pipeline.
PrintsTheScreen == IsPrefix(sent, Screen)

\* The whole box is printed, if reset is not pressed again and again.
FinishesTheScreen == <>(sent = Screen) \/ []<><<RunReset>>_runVars
================================================================================
