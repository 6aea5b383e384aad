------------------------------- MODULE UartPorts -------------------------------
(* The processor's UART side: the one-byte receive holding buffer, the         *)
(* transmitter as the processor sees it (a busy flag that a start pulse raises *)
(* and that falls some cycles later), and the LED counter that counts start    *)
(* pulses. The pipeline and the instruction-set machines share these registers *)
(* and drive them with two requests, "start sending" and "a load reads DATA".  *)
EXTENDS CpuTypes, TxPort

CONSTANTS RxBytes, NoRx      \* bytes the line may deliver; no byte this cycle

VARIABLES
    rx_buffer,      \* last byte received
    rx_data_ready,  \* it has not been read
    led_out         \* start pulses, modulo LedSize

portVars == <<rx_buffer, rx_data_ready, tx_busy, tx_byte, led_out>>

ASSUME RxAssumption == RxBytes \subseteq Byte /\ NoRx \notin Byte

PortsTypeOK ==
    /\ rx_buffer \in Byte
    /\ rx_data_ready \in BOOLEAN
    /\ tx_busy \in BOOLEAN
    /\ tx_byte \in Byte
    /\ led_out \in 0 .. LedSize - 1

PortsInit ==
    /\ rx_buffer = 0
    /\ rx_data_ready = FALSE
    /\ tx_busy = FALSE
    /\ tx_byte = 0
    /\ led_out = 0

\* Faulty variant of RxHold: a read does not clear the flag.
RxHoldSticky(read, rx) ==
    /\ rx_buffer' = IF rx # NoRx THEN rx ELSE rx_buffer
    /\ rx_data_ready' = (rx # NoRx \/ rx_data_ready)
\* Receive holding buffer: an arriving byte has priority over the read.
RxHold(read, rx) ==
    /\ rx_buffer' = IF rx # NoRx THEN rx ELSE rx_buffer
    /\ rx_data_ready' = IF rx # NoRx THEN TRUE
                        ELSE IF read THEN FALSE
                        ELSE rx_data_ready

CountStart(start) == led_out' = IF start THEN (led_out + 1) % LedSize ELSE led_out

PortsReset ==
    /\ rx_buffer' = 0 /\ rx_data_ready' = FALSE
    /\ tx_busy' = FALSE /\ tx_byte' = 0
    /\ led_out' = 0

\* Read multiplexer for MMIO addresses.
MmioRead(addr, sw) ==
    IF addr = SwitchAddr THEN sw
    ELSE IF addr = UartStatus THEN 2 * Bit(rx_data_ready) + Bit(tx_busy)
    ELSE IF addr = UartData THEN rx_buffer
    ELSE 0
================================================================================
