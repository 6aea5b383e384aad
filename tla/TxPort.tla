-------------------------------- MODULE TxPort ---------------------------------
(* A UART transmitter as its user sees it: a busy flag and the byte being      *)
(* sent. The processor modules use TxSend; UartTx, the transmitter bit by bit, *)
(* implements PortSpec.                                                        *)
VARIABLES
    tx_busy,    \* the transmitter is sending
    tx_byte     \* the byte it latched last

txPortVars == <<tx_busy, tx_byte>>

\* A start pulse latches the byte and raises busy; a busy transmitter finishes
\* in some later cycle.
TxSend(start, byte) ==
    /\ tx_byte' = IF start THEN byte ELSE tx_byte
    /\ tx_busy' \in IF start THEN {TRUE} ELSE {tx_busy, FALSE}

\* A user that never starts a busy transmitter (uart_tx_start requires
\* !uart_tx_busy) and sends any byte.
PortNext == \E start \in BOOLEAN : (start => ~tx_busy) /\ TxSend(start, tx_byte')
PortSpec == ~tx_busy /\ [][PortNext]_txPortVars /\ (tx_busy ~> ~tx_busy)
================================================================================
