-------------------------------- MODULE MCHello ---------------------------------
(* The program as the script writes it, 256 words, on a processor with 10-bit  *)
(* words: address 512 is the first MMIO address, as 2^31 is on 32 bits.        *)
EXTENDS HelloRun

\* The program shifts left and uses no other bit-lane operation.
MCBitResult(op, a, b) == IF op = "SLL" THEN (a * 2^(b % 10)) % WordSize ELSE 0

ZeroRam == {[w \in MemWord |-> 0]}
================================================================================
