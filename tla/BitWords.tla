------------------------------- MODULE BitWords --------------------------------
(* Numbers as the sets of the positions of their one bits, 31 at most. On such *)
(* sets | is union, & is intersection, and a shift moves every position. A     *)
(* negative Python integer has ones without end; its set has them up to bit 31,*)
(* the highest that an instruction word keeps.                                 *)
EXTENDS Integers

Pos == 0 .. 31
Word32 == SUBSET Pos
Unsigned(n) == SUBSET (0 .. n - 1)           \* numbers of n bits

Shl(v, n) == {k \in Pos : k - n \in v}
\* (v >> lo) & (2^n - 1), in Verilog v[lo+n-1:lo].
Slice(v, lo, n) == {k \in 0 .. n - 1 : k + lo \in v}

\* The number whose n low bits are v and whose other bits repeat bit n - 1.
\* Faulty variant of SignExtend: the bit above the sign is looked at.
SignExtendOff(v, n) == IF n \in v THEN v \cup (n .. 31) ELSE v
SignExtend(v, n) == IF n - 1 \in v THEN v \cup (n .. 31) ELSE v

\* The ones of an integer below position w, in two's complement, and the number
\* whose ones below position w are those of v.
OneBits(n, w) == {k \in 0 .. w - 1 : (n \div 2^k) % 2 = 1}
Below[w \in Nat] ==
    [v \in SUBSET Nat |->
        IF w = 0 THEN 0 ELSE Below[w - 1][v] + (IF w - 1 \in v THEN 2^(w - 1) ELSE 0)]
Number(v, w) == Below[w][v]

\* The numbers of n bits in two's complement.
SignedBits(n) == {v \in Word32 : \A k \in n .. 31 : k \in v <=> n - 1 \in v}
Offsets(n) == {v \in SignedBits(n) : 0 \notin v}     \* of branches and jumps: even
================================================================================
