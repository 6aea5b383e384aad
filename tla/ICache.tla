--------------------------------- MODULE ICache ---------------------------------
(* The instruction cache (Icache.sv): direct-mapped, one word per line, filled *)
(* on every miss from the ROM, whose output it passes on meanwhile. A word     *)
(* address is the pair of the slices the cache takes of the program counter.   *)
EXTENDS Integers

CONSTANTS
    ITags, IIndexes,    \* values of the slices [31:6] and [5:2] of the program counter
    Rom                 \* the ROM's word at each address: imem.sv drops the upper bits

VARIABLES valid_array, tag_array, data_array
icacheVars == <<valid_array, tag_array, data_array>>

InstrAddr == [tag: ITags, index: IIndexes]

cache_hit(pc) == valid_array[pc.index] /\ tag_array[pc.index] = pc.tag
Instruction(pc) == IF cache_hit(pc) THEN data_array[pc.index] ELSE Rom[pc]

\* Faulty variant of Fill: the owner of the line is not recorded.
FillKeepsTag(pc) ==
    /\ data_array' = [data_array EXCEPT ![pc.index] = Rom[pc]]
    /\ valid_array' = [valid_array EXCEPT ![pc.index] = TRUE]
    /\ UNCHANGED tag_array
Fill(pc) ==
    /\ data_array' = [data_array EXCEPT ![pc.index] = Rom[pc]]
    /\ tag_array' = [tag_array EXCEPT ![pc.index] = pc.tag]
    /\ valid_array' = [valid_array EXCEPT ![pc.index] = TRUE]

Fetch(pc) == IF cache_hit(pc) THEN UNCHANGED icacheVars ELSE Fill(pc)

\* Reset marks the lines and keeps what is in them.
EmptyLines == valid_array' = [l \in IIndexes |-> FALSE] /\ UNCHANGED <<tag_array, data_array>>

ICacheInit ==
    /\ valid_array = [l \in IIndexes |-> FALSE]
    /\ tag_array \in [IIndexes -> ITags]
    /\ data_array \in [IIndexes -> {Rom[a] : a \in InstrAddr}]

\* Whatever was fetched before, and with whatever the lines held at power-up, every
\* address fetches the word the ROM has there.
FetchesAreTheRom == \A pc \in InstrAddr : Instruction(pc) = Rom[pc]
================================================================================
