--------------------------------- MODULE DCache ---------------------------------
(* The data cache (dcache.sv): direct-mapped, one word per line, filled on a   *)
(* load miss, written through on a store hit. One step is one clock cycle with *)
(* the request of the instruction in MEM. A word is the tuple of its four      *)
(* bytes, lowest first; a word address is the pair of the slices the cache     *)
(* takes of it. The RAM behind the cache, which its user writes in the same    *)
(* cycle, is not in dcache.sv and is modelled from the interface.              *)
EXTENDS Integers

CONSTANTS
    ByteSize,       \* number of values of a byte
    Tags, Indexes,  \* values of the slices [31:6] and [5:2] of an address
    RamTag(_),      \* tag bits the RAM decodes (dmem.sv drops those above its size)
    Cacheable,      \* word addresses presented with cacheable high
    StoreWords,     \* words that may be stored
    PowerUpWords    \* contents of memories at power-up considered

Lane == 0 .. 3
Byte == 0 .. ByteSize - 1
Word == [Lane -> Byte]
WordAddr == [tag: Tags, index: Indexes]
RamAddr(w) == [tag |-> RamTag(w.tag), index |-> w.index]

ASSUME ByteAssumption == ByteSize \in Nat /\ ByteSize >= 2 /\ ByteSize % 2 = 0
ASSUME TagAssumption == \A t \in Tags : RamTag(t) \in Tags
ASSUME WordAssumption == StoreWords \subseteq Word /\ PowerUpWords \subseteq Word

\* Only one of the addresses at which a word of RAM appears is cacheable.
ASSUME CacheableAssumption ==
    /\ Cacheable \subseteq WordAddr
    /\ \A v, w \in Cacheable : RamAddr(v) = RamAddr(w) => v = w

VARIABLES
    valid_array, tag_array, data_array,
    ram         \* the RAM behind the cache

vars == <<valid_array, tag_array, data_array, ram>>

LoadType == {"LOAD_W", "LOAD_B", "LOAD_BU", "LOAD_H", "LOAD_HU"}
StoreType == {"STORE_W", "STORE_H", "STORE_B"}
-------------------------------------------------------------------------------
(* Lookup and load formatting.                                                 *)

\* Faulty variant of Hit: any valid line of the index is taken.
HitAnyTag(w) == w \in Cacheable /\ valid_array[w.index]
Hit(w) ==
    /\ w \in Cacheable
    /\ valid_array[w.index]
    /\ tag_array[w.index] = w.tag

RawData(w) == IF Hit(w) THEN data_array[w.index] ELSE ram[RamAddr(w)]

Extension(signed, top) == IF signed /\ top >= ByteSize \div 2 THEN ByteSize - 1 ELSE 0

\* read_data for byte offset offset of word raw.
ReadData(raw, type, offset) ==
    LET half == 2 * (offset \div 2) IN
    IF type = "LOAD_W" THEN raw
    ELSE IF type \in {"LOAD_H", "LOAD_HU"}
    THEN [k \in Lane |-> IF k < 2 THEN raw[half + k]
                         ELSE Extension(type = "LOAD_H", raw[half + 1])]
    ELSE [k \in Lane |-> IF k = 0 THEN raw[offset]
                         ELSE Extension(type = "LOAD_B", raw[offset])]
-------------------------------------------------------------------------------
(* The lines at the rising edge.                                               *)

\* Faulty variant of StoreMerge: a halfword always goes to the low half.
StoreMergeLowHalf(old, type, offset, new) ==
    IF type = "STORE_W" THEN new
    ELSE IF type = "STORE_H" THEN [old EXCEPT ![0] = new[0], ![1] = new[1]]
    ELSE [old EXCEPT ![offset] = new[0]]

\* The line after a store hit.
StoreMerge(old, type, offset, new) ==
    IF type = "STORE_W" THEN new
    ELSE IF type = "STORE_H" THEN
        IF offset \div 2 = 0 THEN [old EXCEPT ![0] = new[0], ![1] = new[1]]
                             ELSE [old EXCEPT ![2] = new[0], ![3] = new[1]]
    ELSE [old EXCEPT ![offset] = new[0]]

\* What the RAM does with the same store: Width bytes from the aligned offset on.
Width(type) == IF type = "STORE_W" THEN 4 ELSE IF type = "STORE_H" THEN 2 ELSE 1
Aligned(type, offset) == (offset \div Width(type)) * Width(type)
RamMerge(old, type, offset, new) ==
    LET base == Aligned(type, offset) IN
    [k \in Lane |-> IF k \in base .. base + Width(type) - 1 THEN new[k - base] ELSE old[k]]

RamStore(w, type, offset, new) ==
    ram' = IF w \in Cacheable
           THEN [ram EXCEPT ![RamAddr(w)] = RamMerge(ram[RamAddr(w)], type, offset, new)]
           ELSE ram

Load(w) ==
    /\ IF w \in Cacheable /\ ~Hit(w)
       THEN /\ data_array' = [data_array EXCEPT ![w.index] = ram[RamAddr(w)]]
            /\ tag_array' = [tag_array EXCEPT ![w.index] = w.tag]
            /\ valid_array' = [valid_array EXCEPT ![w.index] = TRUE]
       ELSE UNCHANGED <<valid_array, tag_array, data_array>>
    /\ UNCHANGED ram

\* A store that misses does not allocate.
Store(w, type, offset, new) ==
    /\ data_array' = IF Hit(w)
                     THEN [data_array EXCEPT ![w.index] =
                              StoreMerge(data_array[w.index], type, offset, new)]
                     ELSE data_array
    /\ RamStore(w, type, offset, new)
    /\ UNCHANGED <<valid_array, tag_array>>

\* Reset empties the cache; it does not keep a store in MEM from the RAM.
Reset ==
    /\ valid_array' = [l \in Indexes |-> FALSE]
    /\ UNCHANGED <<tag_array, data_array>>
    /\ \/ UNCHANGED ram
       \/ \E w \in WordAddr, type \in StoreType, offset \in Lane, new \in StoreWords :
             RamStore(w, type, offset, new)

Init ==
    /\ valid_array = [l \in Indexes |-> FALSE]
    /\ tag_array \in [Indexes -> Tags]
    /\ data_array \in [Indexes -> PowerUpWords]
    /\ ram \in [WordAddr -> PowerUpWords]

Next ==
    \/ \E w \in WordAddr : Load(w)
    \/ \E w \in WordAddr, type \in StoreType, offset \in Lane, new \in StoreWords :
          Store(w, type, offset, new)
    \/ Reset

Spec == Init /\ [][Next]_vars
-------------------------------------------------------------------------------
(* Properties.                                                                 *)

TypeOK ==
    /\ valid_array \in [Indexes -> BOOLEAN]
    /\ tag_array \in [Indexes -> Tags]
    /\ data_array \in [Indexes -> Word]
    /\ ram \in [WordAddr -> Word]

\* A valid line holds what the RAM holds at its address: no order of loads,
\* stores of any width and resets leaves it stale.
Coherent ==
    \A w \in Cacheable :
        valid_array[w.index] /\ tag_array[w.index] = w.tag
            => data_array[w.index] = ram[RamAddr(w)]

\* The bytes Width bytes wide at an offset, as a number, and that number
\* sign-extended or not, modulo the word size: what RV32I says a load returns.
ValueOf(word) ==
    word[0] + ByteSize * (word[1] + ByteSize * (word[2] + ByteSize * word[3]))
Loaded(word, type, offset) ==
    LET half == ByteSize * ByteSize
        all == half * half
        byte == word[offset]
        pair == word[2 * (offset \div 2)] + ByteSize * word[2 * (offset \div 2) + 1]
    IN  CASE type = "LOAD_W"  -> ValueOf(word)
          [] type = "LOAD_BU" -> byte
          [] type = "LOAD_HU" -> pair
          [] type = "LOAD_B"  -> (IF 2 * byte >= ByteSize THEN byte - ByteSize ELSE byte) % all
          [] type = "LOAD_H"  -> (IF 2 * pair >= half THEN pair - half ELSE pair) % all

\* Every load the program could do now, hit or miss, at any offset, returns the
\* bytes of the RAM extended as RV32I extends them.
LoadsReturnMemory ==
    \A w \in Cacheable, type \in LoadType, offset \in Lane :
        ValueOf(ReadData(RawData(w), type, offset)) = Loaded(ram[RamAddr(w)], type, offset)
================================================================================
