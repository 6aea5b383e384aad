------------------------------ MODULE CachesProofs ------------------------------
(* Both caches, for any number of lines, tags and byte values and any ROM: the *)
(* data cache agrees with the RAM, whatever addresses the RAM aliases, as long *)
(* as only one of the addresses of a word is cacheable, and the instruction    *)
(* cache never returns anything but its memory's word.                         *)
EXTENDS Caches, TLAPS

-------------------------------------------------------------------------------
(* The two ways of storing into a word.                                        *)

LEMMA MergeType ==
    ASSUME NEW old \in Word, NEW new \in Word, NEW type \in StoreType, NEW offset \in Lane
    PROVE  /\ StoreMerge(old, type, offset, new) \in Word
           /\ RamMerge(old, type, offset, new) \in Word
  <1>1. StoreMerge(old, type, offset, new) \in Word
    BY DEF StoreMerge, Word, Lane, StoreType
  <1>2. \A k \in Lane : RamMerge(old, type, offset, new)[k] \in Byte
    BY DEF RamMerge, Word, Lane, Aligned, Width, StoreType
  <1> QED
    BY <1>1, <1>2 DEF RamMerge, Word

\* The line and the RAM take the same bytes of a store: the case analysis of the
\* cache on the low address bits is a write of Width bytes at the aligned offset.
LEMMA MergesAgree ==
    ASSUME NEW old \in Word, NEW new \in Word, NEW type \in StoreType, NEW offset \in Lane
    PROVE  StoreMerge(old, type, offset, new) = RamMerge(old, type, offset, new)
  <1> DEFINE S == StoreMerge(old, type, offset, new)
             R == RamMerge(old, type, offset, new)
  <1>1. S \in [Lane -> Byte] /\ R \in [Lane -> Byte]
    BY MergeType DEF Word
  <1>2. ASSUME NEW k \in Lane PROVE S[k] = R[k]
    <2>1. CASE type = "STORE_W"
      BY <2>1 DEF StoreMerge, RamMerge, Aligned, Width, Word, Lane
    <2>2. CASE type = "STORE_H"
      BY <2>2 DEF StoreMerge, RamMerge, Aligned, Width, Word, Lane
    <2>3. CASE type = "STORE_B"
      BY <2>3 DEF StoreMerge, RamMerge, Aligned, Width, Word, Lane
    <2> QED
      BY <2>1, <2>2, <2>3 DEF StoreType
  <1> HIDE DEF S, R
  <1>3. S = R
    BY <1>1, <1>2
  <1> QED
    BY <1>3 DEF S, R
-------------------------------------------------------------------------------
(* Type correctness.                                                           *)

LEMMA RamAddrType == ASSUME NEW w \in WordAddr PROVE RamAddr(w) \in WordAddr
  BY TagAssumption DEF RamAddr, WordAddr

LEMMA RamStoreType ==
    ASSUME TypeOK, NEW w \in WordAddr, NEW type \in StoreType, NEW offset \in Lane,
           NEW new \in StoreWords, RamStore(w, type, offset, new)
    PROVE  ram' \in [WordAddr -> Word]
  <1>1. RamMerge(ram[RamAddr(w)], type, offset, new) \in Word
    BY MergeType, RamAddrType, WordAssumption DEF TypeOK
  <1> QED
    BY <1>1 DEF RamStore, TypeOK

LEMMA StepType == TypeOK /\ [Next]_vars => TypeOK'
  <1> SUFFICES ASSUME TypeOK, [Next]_vars PROVE TypeOK'
    OBVIOUS
  <1>1. ASSUME NEW w \in WordAddr, Load(w) PROVE TypeOK'
    <2>1. ram[RamAddr(w)] \in Word
      BY RamAddrType DEF TypeOK
    <2>2. w.index \in Indexes /\ w.tag \in Tags
      BY DEF WordAddr
    <2> QED
      BY <1>1, <2>1, <2>2 DEF Load, TypeOK
  <1>2. ASSUME NEW w \in WordAddr, NEW type \in StoreType, NEW offset \in Lane,
               NEW new \in StoreWords, Store(w, type, offset, new)
        PROVE  TypeOK'
    <2>1. ram' \in [WordAddr -> Word]
      BY <1>2, RamStoreType DEF Store
    <2>2. StoreMerge(data_array[w.index], type, offset, new) \in Word
      BY <1>2, MergeType, WordAssumption DEF TypeOK, WordAddr
    <2> QED
      BY <1>2, <2>1, <2>2 DEF Store, TypeOK
  <1>3. ASSUME Reset PROVE TypeOK'
    <2>1. ram' \in [WordAddr -> Word]
      BY <1>3, RamStoreType DEF Reset, TypeOK
    <2> QED
      BY <1>3, <2>1 DEF Reset, TypeOK
  <1>4. CASE UNCHANGED vars
    BY <1>4 DEF vars, TypeOK
  <1> QED
    BY <1>1, <1>2, <1>3, <1>4 DEF Next

LEMMA InitType == Init => TypeOK
  BY WordAssumption DEF Init, TypeOK

\* The arrays of the cache and the RAM keep the widths dcache.sv declares.
THEOREM TypeCorrect == Spec => []TypeOK
  BY InitType, StepType, PTL DEF Spec
-------------------------------------------------------------------------------
(* Coherence.                                                                  *)

\* A store to v leaves the RAM at every other cacheable address alone.
LEMMA RamStoreElsewhere ==
    ASSUME TypeOK, NEW v \in WordAddr, NEW w \in Cacheable, v # w,
           NEW type \in StoreType, NEW offset \in Lane, NEW new \in StoreWords,
           RamStore(v, type, offset, new)
    PROVE  ram'[RamAddr(w)] = ram[RamAddr(w)]
  <1>1. CASE v \in Cacheable
    <2>1. RamAddr(v) # RamAddr(w)
      BY <1>1, CacheableAssumption
    <2> QED
      BY <1>1, <2>1, RamAddrType, CacheableAssumption DEF RamStore, TypeOK
  <1>2. CASE v \notin Cacheable
    BY <1>2 DEF RamStore
  <1> QED
    BY <1>1, <1>2

LEMMA LoadCoherent ==
    ASSUME TypeOK, Coherent, NEW v \in WordAddr, Load(v) PROVE Coherent'
  <1> SUFFICES ASSUME NEW w \in Cacheable, valid_array'[w.index], tag_array'[w.index] = w.tag
               PROVE  data_array'[w.index] = ram'[RamAddr(w)]
    BY DEF Coherent
  <1>0. w \in WordAddr /\ v.index \in Indexes /\ w.index \in Indexes
    BY CacheableAssumption DEF WordAddr
  <1>1. CASE v \in Cacheable /\ ~Hit(v) /\ v.index = w.index
    <2>1. w = v
      BY <1>0, <1>1 DEF Load, TypeOK, WordAddr
    <2> QED
      BY <1>0, <1>1, <2>1 DEF Load, TypeOK
  <1>2. CASE v \in Cacheable /\ ~Hit(v) /\ v.index # w.index
    BY <1>0, <1>2 DEF Load, TypeOK, Coherent
  <1>3. CASE ~(v \in Cacheable /\ ~Hit(v))
    BY <1>3 DEF Load, Coherent
  <1> QED
    BY <1>1, <1>2, <1>3

LEMMA StoreCoherent ==
    ASSUME TypeOK, Coherent, NEW v \in WordAddr, NEW type \in StoreType,
           NEW offset \in Lane, NEW new \in StoreWords, Store(v, type, offset, new)
    PROVE  Coherent'
  <1> SUFFICES ASSUME NEW w \in Cacheable, valid_array'[w.index], tag_array'[w.index] = w.tag
               PROVE  data_array'[w.index] = ram'[RamAddr(w)]
    BY DEF Coherent
  <1>0. w \in WordAddr /\ v.index \in Indexes /\ w.index \in Indexes
    BY CacheableAssumption DEF WordAddr
  <1>1. data_array[w.index] = ram[RamAddr(w)]
    BY DEF Store, Coherent
  <1>2. CASE v = w
    <2>1. Hit(v)
      BY <1>2 DEF Hit, Store
    <2>2. data_array'[w.index] = StoreMerge(data_array[w.index], type, offset, new)
      BY <1>0, <1>2, <2>1 DEF Store, TypeOK
    <2>3. ram'[RamAddr(w)] = RamMerge(ram[RamAddr(w)], type, offset, new)
      BY <1>0, <1>2, RamAddrType DEF Store, RamStore, TypeOK
    <2> QED
      BY <1>0, <1>1, <2>2, <2>3, MergesAgree, RamAddrType, WordAssumption DEF TypeOK
  <1>3. CASE v # w
    <2>1. ram'[RamAddr(w)] = ram[RamAddr(w)]
      BY <1>3, RamStoreElsewhere DEF Store
    <2>2. data_array'[w.index] = data_array[w.index]
      <3>1. CASE Hit(v)
        <4>1. v.index # w.index
          BY <1>0, <1>3, <3>1 DEF Hit, Store, WordAddr
        <4> QED
          BY <1>0, <3>1, <4>1 DEF Store, TypeOK
      <3>2. CASE ~Hit(v)
        BY <3>2 DEF Store
      <3> QED
        BY <3>1, <3>2
    <2> QED
      BY <1>1, <2>1, <2>2
  <1> QED
    BY <1>2, <1>3

LEMMA StepCoherent == TypeOK /\ Coherent /\ [Next]_vars => Coherent'
  <1> SUFFICES ASSUME TypeOK, Coherent, [Next]_vars PROVE Coherent'
    OBVIOUS
  <1>1. ASSUME Reset PROVE Coherent'
    BY <1>1, CacheableAssumption DEF Reset, Coherent, WordAddr
  <1>2. CASE UNCHANGED vars
    BY <1>2 DEF vars, Coherent
  <1> QED
    BY <1>1, <1>2, LoadCoherent, StoreCoherent DEF Next

LEMMA InitCoherent == Init => Coherent
  BY CacheableAssumption DEF Init, Coherent, WordAddr

\* dcache.sv never returns a stale word: a valid line and the RAM agree, under
\* any mix of loads, stores of each width, conflicts and resets.
THEOREM CacheCoherent == Spec => []Coherent
  <1>1. Init => TypeOK /\ Coherent
    BY InitType, InitCoherent
  <1>2. (TypeOK /\ Coherent) /\ [Next]_vars => (TypeOK /\ Coherent)'
    BY StepType, StepCoherent
  <1> QED
    BY <1>1, <1>2, PTL DEF Spec

\* On a hit as on a miss the cache hands the load formatter the word of the RAM.
THEOREM HitOrMissSame ==
    ASSUME Coherent, NEW w \in Cacheable PROVE RawData(w) = ram[RamAddr(w)]
  BY DEF RawData, Hit, Coherent
-------------------------------------------------------------------------------
(* What a load returns, as a number.                                           *)

LEMMA Subtrahend ==
    ASSUME NEW n \in Nat, NEW x \in Int, 0 - n <= x, x < 0 PROVE x % n = x + n
  OBVIOUS

LEMMA Squares ==
    ASSUME NEW b \in Nat, b >= 2 PROVE b * b \in Nat /\ b * b >= b /\ b * b * (b * b) >= b * b
  OBVIOUS

\* The sum of a byte and three bytes of ones, and of two bytes and two of ones.
LEMMA OnesAbove ==
    ASSUME NEW b \in Nat, NEW x \in Int, NEW y \in Int
    PROVE  /\ x + b * ((b - 1) + b * ((b - 1) + b * (b - 1))) = (x - b) + (b * b) * (b * b)
           /\ x + b * (y + b * ((b - 1) + b * (b - 1)))
                 = ((x + b * y) - b * b) + (b * b) * (b * b)
  OBVIOUS

\* A halfword is negative exactly when its upper byte is.
LEMMA SignOfPair ==
    ASSUME NEW b \in Nat, b >= 2, b % 2 = 0, NEW x \in 0 .. b - 1, NEW y \in 0 .. b - 1
    PROVE  y >= b \div 2 <=> 2 * (x + b * y) >= b * b
  <1> DEFINE c == b \div 2
  <1>1. c \in Nat /\ b = 2 * c
    OBVIOUS
  <1> HIDE DEF c
  <1>2. CASE y >= c
    <2>1. b * y >= b * c
      BY <1>1, <1>2
    <2> QED
      BY <1>1, <1>2, <2>1 DEF c
  <1>3. CASE y < c
    <2>1. b * y <= b * (c - 1)
      BY <1>1, <1>3
    <2>2. b * (c - 1) = b * c - b
      BY <1>1
    <2> QED
      BY <1>1, <1>3, <2>1, <2>2 DEF c
  <1> QED
    BY <1>1, <1>2, <1>3

\* The formatter of dcache.sv, which works on bytes, and RV32I's, which works on
\* numbers, agree at every width, sign and offset.
LEMMA FormatsAsLoaded ==
    ASSUME NEW raw \in Word, NEW type \in LoadType, NEW offset \in Lane
    PROVE  ValueOf(ReadData(raw, type, offset)) = Loaded(raw, type, offset)
  <1> DEFINE half == ByteSize * ByteSize
             all == half * half
             low == 2 * (offset \div 2)
             byte == raw[offset]
             pair == raw[low] + ByteSize * raw[low + 1]
             top == ByteSize - 1
  <1>1. /\ ByteSize \in Nat /\ ByteSize >= 2 /\ ByteSize % 2 = 0
        /\ half \in Nat /\ all \in Nat /\ half >= ByteSize /\ all >= half
    BY ByteAssumption, Squares
  <1>2. low \in Lane /\ low + 1 \in Lane
    BY DEF Lane
  <1>3. byte \in 0 .. ByteSize - 1 /\ raw[low] \in 0 .. ByteSize - 1
        /\ raw[low + 1] \in 0 .. ByteSize - 1
    BY <1>2 DEF Word, Byte
  <1>4. CASE type = "LOAD_W"
    BY <1>4 DEF ReadData, Loaded
  <1>5. CASE type = "LOAD_BU"
    <2>1. ValueOf(ReadData(raw, type, offset))
             = byte + ByteSize * (0 + ByteSize * (0 + ByteSize * 0))
      BY <1>5 DEF ReadData, ValueOf, Extension, Lane
    <2>2. ValueOf(ReadData(raw, type, offset)) = byte
      BY <1>1, <1>3, <2>1
    <2> QED
      BY <1>5, <2>2 DEF Loaded
  <1>6. CASE type = "LOAD_HU"
    <2>1. ValueOf(ReadData(raw, type, offset))
             = raw[low] + ByteSize * (raw[low + 1] + ByteSize * (0 + ByteSize * 0))
      BY <1>6 DEF ReadData, ValueOf, Extension, Lane
    <2>2. ValueOf(ReadData(raw, type, offset)) = pair
      BY <1>1, <1>3, <2>1
    <2> QED
      BY <1>6, <2>2 DEF Loaded
  <1>7. CASE type = "LOAD_B"
    <2> DEFINE ext == Extension(TRUE, byte)
    <2>1. ValueOf(ReadData(raw, type, offset))
             = byte + ByteSize * (ext + ByteSize * (ext + ByteSize * ext))
      BY <1>7 DEF ReadData, ValueOf, Lane, Extension
    <2>2. Loaded(raw, type, offset)
             = (IF 2 * byte >= ByteSize THEN byte - ByteSize ELSE byte) % all
      BY <1>7 DEF Loaded
    <2>3. CASE 2 * byte >= ByteSize
      <3>1. ext = top
        BY <1>1, <1>3, <2>3 DEF Extension
      <3>2. ValueOf(ReadData(raw, type, offset)) = (byte - ByteSize) + all
        <4>1. byte \in Int
          BY <1>3
        <4> HIDE DEF byte, ext
        <4> QED
          BY <1>1, <2>1, <3>1, <4>1, OnesAbove
      <3>3. (byte - ByteSize) % all = (byte - ByteSize) + all
        <4>1. byte \in 0 .. ByteSize - 1 /\ byte >= 0
          BY <1>3
        <4> DEFINE x == byte - ByteSize
        <4>2. x \in Int /\ 0 - all <= x /\ x < 0
          <5> HIDE DEF all, byte
          <5> QED
            BY <1>1, <4>1
        <4> HIDE DEF all, x
        <4>3. x % all = x + all
          BY <1>1, <4>2, Subtrahend
        <4> QED
          BY <4>3 DEF x
      <3> QED
        BY <2>2, <2>3, <3>2, <3>3
    <2>4. CASE ~(2 * byte >= ByteSize)
      <3>1. ext = 0
        BY <1>1, <1>3, <2>4 DEF Extension
      <3>2. ValueOf(ReadData(raw, type, offset)) = byte
        <4>1. byte \in Int
          BY <1>3
        <4> HIDE DEF byte, ext
        <4> QED
          BY <1>1, <2>1, <3>1, <4>1
      <3>3. byte % all = byte
        <4> HIDE DEF all, byte
        <4> QED
          BY <1>1, <1>3
      <3> QED
        BY <2>2, <2>4, <3>2, <3>3
    <2> QED
      BY <2>3, <2>4
  <1>8. CASE type = "LOAD_H"
    <2> DEFINE ext == Extension(TRUE, raw[low + 1])
    <2>1. ValueOf(ReadData(raw, type, offset))
             = raw[low] + ByteSize * (raw[low + 1] + ByteSize * (ext + ByteSize * ext))
      BY <1>8 DEF ReadData, ValueOf, Lane, Extension
    <2>2. Loaded(raw, type, offset)
             = (IF 2 * pair >= half THEN pair - half ELSE pair) % all
      BY <1>8 DEF Loaded
    <2>3. raw[low + 1] >= ByteSize \div 2 <=> 2 * pair >= half
      BY <1>1, <1>3, SignOfPair
    <2>4. pair \in 0 .. half - 1
      <3>1. ByteSize * raw[low + 1] <= ByteSize * (ByteSize - 1)
        BY <1>1, <1>3
      <3>2. ByteSize * (ByteSize - 1) = half - ByteSize
        BY <1>1
      <3> QED
        BY <1>1, <1>3, <3>1, <3>2
    <2>5. CASE 2 * pair >= half
      <3>1. ext = top
        BY <2>3, <2>5 DEF Extension
      <3>2. ValueOf(ReadData(raw, type, offset)) = (pair - half) + all
        <4>1. raw[low] \in Int /\ raw[low + 1] \in Int
          BY <1>3
        <4> HIDE DEF low, ext
        <4> QED
          BY <1>1, <2>1, <3>1, <4>1, OnesAbove
      <3>3. (pair - half) % all = (pair - half) + all
        <4> HIDE DEF all, half, pair
        <4> QED
          BY <1>1, <2>4, Subtrahend
      <3> QED
        BY <2>2, <2>5, <3>2, <3>3
    <2>6. CASE ~(2 * pair >= half)
      <3>1. ext = 0
        BY <2>3, <2>6 DEF Extension
      <3>2. ValueOf(ReadData(raw, type, offset)) = pair
        <4>1. raw[low] \in Int /\ raw[low + 1] \in Int
          BY <1>3
        <4> HIDE DEF low, ext
        <4> QED
          BY <1>1, <2>1, <3>1, <4>1
      <3>3. pair % all = pair
        <4> HIDE DEF all, half, pair
        <4> QED
          BY <1>1, <2>4
      <3> QED
        BY <2>2, <2>6, <3>2, <3>3
    <2> QED
      BY <2>5, <2>6
  <1> QED
    BY <1>4, <1>5, <1>6, <1>7, <1>8 DEF LoadType

LEMMA LoadsCoherent == TypeOK /\ Coherent => LoadsReturnMemory
  <1> SUFFICES ASSUME TypeOK, Coherent, NEW w \in Cacheable, NEW type \in LoadType,
                      NEW offset \in Lane
               PROVE  ValueOf(ReadData(RawData(w), type, offset))
                         = Loaded(ram[RamAddr(w)], type, offset)
    BY DEF LoadsReturnMemory
  <1>1. RawData(w) = ram[RamAddr(w)]
    BY HitOrMissSame
  <1>2. ram[RamAddr(w)] \in Word
    BY RamAddrType, CacheableAssumption DEF TypeOK
  <1> QED
    BY <1>1, <1>2, FormatsAsLoaded

\* In every reachable state of the cache, a load of any width at any offset, hit or
\* miss, yields the number RV32I defines from the bytes the RAM holds.
THEOREM LoadsCorrect == Spec => []LoadsReturnMemory
  <1>1. Spec => []TypeOK
    BY TypeCorrect
  <1>2. Spec => []Coherent
    BY CacheCoherent
  <1> QED
    BY <1>1, <1>2, LoadsCoherent, PTL
-------------------------------------------------------------------------------
(* The data cache does not see the other one.                                  *)

\* The two caches together behave, towards data memory, as the data cache of
\* DCache: a fetch is a stutter of it and a reset of both is its reset.
THEOREM CachesImplementDCache == CachesSpec => Spec
  <1>1. CachesInit => Init
    BY DEF CachesInit
  <1>2. [CachesNext]_cachesVars => [Next]_vars
    BY DEF CachesNext, FetchStep, LoadStep, StoreStep, ResetStep, Next, cachesVars
  <1> QED
    BY <1>1, <1>2, PTL DEF CachesSpec, Spec

\* With the instruction cache beside it, and the reset they share, the data cache
\* stays coherent with the RAM.
THEOREM CachesCoherent == CachesSpec => []Coherent
  BY CachesImplementDCache, CacheCoherent, PTL

\* And every load, hit or miss, of any width, returns what the RAM holds.
THEOREM CachesLoadsCorrect == CachesSpec => []LoadsReturnMemory
  BY CachesImplementDCache, LoadsCorrect, PTL
-------------------------------------------------------------------------------
(* The instruction cache.                                                      *)

RomWord == {Rom[a] : a \in I!InstrAddr}

InstrTypeOK ==
    /\ ivalid_array \in [IIndexes -> BOOLEAN]
    /\ itag_array \in [IIndexes -> ITags]
    /\ idata_array \in [IIndexes -> RomWord]

\* A valid line holds the ROM's word at the address its tag and place spell.
LinesAreTheRom ==
    \A pc \in I!InstrAddr :
        ivalid_array[pc.index] /\ itag_array[pc.index] = pc.tag => idata_array[pc.index] = Rom[pc]

InstrInv == InstrTypeOK /\ LinesAreTheRom

LEMMA InstrInit == I!ICacheInit => InstrInv
  BY DEF I!ICacheInit, InstrInv, InstrTypeOK, LinesAreTheRom, I!InstrAddr, RomWord

\* Filling a line makes it the line of this address and of no other.
LEMMA InstrFill ==
    ASSUME InstrInv, NEW pc \in I!InstrAddr, I!Fill(pc) PROVE InstrInv'
  <1>1. pc.index \in IIndexes /\ pc.tag \in ITags /\ Rom[pc] \in RomWord
    BY DEF I!InstrAddr, RomWord
  <1>2. InstrTypeOK'
    BY <1>1 DEF I!Fill, InstrInv, InstrTypeOK
  <1>3. ASSUME NEW a \in I!InstrAddr, ivalid_array'[a.index], itag_array'[a.index] = a.tag
        PROVE  idata_array'[a.index] = Rom[a]
    <2>1. a.index \in IIndexes /\ a = [tag |-> a.tag, index |-> a.index]
          /\ pc = [tag |-> pc.tag, index |-> pc.index]
      BY DEF I!InstrAddr
    <2>2. CASE a.index = pc.index
      <3>1. a = pc
        BY <1>1, <1>3, <2>1, <2>2 DEF I!Fill, InstrInv, InstrTypeOK
      <3> QED
        BY <1>1, <3>1 DEF I!Fill, InstrInv, InstrTypeOK
    <2>3. CASE a.index # pc.index
      BY <1>1, <1>3, <2>1, <2>3 DEF I!Fill, InstrInv, InstrTypeOK, LinesAreTheRom
    <2> QED
      BY <2>2, <2>3
  <1> QED
    BY <1>2, <1>3 DEF InstrInv, LinesAreTheRom

LEMMA InstrStep == InstrInv /\ [CachesNext]_cachesVars => InstrInv'
  <1> SUFFICES ASSUME InstrInv, [CachesNext]_cachesVars PROVE InstrInv'
    OBVIOUS
  <1>1. ASSUME UNCHANGED icacheVars PROVE InstrInv'
    BY <1>1 DEF icacheVars, InstrInv, InstrTypeOK, LinesAreTheRom
  <1>2. CASE FetchStep
    <2>1. PICK pc \in I!InstrAddr : I!Fetch(pc)
      BY <1>2 DEF FetchStep
    <2> QED
      BY <1>1, <2>1, InstrFill DEF I!Fetch, I!icacheVars, icacheVars
  <1>3. CASE ResetStep
    BY <1>3 DEF ResetStep, I!EmptyLines, InstrInv, InstrTypeOK, LinesAreTheRom, I!InstrAddr
  <1> QED
    BY <1>1, <1>2, <1>3 DEF CachesNext, LoadStep, StoreStep, cachesVars

\* Icache.sv never returns another word than the ROM's: whatever was fetched
\* before, in whatever order, and across resets.
THEOREM InstructionsAreTheRom == CachesSpec => []FetchesAreTheRom
  <1>1. CachesInit => InstrInv
    BY InstrInit DEF CachesInit
  <1>2. InstrInv => FetchesAreTheRom
    BY DEF InstrInv, LinesAreTheRom, FetchesAreTheRom, I!FetchesAreTheRom, I!Instruction, I!cache_hit
  <1> QED
    BY <1>1, <1>2, InstrStep, PTL DEF CachesSpec
================================================================================
