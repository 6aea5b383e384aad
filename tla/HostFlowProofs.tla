---------------------------- MODULE HostFlowProofs -----------------------------
(* Encoding and decoding for all operands, where TLC takes those at the        *)
(* boundaries: what either assembler encodes, the processor's decoder and      *)
(* decoder.py read back; any word has the control signals the pipeline's       *)
(* theorems assume; bin_to_hex.py moves no byte; the log names the words; the  *)
(* reference model, whose integers have no width, follows the hardware.        *)
(* Every bit of a word is followed from the shift that puts it there to the    *)
(* slice that takes it out; what BitWords says of numbers and their bits comes *)
(* first, for numbers of any width, by induction over positions. The induction *)
(* theorems of the library are stated for operators; the one below is stated   *)
(* for sets, and rests on the well-foundedness of inclusion.                   *)
EXTENDS HostFlow, FiniteSetTheorems, WellFoundedInduction, TLAPS

-------------------------------------------------------------------------------
(* Induction, and powers of two.                                               *)

LEMMA Induction ==
    ASSUME NEW S, 0 \in S, \A n \in S \cap Nat : n + 1 \in S
    PROVE  Nat \subseteq S
  <1> SUFFICES ASSUME NEW m \in Nat, m \notin S PROVE FALSE
    OBVIOUS
  <1> DEFINE U == 0 .. m
             T == {A \in SUBSET U : \E k \in U : A = 0 .. k /\ k \notin S}
  <1>1. IsFiniteSet(U)
    BY FS_Interval
  <1>2. IsWellFoundedOn(StrictSubsetOrdering(U), SUBSET U)
    BY <1>1, FS_StrictSubsetOrderingWellFounded, FS_FiniteSubsetsOfFinite
  <1>3. T \subseteq SUBSET U /\ U \in T
    OBVIOUS
  <1>4. PICK A \in T : \A B \in T : ~ (<<B, A>> \in StrictSubsetOrdering(U))
    <2> HIDE DEF T, U
    <2> QED
      BY <1>2, <1>3, WFMin
  <1>5. PICK k \in U : A = 0 .. k /\ k \notin S
    OBVIOUS
  <1>6. k # 0 /\ k - 1 \in U /\ k - 1 \notin S
    <2> HIDE DEF T
    <2>1. k \in Nat /\ k # 0 /\ k <= m
      BY <1>5
    <2>2. k - 1 \in Nat /\ (k - 1) + 1 = k /\ k - 1 <= m
      BY <2>1
    <2>3. k - 1 \notin S
      <3> HIDE DEF U
      <3> SUFFICES ASSUME k - 1 \in S PROVE FALSE
        OBVIOUS
      <3>1. (k - 1) + 1 \in S
        BY <2>2
      <3> QED
        BY <3>1, <2>2, <1>5
    <2> QED
      BY <2>1, <2>2, <2>3
  <1>7. 0 .. (k - 1) \in T /\ 0 .. (k - 1) \subseteq A /\ 0 .. (k - 1) # A
    BY <1>5, <1>6
  <1> QED
    BY <1>4, <1>7 DEF StrictSubsetOrdering

\* 2^n counts the subsets of n positions: one more position doubles them.
LEMMA PowerOfTwo ==
    ASSUME NEW n \in Nat
    PROVE  2^n \in Nat \ {0} /\ 2^(n + 1) = 2 * 2^n
  <1> DEFINE P == 0 .. n - 1
             Q == 0 .. n
             With == {s \cup {n} : s \in SUBSET P}
             add == [s \in SUBSET P |-> s \cup {n}]
  <1>1. IsFiniteSet(P) /\ Cardinality(P) = n /\ IsFiniteSet(Q) /\ Cardinality(Q) = n + 1
    BY FS_Interval
  <1>2. /\ IsFiniteSet(SUBSET P) /\ Cardinality(SUBSET P) = 2^n
        /\ IsFiniteSet(SUBSET Q) /\ Cardinality(SUBSET Q) = 2^(n + 1)
    BY <1>1, FS_SUBSET
  <1>3. 2^n \in Nat /\ 2^n # 0
    <2>1. SUBSET P # {}
      OBVIOUS
    <2> QED
      BY <1>2, <2>1, FS_CardinalityType, FS_EmptySet
  <1>4. IsFiniteSet(With) /\ Cardinality(With) = 2^n
    <2>1. \A s \in SUBSET P : n \notin s
      OBVIOUS
    <2>2. \A s, t \in SUBSET P : s \cup {n} = t \cup {n} => s = t
      BY <2>1
    <2> HIDE DEF P
    <2>3. add \in [SUBSET P -> With] /\ \A s \in SUBSET P : add[s] = s \cup {n}
      OBVIOUS
    <2>4. \A t \in With : \E s \in SUBSET P : add[s] = t
      BY <2>3
    <2> HIDE DEF add, With
    <2>5. add \in Bijection(SUBSET P, With)
      BY <2>2, <2>3, <2>4 DEF Bijection, Injection, Surjection, IsInjective
    <2>6. ExistsBijection(SUBSET P, With)
      BY <2>5 DEF ExistsBijection
    <2> QED
      BY <1>2, <2>6, FS_Bijection
  <1>5. SUBSET Q = (SUBSET P) \cup With
    <2>1. ASSUME NEW s \in SUBSET Q, n \in s PROVE s \in With
      <3>1. s \ {n} \in SUBSET P /\ s = (s \ {n}) \cup {n}
        BY <2>1
      <3> HIDE DEF P
      <3> QED
        BY <3>1
    <2>2. ASSUME NEW s \in SUBSET Q, n \notin s PROVE s \in SUBSET P
      BY <2>2
    <2>3. P \subseteq Q /\ n \in Q
      OBVIOUS
    <2> HIDE DEF P, Q
    <2>4. \A s \in SUBSET P : s \in SUBSET Q /\ s \cup {n} \in SUBSET Q
      BY <2>3
    <2> QED
      BY <2>1, <2>2, <2>4
  <1>6. (SUBSET P) \cap With = {}
    BY n \notin P
  <1> HIDE DEF P, Q, With
  <1>7. Cardinality(SUBSET Q) = Cardinality(SUBSET P) + Cardinality(With) - Cardinality({})
    BY <1>2, <1>4, <1>5, <1>6, FS_Union
  <1>8. Cardinality({}) = 0
    BY FS_EmptySet
  <1> QED
    BY <1>2, <1>3, <1>4, <1>7, <1>8

-------------------------------------------------------------------------------
(* The recursion of Below has a solution: the sums up to each position.        *)

Weight(v, k) == IF k \in v THEN 2^k ELSE 0
NextSums(sum, w) == [v \in SUBSET Nat |-> IF w = 0 THEN 0 ELSE sum[v] + Weight(v, w - 1)]
Sums(h, n) ==
    /\ h \in [0 .. n -> [SUBSET Nat -> Nat]]
    /\ \A k \in 0 .. n : h[k] = NextSums(h[k - 1], k)

LEMMA WeightType == ASSUME NEW v, NEW k \in Nat PROVE Weight(v, k) \in Nat
  BY PowerOfTwo DEF Weight

LEMMA NextType ==
    ASSUME NEW sum, NEW w \in Nat, w # 0 => sum \in [SUBSET Nat -> Nat]
    PROVE  NextSums(sum, w) \in [SUBSET Nat -> Nat]
  <1> SUFFICES ASSUME NEW v \in SUBSET Nat
               PROVE  (IF w = 0 THEN 0 ELSE sum[v] + Weight(v, w - 1)) \in Nat
    BY DEF NextSums
  <1>1. CASE w = 0
    BY <1>1
  <1>2. CASE w # 0
    <2>1. w - 1 \in Nat /\ Weight(v, w - 1) \in Nat /\ sum[v] \in Nat
      BY <1>2, WeightType
    <2> QED
      BY <1>2, <2>1
  <1> QED
    BY <1>1, <1>2

LEMMA SumsExist == \A n \in Nat : \E h : Sums(h, n)
  <1> DEFINE S == {n \in Nat : \E h : Sums(h, n)}
  <1>1. 0 \in S
    <2> DEFINE h == [k \in {0} |-> NextSums(0, 0)]
    <2>1. NextSums(0, 0) \in [SUBSET Nat -> Nat]
      BY NextType
    <2>2. NextSums(h[0 - 1], 0) = NextSums(0, 0)
      BY DEF NextSums
    <2>3. 0 .. 0 = {0}
      OBVIOUS
    <2>4. Sums(h, 0)
      BY <2>1, <2>2, <2>3 DEF Sums
    <2> QED
      BY <2>4
  <1>2. ASSUME NEW n \in S PROVE n + 1 \in S
    <2>1. PICK h : Sums(h, n)
      BY <1>2
    <2> DEFINE g == [k \in 0 .. n + 1 |-> IF k = n + 1 THEN NextSums(h[n], n + 1) ELSE h[k]]
    <2>2. n \in Nat /\ h \in [0 .. n -> [SUBSET Nat -> Nat]] /\ h[n] \in [SUBSET Nat -> Nat]
      BY <1>2, <2>1 DEF Sums
    <2>3. NextSums(h[n], n + 1) \in [SUBSET Nat -> Nat]
      BY <2>2, NextType
    <2>4. g \in [0 .. n + 1 -> [SUBSET Nat -> Nat]]
      BY <2>2, <2>3
    <2>5. ASSUME NEW k \in 0 .. n + 1 PROVE g[k] = NextSums(g[k - 1], k)
      <3>1. CASE k = n + 1
        BY <2>2, <3>1
      <3>2. CASE k = 0
        BY <2>1, <2>2, <3>2 DEF Sums, NextSums
      <3>3. CASE k \in 1 .. n
        BY <2>1, <2>2, <3>3 DEF Sums
      <3> QED
        BY <2>2, <3>1, <3>2, <3>3
    <2> HIDE DEF g
    <2>6. n + 1 \in Nat /\ Sums(g, n + 1)
      BY <2>2, <2>4, <2>5 DEF Sums
    <2> QED
      BY <2>6
  <1> HIDE DEF S
  <1>3. Nat \subseteq S
    BY <1>1, <1>2, Induction
  <1> QED
    BY <1>3 DEF S

LEMMA SumsUnique ==
    ASSUME NEW a \in Nat, NEW b \in Nat, NEW h, NEW g, Sums(h, a), Sums(g, b),
           NEW n \in Nat, n <= a, n <= b
    PROVE  h[n] = g[n]
  <1> DEFINE S == {k \in Nat : k <= a /\ k <= b => h[k] = g[k]}
  <1>1. 0 \in S
    BY DEF Sums, NextSums
  <1>2. ASSUME NEW k \in S PROVE k + 1 \in S
    <2>1. k \in Nat /\ (k + 1) - 1 = k
      BY <1>2
    <2> QED
      BY <1>2, <2>1 DEF Sums
  <1> HIDE DEF S
  <1>3. Nat \subseteq S
    BY <1>1, <1>2, Induction
  <1> QED
    BY <1>3 DEF S

LEMMA BelowRecursion ==
    /\ Below[0] = [v \in SUBSET Nat |-> 0]
    /\ \A w \in Nat : /\ Below[w] \in [SUBSET Nat -> Nat]
                      /\ Below[w + 1] = [v \in SUBSET Nat |-> Below[w][v] + Weight(v, w)]
  <1> DEFINE H(k) == CHOOSE h : Sums(h, k)
             total == [k \in Nat |-> H(k)[k]]
             Step(f) == [w \in Nat |->
                            [v \in SUBSET Nat |->
                                IF w = 0 THEN 0
                                ELSE f[w - 1][v] + (IF w - 1 \in v THEN 2^(w - 1) ELSE 0)]]
  <1>1. \A k \in Nat : Sums(H(k), k)
    BY SumsExist
  <1> HIDE DEF H
  <1>2. ASSUME NEW k \in Nat PROVE total[k] = NextSums(total[k - 1], k)
    <2>1. CASE k = 0
      BY <1>1, <2>1 DEF Sums, NextSums
    <2>2. CASE k # 0
      <3>1. k - 1 \in Nat /\ Sums(H(k), k) /\ Sums(H(k - 1), k - 1)
        BY <1>1, <2>2
      <3>2. H(k)[k - 1] = H(k - 1)[k - 1]
        BY <3>1, SumsUnique
      <3> QED
        BY <3>1, <3>2 DEF Sums
    <2> QED
      BY <2>1, <2>2
  <1>3. \A f : Step(f) = [w \in Nat |-> NextSums(f[w - 1], w)]
    BY DEF NextSums, Weight
  <1>4. total = Step(total)
    <2> HIDE DEF Step, total
    <2>1. total = [k \in Nat |-> total[k]]
      BY DEF total
    <2> QED
      BY <1>2, <1>3, <2>1
  <1>5. Below = CHOOSE f : f = Step(f)
    BY DEF Below
  <1> HIDE DEF Step, total
  <1>6. Below = [w \in Nat |-> NextSums(Below[w - 1], w)]
    BY <1>3, <1>4, <1>5
  <1>7. \A w \in Nat : Below[w] = NextSums(Below[w - 1], w)
    BY <1>6
  <1> DEFINE S == {w \in Nat : Below[w] \in [SUBSET Nat -> Nat]}
  <1>8. 0 \in S
    BY <1>7, NextType
  <1>9. ASSUME NEW w \in S PROVE w + 1 \in S
    BY <1>7, <1>9, NextType
  <1> HIDE DEF S
  <1>10. Nat \subseteq S
    BY <1>8, <1>9, Induction
  <1> QED
    BY <1>7, <1>10 DEF S, NextSums

\* The number of w positions, position by position.
LEMMA NumberSteps ==
    ASSUME NEW v \in SUBSET Nat
    PROVE  /\ Number(v, 0) = 0
           /\ \A w \in Nat : /\ Number(v, w) \in Nat
                             /\ Number(v, w + 1) = Number(v, w) + Weight(v, w)
  BY BelowRecursion DEF Number

-------------------------------------------------------------------------------
(* Division and its remainders.                                                *)

LEMMA Division ==
    ASSUME NEW n \in Nat \ {0}, NEW a \in Int
    PROVE  a = n * (a \div n) + (a % n) /\ (a % n) \in 0 .. n - 1 /\ a \div n \in Int
  OBVIOUS

LEMMA DivisionUnique ==
    ASSUME NEW n \in Nat \ {0}, NEW a \in Int, NEW q \in Int, NEW r \in 0 .. n - 1,
           a = n * q + r
    PROVE  a \div n = q /\ a % n = r
  <1>1. a = n * (a \div n) + (a % n) /\ (a % n) \in 0 .. n - 1 /\ a \div n \in Int
    BY Division
  <1>2. n * (q - (a \div n)) = (a % n) - r
    BY <1>1
  <1>3. \A d \in Int : d >= 1 => n * d >= n
    OBVIOUS
  <1>4. \A d \in Int : d <= -1 => n * d <= -n
    OBVIOUS
  <1>5. q - (a \div n) = 0
    BY <1>1, <1>2, <1>3, <1>4
  <1> QED
    BY <1>1, <1>2, <1>5

LEMMA PowersMultiply == \A k, d \in Nat : 2^(k + d) = 2^k * 2^d
  <1> SUFFICES ASSUME NEW k \in Nat PROVE \A d \in Nat : 2^(k + d) = 2^k * 2^d
    OBVIOUS
  <1> DEFINE S == {d \in Nat : 2^(k + d) = 2^k * 2^d}
  <1>1. 0 \in S
    <2>1. 2^0 = 1 /\ k + 0 = k /\ 2^k \in Nat
      BY PowerOfTwo
    <2> QED
      BY <2>1
  <1>2. ASSUME NEW d \in S PROVE d + 1 \in S
    <2>1. d \in Nat /\ k + d \in Nat /\ k + (d + 1) = (k + d) + 1
      BY <1>2
    <2>2. /\ 2^(k + (d + 1)) = 2 * 2^(k + d) /\ 2^(d + 1) = 2 * 2^d
          /\ 2^k \in Nat /\ 2^d \in Nat /\ 2^(k + d) = 2^k * 2^d
      BY <1>2, <2>1, PowerOfTwo
    <2>3. \A x, y \in Nat : 2 * (x * y) = x * (2 * y)
      OBVIOUS
    <2> QED
      BY <2>1, <2>2, <2>3
  <1> HIDE DEF S
  <1>3. Nat \subseteq S
    BY <1>1, <1>2, Induction
  <1> QED
    BY <1>3 DEF S

\* The bits of a word are those of every integer it stands for.
LEMMA OnesOfRemainder ==
    ASSUME NEW a \in Int, NEW w \in Nat
    PROVE  OneBits(a % 2^w, w) = OneBits(a, w)
  <1> SUFFICES ASSUME NEW k \in 0 .. w - 1
               PROVE  ((a % 2^w) \div 2^k) % 2 = (a \div 2^k) % 2
    BY DEF OneBits
  <1> DEFINE M == 2^w
             K == 2^k
             m == 2^(w - k - 1)
             q == a \div M
             r == a % M
             s == r \div K
             t == r % K
  <1>1. M \in Nat \ {0} /\ K \in Nat \ {0} /\ m \in Nat \ {0}
    <2>1. w - k - 1 \in Nat
      OBVIOUS
    <2> QED
      BY <2>1, PowerOfTwo
  <1>2. M = K * (2 * m)
    <2>1. w - k - 1 \in Nat /\ w - k \in Nat /\ w = k + (w - k) /\ w - k = (w - k - 1) + 1
      OBVIOUS
    <2>2. 2^w = 2^k * 2^(w - k)
      BY <2>1, PowersMultiply
    <2>3. 2^(w - k) = 2 * 2^(w - k - 1)
      BY <2>1, PowerOfTwo
    <2> QED
      BY <2>2, <2>3
  <1> HIDE DEF M, K, m
  <1>3. a = M * q + r /\ r \in 0 .. M - 1 /\ q \in Int
    BY <1>1, Division
  <1>4. r = K * s + t /\ t \in 0 .. K - 1 /\ s \in Int
    BY <1>1, <1>3, Division
  <1> HIDE DEF q, r, s, t
  <1>5. a = K * (2 * (m * q) + s) + t
    BY <1>1, <1>2, <1>3, <1>4
  <1>6. a \div K = 2 * (m * q) + s
    <2>1. 2 * (m * q) + s \in Int
      BY <1>1, <1>3, <1>4
    <2> QED
      BY <1>1, <1>4, <1>5, <2>1, DivisionUnique
  <1>7. (2 * (m * q) + s) % 2 = s % 2
    <2>1. m * q \in Int
      BY <1>1, <1>3
    <2> QED
      BY <1>4, <2>1
  <1>8. (a \div K) % 2 = s % 2
    BY <1>6, <1>7
  <1> QED
    BY <1>8 DEF M, K, r, s

\* One more bit of a remainder.
LEMMA NextBit ==
    ASSUME NEW P \in Nat \ {0}, NEW a \in Int
    PROVE  a % (2 * P) = (a % P) + P * ((a \div P) % 2)
  <1> DEFINE q == a \div P
             r == a % P
             e == q \div 2
             b == q % 2
  <1>1. a = P * q + r /\ r \in 0 .. P - 1 /\ q \in Int
    BY Division
  <1>2. q = 2 * e + b /\ b \in 0 .. 1 /\ e \in Int
    BY <1>1
  <1> HIDE DEF q, r, e, b
  <1>3. a = (2 * P) * e + (P * b + r)
    BY <1>1, <1>2
  <1>4. P * b + r \in 0 .. (2 * P) - 1
    BY <1>1, <1>2
  <1>5. a % (2 * P) = P * b + r
    <2>1. 2 * P \in Nat \ {0}
      OBVIOUS
    <2> QED
      BY <1>2, <1>3, <1>4, <2>1, DivisionUnique, Zenon
  <1> QED
    BY <1>1, <1>2, <1>5 DEF b, q, r
-------------------------------------------------------------------------------
(* Numbers and their bits.                                                     *)

LEMMA NumberRange ==
    ASSUME NEW v \in SUBSET Nat
    PROVE  \A w \in Nat : Number(v, w) \in 0 .. 2^w - 1
  <1> DEFINE S == {w \in Nat : Number(v, w) \in 0 .. 2^w - 1}
  <1>1. 0 \in S
    <2>1. Number(v, 0) = 0 /\ 2^0 = 1
      BY NumberSteps
    <2> QED
      BY <2>1
  <1>2. ASSUME NEW w \in S PROVE w + 1 \in S
    <2>1. w \in Nat /\ Number(v, w + 1) = Number(v, w) + Weight(v, w)
      BY <1>2, NumberSteps
    <2>2. 2^w \in Nat /\ 2^(w + 1) = 2 * 2^w /\ Number(v, w) \in 0 .. 2^w - 1
      BY <1>2, <2>1, PowerOfTwo
    <2> QED
      BY <2>1, <2>2 DEF Weight
  <1> HIDE DEF S
  <1>3. Nat \subseteq S
    BY <1>1, <1>2, Induction
  <1> QED
    BY <1>3 DEF S

\* Only the empty set has the number zero.
LEMMA NumberZero ==
    ASSUME NEW v \in SUBSET Nat
    PROVE  \A w \in Nat : Number(v, w) = 0 => \A k \in 0 .. w - 1 : k \notin v
  <1> DEFINE S == {w \in Nat : Number(v, w) = 0 => \A k \in 0 .. w - 1 : k \notin v}
  <1>1. 0 \in S
    OBVIOUS
  <1>2. ASSUME NEW w \in S PROVE w + 1 \in S
    <2>1. /\ w \in Nat /\ Number(v, w) \in Nat
          /\ Number(v, w + 1) = Number(v, w) + Weight(v, w)
      BY <1>2, NumberSteps
    <2>2. w \in v => Weight(v, w) \in Nat \ {0}
      BY <2>1, PowerOfTwo DEF Weight
    <2>3. w \notin v => Weight(v, w) = 0
      BY DEF Weight
    <2>4. Number(v, w + 1) = 0 => Number(v, w) = 0 /\ w \notin v
      BY <2>1, <2>2, <2>3
    <2>5. \A k \in 0 .. (w + 1) - 1 : k \in 0 .. w - 1 \/ k = w
      BY <2>1
    <2> QED
      BY <1>2, <2>1, <2>4, <2>5
  <1> HIDE DEF S
  <1>3. Nat \subseteq S
    BY <1>1, <1>2, Induction
  <1> QED
    BY <1>3 DEF S

\* Only the members below the position count.
LEMMA NumberAgrees ==
    ASSUME NEW v \in SUBSET Nat, NEW u \in SUBSET Nat, NEW w \in Nat,
           \A k \in 0 .. w - 1 : k \in v <=> k \in u
    PROVE  Number(v, w) = Number(u, w)
  <1> DEFINE S == {n \in Nat : n <= w => Number(v, n) = Number(u, n)}
  <1>1. 0 \in S
    BY NumberSteps
  <1>2. ASSUME NEW n \in S PROVE n + 1 \in S
    <2>1. n \in Nat /\ (n + 1 <= w => n \in 0 .. w - 1)
      BY <1>2
    <2>2. /\ Number(v, n + 1) = Number(v, n) + Weight(v, n)
          /\ Number(u, n + 1) = Number(u, n) + Weight(u, n)
      BY <2>1, NumberSteps
    <2> QED
      BY <1>2, <2>1, <2>2 DEF Weight
  <1> HIDE DEF S
  <1>3. Nat \subseteq S
    BY <1>1, <1>2, Induction
  <1> QED
    BY <1>3 DEF S

LEMMA NumberOfComplement ==
    ASSUME NEW v \in SUBSET Nat, NEW p \in Nat
    PROVE  \A w \in Nat :
             w <= p => Number((0 .. p - 1) \ v, w) = 2^w - 1 - Number(v, w)
  <1> DEFINE c == (0 .. p - 1) \ v
             S == {w \in Nat : w <= p => Number(c, w) = 2^w - 1 - Number(v, w)}
  <1>0. c \in SUBSET Nat /\ \A k \in Nat : k < p => (k \in c <=> k \notin v)
    OBVIOUS
  <1> HIDE DEF c
  <1>1. 0 \in S
    <2>1. Number(c, 0) = 0 /\ Number(v, 0) = 0 /\ 2^0 = 1
      BY <1>0, NumberSteps
    <2> QED
      BY <2>1
  <1>2. ASSUME NEW w \in S PROVE w + 1 \in S
    <2>1. w \in Nat /\ (w + 1 <= p => w < p /\ w <= p)
      BY <1>2
    <2>2. /\ Number(c, w + 1) = Number(c, w) + Weight(c, w)
          /\ Number(v, w + 1) = Number(v, w) + Weight(v, w)
          /\ Number(v, w) \in Nat
      BY <1>0, <2>1, NumberSteps
    <2>3. 2^w \in Nat /\ 2^(w + 1) = 2 * 2^w
      BY <2>1, PowerOfTwo
    <2>4. w < p => Weight(c, w) = 2^w - Weight(v, w) /\ Weight(v, w) \in Nat
      BY <1>0, <2>1, <2>3 DEF Weight
    <2> QED
      BY <1>2, <2>1, <2>2, <2>3, <2>4
  <1> HIDE DEF S
  <1>3. Nat \subseteq S
    BY <1>1, <1>2, Induction
  <1> QED
    BY <1>3 DEF S, c

\* The low bits of a number are its remainder.
LEMMA NumberRemainder ==
    ASSUME NEW v \in SUBSET Nat, NEW w \in Nat, NEW p \in Nat, w <= p
    PROVE  Number(v, p) % 2^w = Number(v, w)
  <1> DEFINE M == 2^w
             S == {d \in Nat : \E q \in Nat : Number(v, w + d) = M * q + Number(v, w)}
  <1>0. M \in Nat \ {0} /\ Number(v, w) \in 0 .. M - 1
    BY PowerOfTwo, NumberRange
  <1>1. 0 \in S
    <2>1. w + 0 = w /\ Number(v, w) = M * 0 + Number(v, w)
      BY <1>0
    <2> QED
      BY <2>1
  <1>2. ASSUME NEW d \in S PROVE d + 1 \in S
    <2>1. PICK q \in Nat : Number(v, w + d) = M * q + Number(v, w)
      BY <1>2
    <2>2. d \in Nat /\ w + d \in Nat /\ w + (d + 1) = (w + d) + 1
      BY <1>2
    <2>3. Number(v, w + (d + 1)) = Number(v, w + d) + Weight(v, w + d)
      BY <2>2, NumberSteps
    <2>4. 2^(w + d) = M * 2^d /\ 2^d \in Nat
      BY <2>2, PowersMultiply, PowerOfTwo
    <2>5. PICK e \in Nat : Weight(v, w + d) = M * e
      <3>1. CASE w + d \in v
        BY <2>4, <3>1 DEF Weight
      <3>2. CASE w + d \notin v
        <4>1. Weight(v, w + d) = M * 0
          BY <1>0, <3>2 DEF Weight
        <4> QED
          BY <4>1
      <3> QED
        BY <3>1, <3>2
    <2> HIDE DEF M
    <2>6. Number(v, w + (d + 1)) = M * (q + e) + Number(v, w) /\ q + e \in Nat
      BY <1>0, <2>1, <2>3, <2>5
    <2> QED
      BY <2>2, <2>6
  <1> HIDE DEF S
  <1>3. Nat \subseteq S
    BY <1>1, <1>2, Induction
  <1>4. p - w \in S /\ w + (p - w) = p
    BY <1>3
  <1>5. PICK q \in Nat : Number(v, p) = M * q + Number(v, w)
    BY <1>4 DEF S
  <1> HIDE DEF M
  <1>6. Number(v, p) \in Nat
    BY NumberSteps, Zenon
  <1>7. Number(v, p) % M = Number(v, w)
    <2>1. Number(v, p) \in Int /\ q \in Int
      BY <1>6
    <2> QED
      BY <1>0, <1>5, <2>1, DivisionUnique, Zenon
  <1> QED
    BY <1>7 DEF M

\* OneBits and Number are inverse to each other in a word of w bits: the sum of the
\* weights of its ones is the integer modulo 2^w.
THEOREM OnesAndNumber ==
    ASSUME NEW a \in Int
    PROVE  \A w \in Nat : Number(OneBits(a, w), w) = a % 2^w
  <1> DEFINE S == {w \in Nat : Number(OneBits(a, w), w) = a % 2^w}
  <1>0. \A w \in Nat : OneBits(a, w) \in SUBSET Nat
    BY DEF OneBits
  <1>1. 0 \in S
    <2>1. Number(OneBits(a, 0), 0) = 0 /\ 2^0 = 1 /\ a % 1 = 0
      BY <1>0, NumberSteps
    <2> QED
      BY <2>1
  <1>2. ASSUME NEW w \in S PROVE w + 1 \in S
    <2> DEFINE P == 2^w
    <2>1. w \in Nat /\ P \in Nat \ {0} /\ 2^(w + 1) = 2 * P
      BY <1>2, PowerOfTwo
    <2>2. \A k \in 0 .. w - 1 : k \in OneBits(a, w + 1) <=> k \in OneBits(a, w)
      BY <2>1 DEF OneBits
    <2>3. Number(OneBits(a, w + 1), w) = a % P
      BY <1>0, <1>2, <2>1, <2>2, NumberAgrees
    <2>4. Weight(OneBits(a, w + 1), w) = P * ((a \div P) % 2)
      <3>1. (a \div P) % 2 \in 0 .. 1
        BY <2>1
      <3>2. w \in OneBits(a, w + 1) <=> (a \div P) % 2 = 1
        BY <2>1 DEF OneBits
      <3> QED
        BY <2>1, <3>1, <3>2 DEF Weight
    <2>5. Number(OneBits(a, w + 1), w + 1) = (a % P) + P * ((a \div P) % 2)
      <3>1. OneBits(a, w + 1) \in SUBSET Nat
        BY <1>0, <2>1
      <3>2. Number(OneBits(a, w + 1), w + 1)
              = Number(OneBits(a, w + 1), w) + Weight(OneBits(a, w + 1), w)
        BY <2>1, <3>1, NumberSteps, Zenon
      <3> QED
        BY <2>3, <2>4, <3>2, Zenon
    <2>6. a % (2 * P) = (a % P) + P * ((a \div P) % 2)
      BY <2>1, NextBit
    <2> QED
      BY <2>1, <2>5, <2>6
  <1> HIDE DEF S
  <1>3. Nat \subseteq S
    BY <1>1, <1>2, Induction
  <1> QED
    BY <1>3 DEF S

-------------------------------------------------------------------------------
(* Words and fields as sets of bits.                                           *)

LEMMA FieldSizes ==
    /\ OP \in Unsigned(7) /\ OP_IMM \in Unsigned(7) /\ LOAD \in Unsigned(7)
    /\ STORE \in Unsigned(7) /\ BRANCH \in Unsigned(7) /\ JAL_OP \in Unsigned(7)
    /\ JALR_OP \in Unsigned(7) /\ LUI_OP \in Unsigned(7)
    /\ F000 \in Unsigned(3) /\ F001 \in Unsigned(3) /\ F010 \in Unsigned(3) /\ F011 \in Unsigned(3)
    /\ F100 \in Unsigned(3) /\ F101 \in Unsigned(3) /\ F110 \in Unsigned(3) /\ F111 \in Unsigned(3)
    /\ {} \in Unsigned(7) /\ Alternative \in Unsigned(7)
  BY DEF Unsigned, OP, OP_IMM, LOAD, STORE, BRANCH, JAL_OP, JALR_OP, LUI_OP, Alternative,
         F000, F001, F010, F011, F100, F101, F110, F111

LEMMA FieldAt ==
    ASSUME NEW n \in Nat, NEW lo \in Nat, NEW v \in Unsigned(n), NEW w,
           \A j \in Int : 0 <= j /\ j < n => (j + lo \in w <=> j \in v)
    PROVE  Slice(w, lo, n) = v
  <1>1. \A k \in v : k \in 0 .. n - 1
    BY DEF Unsigned
  <1>2. \A k \in 0 .. n - 1 : k + lo \in w <=> k \in v
    OBVIOUS
  <1>3. \A k : k \in Slice(w, lo, n) <=> k \in v
    BY <1>1, <1>2 DEF Slice
  <1> QED
    BY <1>3, Zenon

\* A field, or a piece of an immediate, shifted into its place.
LEMMA Placed ==
    ASSUME NEW n \in Nat, NEW lo \in Nat, lo + n <= 32, NEW v \in Unsigned(n)
    PROVE  /\ Shl(v, lo) \in Word32
           /\ \A k \in Pos : k \in Shl(v, lo) <=> lo <= k /\ k <= lo + n - 1 /\ k - lo \in v
  BY DEF Shl, Unsigned, Word32, Pos

LEMMA PlacedSlice ==
    ASSUME NEW n \in Nat, NEW lo \in Nat, lo + n <= 32, NEW from \in Nat, NEW v \in Word32
    PROVE  /\ Shl(Slice(v, from, n), lo) \in Word32
           /\ \A k \in Pos : k \in Shl(Slice(v, from, n), lo)
                 <=> lo <= k /\ k <= lo + n - 1 /\ (k - lo) + from \in v
  <1>1. \A k \in Pos : k \in Shl(Slice(v, from, n), lo) <=> k - lo \in Slice(v, from, n)
    BY DEF Shl
  <1>2. \A k \in Pos : k - lo \in Slice(v, from, n) <=> k - lo \in 0 .. n - 1 /\ (k - lo) + from \in v
    BY DEF Slice
  <1>3. Shl(Slice(v, from, n), lo) \in Word32
    BY DEF Shl, Word32
  <1> QED
    BY <1>1, <1>2, <1>3 DEF Pos

LEMMA Low7 == ASSUME NEW op \in Unsigned(7)
              PROVE  op \in Word32 /\ \A k \in op : 0 <= k /\ k <= 6
  BY DEF Unsigned, Word32, Pos

LEMMA ITypeBits ==
    ASSUME NEW im \in Word32, NEW s1 \in Unsigned(5), NEW f3 \in Unsigned(3),
           NEW d \in Unsigned(5), NEW op \in Unsigned(7)
    PROVE  /\ IType(im, s1, f3, d, op) \in Word32
           /\ \A k \in Pos : k \in IType(im, s1, f3, d, op) <=>
                 IF k < 7 THEN k \in op ELSE IF k < 12 THEN k - 7 \in d
                 ELSE IF k < 15 THEN k - 12 \in f3 ELSE IF k < 20 THEN k - 15 \in s1
                 ELSE k - 20 \in im
  <1>0. op \in Word32 /\ \A k \in op : 0 <= k /\ k <= 6
    BY Low7, FieldSizes
  <1>1. Shl(Slice(im, 0, 12), 20) \in Word32 /\ \A k \in Pos :
          k \in Shl(Slice(im, 0, 12), 20) <=> 20 <= k /\ k <= 20 + 12 - 1 /\ (k - 20) + 0 \in im
    BY PlacedSlice
  <1>2. Shl(s1, 15) \in Word32 /\ \A k \in Pos :
          k \in Shl(s1, 15) <=> 15 <= k /\ k <= 19 /\ k - 15 \in s1
    BY Placed
  <1>3. Shl(f3, 12) \in Word32 /\ \A k \in Pos :
          k \in Shl(f3, 12) <=> 12 <= k /\ k <= 14 /\ k - 12 \in f3
    BY Placed
  <1>4. Shl(d, 7) \in Word32 /\ \A k \in Pos :
          k \in Shl(d, 7) <=> 7 <= k /\ k <= 11 /\ k - 7 \in d
    BY Placed
  <1>5. \A k \in Pos : k \in IType(im, s1, f3, d, op) <=>
          \/ k \in Shl(Slice(im, 0, 12), 20)
          \/ k \in Shl(s1, 15)
          \/ k \in Shl(f3, 12)
          \/ k \in Shl(d, 7)
          \/ k \in op
    BY DEF IType
  <1>6. IType(im, s1, f3, d, op) \in Word32
    BY <1>0, <1>1, <1>2, <1>3, <1>4 DEF IType, Word32
  <1> QED
    BY <1>0, <1>1, <1>2, <1>3, <1>4, <1>5, <1>6 DEF Pos

LEMMA RTypeBits ==
    ASSUME NEW f7 \in Unsigned(7), NEW s2 \in Unsigned(5), NEW s1 \in Unsigned(5),
           NEW f3 \in Unsigned(3), NEW d \in Unsigned(5)
    PROVE  /\ RType(f7, s2, s1, f3, d) \in Word32
           /\ \A k \in Pos : k \in RType(f7, s2, s1, f3, d) <=>
                 IF k < 7 THEN k \in OP ELSE IF k < 12 THEN k - 7 \in d
                 ELSE IF k < 15 THEN k - 12 \in f3 ELSE IF k < 20 THEN k - 15 \in s1
                 ELSE IF k < 25 THEN k - 20 \in s2 ELSE k - 25 \in f7
  <1>0. OP \in Word32 /\ \A k \in OP : 0 <= k /\ k <= 6
    BY Low7, FieldSizes
  <1>1. Shl(f7, 25) \in Word32 /\ \A k \in Pos :
          k \in Shl(f7, 25) <=> 25 <= k /\ k <= 31 /\ k - 25 \in f7
    BY Placed
  <1>2. Shl(s2, 20) \in Word32 /\ \A k \in Pos :
          k \in Shl(s2, 20) <=> 20 <= k /\ k <= 24 /\ k - 20 \in s2
    BY Placed
  <1>3. Shl(s1, 15) \in Word32 /\ \A k \in Pos :
          k \in Shl(s1, 15) <=> 15 <= k /\ k <= 19 /\ k - 15 \in s1
    BY Placed
  <1>4. Shl(f3, 12) \in Word32 /\ \A k \in Pos :
          k \in Shl(f3, 12) <=> 12 <= k /\ k <= 14 /\ k - 12 \in f3
    BY Placed
  <1>5. Shl(d, 7) \in Word32 /\ \A k \in Pos :
          k \in Shl(d, 7) <=> 7 <= k /\ k <= 11 /\ k - 7 \in d
    BY Placed
  <1>6. \A k \in Pos : k \in RType(f7, s2, s1, f3, d) <=>
          \/ k \in Shl(f7, 25)
          \/ k \in Shl(s2, 20)
          \/ k \in Shl(s1, 15)
          \/ k \in Shl(f3, 12)
          \/ k \in Shl(d, 7)
          \/ k \in OP
    BY DEF RType
  <1>7. RType(f7, s2, s1, f3, d) \in Word32
    BY <1>0, <1>1, <1>2, <1>3, <1>4, <1>5 DEF RType, Word32
  <1> QED
    BY <1>0, <1>1, <1>2, <1>3, <1>4, <1>5, <1>6, <1>7 DEF Pos

LEMMA STypeBits ==
    ASSUME NEW im \in Word32, NEW s2 \in Unsigned(5), NEW s1 \in Unsigned(5),
           NEW f3 \in Unsigned(3)
    PROVE  /\ SType(im, s2, s1, f3) \in Word32
           /\ \A k \in Pos : k \in SType(im, s2, s1, f3) <=>
                 IF k < 7 THEN k \in STORE ELSE IF k < 12 THEN k - 7 \in im
                 ELSE IF k < 15 THEN k - 12 \in f3 ELSE IF k < 20 THEN k - 15 \in s1
                 ELSE IF k < 25 THEN k - 20 \in s2 ELSE k - 20 \in im
  <1>0. STORE \in Word32 /\ \A k \in STORE : 0 <= k /\ k <= 6
    BY Low7, FieldSizes
  <1>1. Shl(Slice(im, 5, 7), 25) \in Word32 /\ \A k \in Pos :
          k \in Shl(Slice(im, 5, 7), 25) <=> 25 <= k /\ k <= 25 + 7 - 1 /\ (k - 25) + 5 \in im
    BY PlacedSlice
  <1>2. Shl(s2, 20) \in Word32 /\ \A k \in Pos :
          k \in Shl(s2, 20) <=> 20 <= k /\ k <= 24 /\ k - 20 \in s2
    BY Placed
  <1>3. Shl(s1, 15) \in Word32 /\ \A k \in Pos :
          k \in Shl(s1, 15) <=> 15 <= k /\ k <= 19 /\ k - 15 \in s1
    BY Placed
  <1>4. Shl(f3, 12) \in Word32 /\ \A k \in Pos :
          k \in Shl(f3, 12) <=> 12 <= k /\ k <= 14 /\ k - 12 \in f3
    BY Placed
  <1>5. Shl(Slice(im, 0, 5), 7) \in Word32 /\ \A k \in Pos :
          k \in Shl(Slice(im, 0, 5), 7) <=> 7 <= k /\ k <= 7 + 5 - 1 /\ (k - 7) + 0 \in im
    BY PlacedSlice
  <1>6. \A k \in Pos : k \in SType(im, s2, s1, f3) <=>
          \/ k \in Shl(Slice(im, 5, 7), 25)
          \/ k \in Shl(s2, 20)
          \/ k \in Shl(s1, 15)
          \/ k \in Shl(f3, 12)
          \/ k \in Shl(Slice(im, 0, 5), 7)
          \/ k \in STORE
    BY DEF SType
  <1>7. SType(im, s2, s1, f3) \in Word32
    BY <1>0, <1>1, <1>2, <1>3, <1>4, <1>5 DEF SType, Word32
  <1> QED
    BY <1>0, <1>1, <1>2, <1>3, <1>4, <1>5, <1>6, <1>7 DEF Pos

LEMMA BTypeBits ==
    ASSUME NEW im \in Word32, NEW s2 \in Unsigned(5), NEW s1 \in Unsigned(5),
           NEW f3 \in Unsigned(3)
    PROVE  /\ BType(im, s2, s1, f3) \in Word32
           /\ \A k \in Pos : k \in BType(im, s2, s1, f3) <=>
                 IF k < 7 THEN k \in BRANCH ELSE IF k = 7 THEN 11 \in im
                 ELSE IF k < 12 THEN k - 7 \in im
                 ELSE IF k < 15 THEN k - 12 \in f3 ELSE IF k < 20 THEN k - 15 \in s1
                 ELSE IF k < 25 THEN k - 20 \in s2
                 ELSE IF k < 31 THEN k - 20 \in im ELSE 12 \in im
  <1>0. BRANCH \in Word32 /\ \A k \in BRANCH : 0 <= k /\ k <= 6
    BY Low7, FieldSizes
  <1>1. Shl(Slice(im, 12, 1), 31) \in Word32 /\ \A k \in Pos :
          k \in Shl(Slice(im, 12, 1), 31) <=> 31 <= k /\ k <= 31 + 1 - 1 /\ (k - 31) + 12 \in im
    <2>1. \A from \in Nat : Shl(Slice(im, from, 1), 31) \in Word32 /\ \A k \in Pos :
             k \in Shl(Slice(im, from, 1), 31) <=> 31 <= k /\ k <= 31 + 1 - 1 /\ (k - 31) + from \in im
      BY PlacedSlice
    <2> QED
      BY <2>1
  <1>2. Shl(Slice(im, 5, 6), 25) \in Word32 /\ \A k \in Pos :
          k \in Shl(Slice(im, 5, 6), 25) <=> 25 <= k /\ k <= 25 + 6 - 1 /\ (k - 25) + 5 \in im
    BY PlacedSlice
  <1>3. Shl(s2, 20) \in Word32 /\ \A k \in Pos :
          k \in Shl(s2, 20) <=> 20 <= k /\ k <= 24 /\ k - 20 \in s2
    BY Placed
  <1>4. Shl(s1, 15) \in Word32 /\ \A k \in Pos :
          k \in Shl(s1, 15) <=> 15 <= k /\ k <= 19 /\ k - 15 \in s1
    BY Placed
  <1>5. Shl(f3, 12) \in Word32 /\ \A k \in Pos :
          k \in Shl(f3, 12) <=> 12 <= k /\ k <= 14 /\ k - 12 \in f3
    BY Placed
  <1>6. Shl(Slice(im, 1, 4), 8) \in Word32 /\ \A k \in Pos :
          k \in Shl(Slice(im, 1, 4), 8) <=> 8 <= k /\ k <= 8 + 4 - 1 /\ (k - 8) + 1 \in im
    BY PlacedSlice
  <1>7. Shl(Slice(im, 11, 1), 7) \in Word32 /\ \A k \in Pos :
          k \in Shl(Slice(im, 11, 1), 7) <=> 7 <= k /\ k <= 7 + 1 - 1 /\ (k - 7) + 11 \in im
    BY PlacedSlice
  <1>8. \A k \in Pos : k \in BType(im, s2, s1, f3) <=>
          \/ k \in Shl(Slice(im, 12, 1), 31)
          \/ k \in Shl(Slice(im, 5, 6), 25)
          \/ k \in Shl(s2, 20)
          \/ k \in Shl(s1, 15)
          \/ k \in Shl(f3, 12)
          \/ k \in Shl(Slice(im, 1, 4), 8)
          \/ k \in Shl(Slice(im, 11, 1), 7)
          \/ k \in BRANCH
    BY DEF BType
  <1>9. BType(im, s2, s1, f3) \in Word32
    BY <1>0, <1>1, <1>2, <1>3, <1>4, <1>5, <1>6, <1>7 DEF BType, Word32
  <1> QED
    BY <1>0, <1>1, <1>2, <1>3, <1>4, <1>5, <1>6, <1>7, <1>8, <1>9 DEF Pos

LEMMA JTypeBits ==
    ASSUME NEW im \in Word32, NEW d \in Unsigned(5)
    PROVE  /\ JType(im, d) \in Word32
           /\ \A k \in Pos : k \in JType(im, d) <=>
                 IF k < 7 THEN k \in JAL_OP ELSE IF k < 12 THEN k - 7 \in d
                 ELSE IF k < 20 THEN k \in im ELSE IF k = 20 THEN 11 \in im
                 ELSE IF k < 31 THEN k - 20 \in im ELSE 20 \in im
  <1>0. JAL_OP \in Word32 /\ \A k \in JAL_OP : 0 <= k /\ k <= 6
    BY Low7, FieldSizes
  <1>1. Shl(Slice(im, 20, 1), 31) \in Word32 /\ \A k \in Pos :
          k \in Shl(Slice(im, 20, 1), 31) <=> 31 <= k /\ k <= 31 + 1 - 1 /\ (k - 31) + 20 \in im
    BY PlacedSlice
  <1>2. Shl(Slice(im, 1, 10), 21) \in Word32 /\ \A k \in Pos :
          k \in Shl(Slice(im, 1, 10), 21) <=> 21 <= k /\ k <= 21 + 10 - 1 /\ (k - 21) + 1 \in im
    BY PlacedSlice
  <1>3. Shl(Slice(im, 11, 1), 20) \in Word32 /\ \A k \in Pos :
          k \in Shl(Slice(im, 11, 1), 20) <=> 20 <= k /\ k <= 20 + 1 - 1 /\ (k - 20) + 11 \in im
    BY PlacedSlice
  <1>4. Shl(Slice(im, 12, 8), 12) \in Word32 /\ \A k \in Pos :
          k \in Shl(Slice(im, 12, 8), 12) <=> 12 <= k /\ k <= 12 + 8 - 1 /\ (k - 12) + 12 \in im
    BY PlacedSlice
  <1>5. Shl(d, 7) \in Word32 /\ \A k \in Pos :
          k \in Shl(d, 7) <=> 7 <= k /\ k <= 11 /\ k - 7 \in d
    BY Placed
  <1>6. \A k \in Pos : k \in JType(im, d) <=>
          \/ k \in Shl(Slice(im, 20, 1), 31)
          \/ k \in Shl(Slice(im, 1, 10), 21)
          \/ k \in Shl(Slice(im, 11, 1), 20)
          \/ k \in Shl(Slice(im, 12, 8), 12)
          \/ k \in Shl(d, 7)
          \/ k \in JAL_OP
    BY DEF JType
  <1>7. JType(im, d) \in Word32
    BY <1>0, <1>1, <1>2, <1>3, <1>4, <1>5 DEF JType, Word32
  <1> QED
    BY <1>0, <1>1, <1>2, <1>3, <1>4, <1>5, <1>6, <1>7 DEF Pos

LEMMA UTypeBits ==
    ASSUME NEW im \in Word32, NEW d \in Unsigned(5)
    PROVE  /\ UType(im, d) \in Word32
           /\ \A k \in Pos : k \in UType(im, d) <=>
                 IF k < 7 THEN k \in LUI_OP ELSE IF k < 12 THEN k - 7 \in d ELSE k - 12 \in im
  <1>0. LUI_OP \in Word32 /\ \A k \in LUI_OP : 0 <= k /\ k <= 6
    BY Low7, FieldSizes
  <1>1. Shl(Slice(im, 0, 20), 12) \in Word32 /\ \A k \in Pos :
          k \in Shl(Slice(im, 0, 20), 12) <=> 12 <= k /\ k <= 12 + 20 - 1 /\ (k - 12) + 0 \in im
    BY PlacedSlice
  <1>2. Shl(d, 7) \in Word32 /\ \A k \in Pos :
          k \in Shl(d, 7) <=> 7 <= k /\ k <= 11 /\ k - 7 \in d
    BY Placed
  <1>3. \A k \in Pos : k \in UType(im, d) <=>
          \/ k \in Shl(Slice(im, 0, 20), 12)
          \/ k \in Shl(d, 7)
          \/ k \in LUI_OP
    BY DEF UType
  <1>4. UType(im, d) \in Word32
    BY <1>0, <1>1, <1>2 DEF UType, Word32
  <1> QED
    BY <1>0, <1>1, <1>2, <1>3, <1>4 DEF Pos
-------------------------------------------------------------------------------
(* Decoding. The fields of an encoded word, and its immediate, in hardware and *)
(* in decoder.py.                                                              *)

\* Sign extension restores a number of n bits from its n low bits.
LEMMA SignExtended ==
    ASSUME NEW n \in 1 .. 31, NEW im \in SignedBits(n), NEW v \in Word32,
           \A k \in Pos : k \in v <=> k < n /\ k \in im
    PROVE  SignExtend(v, n) = im
  <1>1. im \in Word32 /\ \A k \in n .. 31 : k \in im <=> n - 1 \in im
    BY DEF SignedBits
  <1>2. n - 1 \in Pos /\ (n - 1 \in v <=> n - 1 \in im)
    BY DEF Pos
  <1>3. \A k \in Pos : k \in SignExtend(v, n) <=> k \in v \/ (k >= n /\ n - 1 \in im)
    BY <1>2 DEF SignExtend, Pos
  <1>4. \A k \in Pos : k \in SignExtend(v, n) <=> k \in im
    BY <1>1, <1>3 DEF Pos
  <1>5. SignExtend(v, n) \in Word32
    BY DEF SignExtend, Word32, Pos
  <1> QED
    BY <1>1, <1>4, <1>5 DEF Word32

\* The decoders' copies of the bit operations are these.
LEMMA SameSlices ==
    ASSUME NEW w, NEW lo, NEW n
    PROVE  HW!Slice(w, lo, n) = Slice(w, lo, n) /\ PY!Slice(w, lo, n) = Slice(w, lo, n)
  BY DEF HW!Slice, PY!Slice, Slice

LEMMA ITypeDecoded ==
    ASSUME NEW im \in SignedBits(12), NEW s1 \in Unsigned(5), NEW f3 \in Unsigned(3),
           NEW d \in Unsigned(5), NEW op \in Unsigned(7), NEW w, w = IType(im, s1, f3, d, op)
    PROVE  /\ w \in Word32 /\ Slice(w, 0, 7) = op /\ Slice(w, 7, 5) = d /\ Slice(w, 12, 3) = f3
           /\ Slice(w, 15, 5) = s1
           /\ HW!i_imm(w) = im /\ PY!immI(w) = im
  <1>1. im \in Word32 /\ \A k \in 12 .. 31 : k \in im <=> 11 \in im
    BY DEF SignedBits
  <1>2. /\ w \in Word32
        /\ \A k \in Pos : k \in w <=>
                 IF k < 7 THEN k \in op ELSE IF k < 12 THEN k - 7 \in d
                 ELSE IF k < 15 THEN k - 12 \in f3 ELSE IF k < 20 THEN k - 15 \in s1
                 ELSE k - 20 \in im
    BY <1>1, ITypeBits
  <1>3. Slice(w, 0, 7) = op
    <2>1. \A j \in Int : 0 <= j /\ j < 7 => (j + 0 \in w <=> j \in op)
      BY <1>2 DEF Pos
    <2> QED
      BY <1>2, <2>1, FieldAt
  <1>4. Slice(w, 7, 5) = d
    <2>1. \A j \in Int : 0 <= j /\ j < 5 => (j + 7 \in w <=> j \in d)
      BY <1>2 DEF Pos
    <2> QED
      BY <1>2, <2>1, FieldAt
  <1>5. Slice(w, 12, 3) = f3
    <2>1. \A j \in Int : 0 <= j /\ j < 3 => (j + 12 \in w <=> j \in f3)
      BY <1>2 DEF Pos
    <2> QED
      BY <1>2, <2>1, FieldAt
  <1>6. Slice(w, 15, 5) = s1
    <2>1. \A j \in Int : 0 <= j /\ j < 5 => (j + 15 \in w <=> j \in s1)
      BY <1>2 DEF Pos
    <2> QED
      BY <1>2, <2>1, FieldAt
  <1>7. HW!i_imm(w) = im
    <2>1. \A k \in Pos : k \in HW!i_imm(w) <=> k \in im
      BY <1>1, <1>2 DEF HW!i_imm, HW!Pos, Pos
    <2> QED
      BY <1>1, <2>1 DEF HW!i_imm, HW!Pos, Pos, Word32
  <1>8. PY!immI(w) = im
    <2>1. /\ Slice(w, 20, 12) \in Word32
          /\ \A k \in Pos : k \in Slice(w, 20, 12) <=> k < 12 /\ k \in im
      BY <1>2 DEF Slice, Word32, Pos
    <2> QED
      BY <2>1, SignExtended, SameSlices DEF PY!immI, PY!SignExtend, SignExtend
  <1> QED
    BY <1>2, <1>3, <1>4, <1>5, <1>6, <1>7, <1>8

LEMMA RTypeDecoded ==
    ASSUME NEW f7 \in Unsigned(7), NEW s2 \in Unsigned(5), NEW s1 \in Unsigned(5),
           NEW f3 \in Unsigned(3), NEW d \in Unsigned(5), NEW w, w = RType(f7, s2, s1, f3, d)
    PROVE  /\ w \in Word32 /\ Slice(w, 0, 7) = OP /\ Slice(w, 7, 5) = d /\ Slice(w, 12, 3) = f3
           /\ Slice(w, 15, 5) = s1 /\ Slice(w, 20, 5) = s2 /\ Slice(w, 25, 7) = f7
  <1>1. /\ w \in Word32
        /\ \A k \in Pos : k \in w <=>
                 IF k < 7 THEN k \in OP ELSE IF k < 12 THEN k - 7 \in d
                 ELSE IF k < 15 THEN k - 12 \in f3 ELSE IF k < 20 THEN k - 15 \in s1
                 ELSE IF k < 25 THEN k - 20 \in s2 ELSE k - 25 \in f7
    BY RTypeBits
  <1>2. Slice(w, 0, 7) = OP
    <2>1. \A j \in Int : 0 <= j /\ j < 7 => (j + 0 \in w <=> j \in OP)
      BY <1>1 DEF Pos
    <2> QED
      BY <2>1, FieldAt, FieldSizes
  <1>3. Slice(w, 7, 5) = d
    <2>1. \A j \in Int : 0 <= j /\ j < 5 => (j + 7 \in w <=> j \in d)
      BY <1>1 DEF Pos
    <2> QED
      BY <2>1, FieldAt, FieldSizes
  <1>4. Slice(w, 12, 3) = f3
    <2>1. \A j \in Int : 0 <= j /\ j < 3 => (j + 12 \in w <=> j \in f3)
      BY <1>1 DEF Pos
    <2> QED
      BY <2>1, FieldAt, FieldSizes
  <1>5. Slice(w, 15, 5) = s1
    <2>1. \A j \in Int : 0 <= j /\ j < 5 => (j + 15 \in w <=> j \in s1)
      BY <1>1 DEF Pos
    <2> QED
      BY <2>1, FieldAt, FieldSizes
  <1>6. Slice(w, 20, 5) = s2
    <2>1. \A j \in Int : 0 <= j /\ j < 5 => (j + 20 \in w <=> j \in s2)
      BY <1>1 DEF Pos
    <2> QED
      BY <2>1, FieldAt, FieldSizes
  <1>7. Slice(w, 25, 7) = f7
    <2>1. \A j \in Int : 0 <= j /\ j < 7 => (j + 25 \in w <=> j \in f7)
      BY <1>1 DEF Pos
    <2> QED
      BY <2>1, FieldAt, FieldSizes
  <1> QED
    BY <1>1, <1>2, <1>3, <1>4, <1>5, <1>6, <1>7

LEMMA STypeDecoded ==
    ASSUME NEW im \in SignedBits(12), NEW s2 \in Unsigned(5), NEW s1 \in Unsigned(5),
           NEW f3 \in Unsigned(3), NEW w, w = SType(im, s2, s1, f3)
    PROVE  /\ w \in Word32 /\ Slice(w, 0, 7) = STORE /\ Slice(w, 12, 3) = f3
           /\ Slice(w, 15, 5) = s1 /\ Slice(w, 20, 5) = s2
           /\ HW!s_imm(w) = im /\ PY!immS(w) = im
  <1>1. im \in Word32 /\ \A k \in 12 .. 31 : k \in im <=> 11 \in im
    BY DEF SignedBits
  <1>2. /\ w \in Word32
        /\ \A k \in Pos : k \in w <=>
                 IF k < 7 THEN k \in STORE ELSE IF k < 12 THEN k - 7 \in im
                 ELSE IF k < 15 THEN k - 12 \in f3 ELSE IF k < 20 THEN k - 15 \in s1
                 ELSE IF k < 25 THEN k - 20 \in s2 ELSE k - 20 \in im
    BY <1>1, STypeBits
  <1>3. Slice(w, 0, 7) = STORE
    <2>1. \A j \in Int : 0 <= j /\ j < 7 => (j + 0 \in w <=> j \in STORE)
      BY <1>2 DEF Pos
    <2> QED
      BY <2>1, FieldAt, FieldSizes
  <1>4. Slice(w, 12, 3) = f3
    <2>1. \A j \in Int : 0 <= j /\ j < 3 => (j + 12 \in w <=> j \in f3)
      BY <1>2 DEF Pos
    <2> QED
      BY <2>1, FieldAt, FieldSizes
  <1>5. Slice(w, 15, 5) = s1
    <2>1. \A j \in Int : 0 <= j /\ j < 5 => (j + 15 \in w <=> j \in s1)
      BY <1>2 DEF Pos
    <2> QED
      BY <2>1, FieldAt, FieldSizes
  <1>6. Slice(w, 20, 5) = s2
    <2>1. \A j \in Int : 0 <= j /\ j < 5 => (j + 20 \in w <=> j \in s2)
      BY <1>2 DEF Pos
    <2> QED
      BY <2>1, FieldAt, FieldSizes
  <1>7. HW!s_imm(w) = im
    <2>1. \A k \in Pos : k \in HW!s_imm(w) <=> k \in im
      BY <1>1, <1>2 DEF HW!s_imm, HW!Pos, Pos
    <2> QED
      BY <1>1, <2>1 DEF HW!s_imm, HW!Pos, Pos, Word32
  <1>8. PY!immS(w) = im
    <2> DEFINE v == Shl(Slice(w, 25, 7), 5)
                      \cup Slice(w, 7, 5)
    <2>1. Shl(Slice(w, 25, 7), 5) \in Word32 /\ \A k \in Pos : k \in Shl(Slice(w, 25, 7), 5)
              <=> 5 <= k /\ k <= 11 /\ (k - 5) + 25 \in w
      BY <1>2, PlacedSlice
    <2>2. Slice(w, 7, 5) \in Word32 /\ \A k \in Pos : k \in Slice(w, 7, 5)
              <=> 0 <= k /\ k <= 4 /\ k + 7 \in w
      BY <1>2 DEF Slice, Word32, Pos
    <2>3. v \in Word32 /\ \A k \in Pos : k \in v <=> k < 12 /\ k \in im
      BY <1>1, <1>2, <2>1, <2>2 DEF Word32, Pos
    <2>4. PY!immS(w) = SignExtend(v, 12)
      BY DEF PY!immS, PY!SignExtend, PY!Shl, PY!Slice, PY!Pos, SignExtend, Shl, Slice, Pos
    <2> QED
      BY <2>3, <2>4, SignExtended
  <1> QED
    BY <1>2, <1>3, <1>4, <1>5, <1>6, <1>7, <1>8

LEMMA BTypeDecoded ==
    ASSUME NEW im \in Offsets(13), NEW s2 \in Unsigned(5), NEW s1 \in Unsigned(5),
           NEW f3 \in Unsigned(3), NEW w, w = BType(im, s2, s1, f3)
    PROVE  /\ w \in Word32 /\ Slice(w, 0, 7) = BRANCH /\ Slice(w, 12, 3) = f3
           /\ Slice(w, 15, 5) = s1 /\ Slice(w, 20, 5) = s2
           /\ HW!b_imm(w) = im /\ PY!immB(w) = im
  <1>1. /\ im \in Word32 /\ im \in SignedBits(13) /\ 0 \notin im
        /\ \A k \in 13 .. 31 : k \in im <=> 12 \in im
    BY DEF Offsets, SignedBits
  <1>2. /\ w \in Word32
        /\ \A k \in Pos : k \in w <=>
                 IF k < 7 THEN k \in BRANCH ELSE IF k = 7 THEN 11 \in im
                 ELSE IF k < 12 THEN k - 7 \in im
                 ELSE IF k < 15 THEN k - 12 \in f3 ELSE IF k < 20 THEN k - 15 \in s1
                 ELSE IF k < 25 THEN k - 20 \in s2
                 ELSE IF k < 31 THEN k - 20 \in im ELSE 12 \in im
    BY <1>1, BTypeBits
  <1>3. Slice(w, 0, 7) = BRANCH
    <2>1. \A j \in Int : 0 <= j /\ j < 7 => (j + 0 \in w <=> j \in BRANCH)
      BY <1>2 DEF Pos
    <2> QED
      BY <2>1, FieldAt, FieldSizes
  <1>4. Slice(w, 12, 3) = f3
    <2>1. \A j \in Int : 0 <= j /\ j < 3 => (j + 12 \in w <=> j \in f3)
      BY <1>2 DEF Pos
    <2> QED
      BY <2>1, FieldAt, FieldSizes
  <1>5. Slice(w, 15, 5) = s1
    <2>1. \A j \in Int : 0 <= j /\ j < 5 => (j + 15 \in w <=> j \in s1)
      BY <1>2 DEF Pos
    <2> QED
      BY <2>1, FieldAt, FieldSizes
  <1>6. Slice(w, 20, 5) = s2
    <2>1. \A j \in Int : 0 <= j /\ j < 5 => (j + 20 \in w <=> j \in s2)
      BY <1>2 DEF Pos
    <2> QED
      BY <2>1, FieldAt, FieldSizes
  <1>7. HW!b_imm(w) = im
    <2>1. \A k \in Pos : k \in HW!b_imm(w) <=> k \in im
      BY <1>1, <1>2 DEF HW!b_imm, HW!Pos, Pos
    <2>2. HW!b_imm(w) \in Word32
      BY DEF HW!b_imm, Word32, Pos
    <2> QED
      BY <1>1, <2>1, <2>2 DEF Word32
  <1>8. PY!immB(w) = im
    <2> DEFINE v == Shl(Slice(w, 31, 1), 12)
                      \cup Shl(Slice(w, 7, 1), 11)
                      \cup Shl(Slice(w, 25, 6), 5)
                      \cup Shl(Slice(w, 8, 4), 1)
    <2>1. Shl(Slice(w, 31, 1), 12) \in Word32 /\ \A k \in Pos : k \in Shl(Slice(w, 31, 1), 12)
              <=> 12 <= k /\ k <= 12 /\ (k - 12) + 31 \in w
      BY <1>2, PlacedSlice
    <2>2. Shl(Slice(w, 7, 1), 11) \in Word32 /\ \A k \in Pos : k \in Shl(Slice(w, 7, 1), 11)
              <=> 11 <= k /\ k <= 11 /\ (k - 11) + 7 \in w
      BY <1>2, PlacedSlice
    <2>3. Shl(Slice(w, 25, 6), 5) \in Word32 /\ \A k \in Pos : k \in Shl(Slice(w, 25, 6), 5)
              <=> 5 <= k /\ k <= 10 /\ (k - 5) + 25 \in w
      BY <1>2, PlacedSlice
    <2>4. Shl(Slice(w, 8, 4), 1) \in Word32 /\ \A k \in Pos : k \in Shl(Slice(w, 8, 4), 1)
              <=> 1 <= k /\ k <= 4 /\ (k - 1) + 8 \in w
      BY <1>2, PlacedSlice
    <2>5. v \in Word32 /\ \A k \in Pos : k \in v <=> k < 13 /\ k \in im
      BY <1>1, <1>2, <2>1, <2>2, <2>3, <2>4 DEF Word32, Pos
    <2>6. PY!immB(w) = SignExtend(v, 13)
      BY DEF PY!immB, PY!SignExtend, PY!Shl, PY!Slice, PY!Pos, SignExtend, Shl, Slice, Pos
    <2> QED
      BY <2>5, <2>6, SignExtended, <1>1
  <1> QED
    BY <1>2, <1>3, <1>4, <1>5, <1>6, <1>7, <1>8

LEMMA JTypeDecoded ==
    ASSUME NEW im \in Offsets(21), NEW d \in Unsigned(5), NEW w, w = JType(im, d)
    PROVE  /\ w \in Word32 /\ Slice(w, 0, 7) = JAL_OP /\ Slice(w, 7, 5) = d
           /\ HW!j_imm(w) = im /\ PY!immJ(w) = im
  <1>1. /\ im \in Word32 /\ im \in SignedBits(21) /\ 0 \notin im
        /\ \A k \in 21 .. 31 : k \in im <=> 20 \in im
    BY DEF Offsets, SignedBits
  <1>2. /\ w \in Word32
        /\ \A k \in Pos : k \in w <=>
                 IF k < 7 THEN k \in JAL_OP ELSE IF k < 12 THEN k - 7 \in d
                 ELSE IF k < 20 THEN k \in im ELSE IF k = 20 THEN 11 \in im
                 ELSE IF k < 31 THEN k - 20 \in im ELSE 20 \in im
    BY <1>1, JTypeBits
  <1>3. Slice(w, 0, 7) = JAL_OP
    <2>1. \A j \in Int : 0 <= j /\ j < 7 => (j + 0 \in w <=> j \in JAL_OP)
      BY <1>2 DEF Pos
    <2> QED
      BY <2>1, FieldAt, FieldSizes
  <1>4. Slice(w, 7, 5) = d
    <2>1. \A j \in Int : 0 <= j /\ j < 5 => (j + 7 \in w <=> j \in d)
      BY <1>2 DEF Pos
    <2> QED
      BY <2>1, FieldAt, FieldSizes
  <1>5. HW!j_imm(w) = im
    <2>1. \A k \in Pos : k \in HW!j_imm(w) <=> k \in im
      BY <1>1, <1>2 DEF HW!j_imm, HW!Pos, Pos
    <2>2. HW!j_imm(w) \in Word32
      BY DEF HW!j_imm, Word32, Pos
    <2> QED
      BY <1>1, <2>1, <2>2 DEF Word32
  <1>6. PY!immJ(w) = im
    <2> DEFINE v == Shl(Slice(w, 31, 1), 20)
                      \cup Shl(Slice(w, 12, 8), 12)
                      \cup Shl(Slice(w, 20, 1), 11)
                      \cup Shl(Slice(w, 21, 10), 1)
    <2>1. Shl(Slice(w, 31, 1), 20) \in Word32 /\ \A k \in Pos : k \in Shl(Slice(w, 31, 1), 20)
              <=> 20 <= k /\ k <= 20 /\ (k - 20) + 31 \in w
      BY <1>2, PlacedSlice
    <2>2. Shl(Slice(w, 12, 8), 12) \in Word32 /\ \A k \in Pos : k \in Shl(Slice(w, 12, 8), 12)
              <=> 12 <= k /\ k <= 19 /\ (k - 12) + 12 \in w
      BY <1>2, PlacedSlice
    <2>3. Shl(Slice(w, 20, 1), 11) \in Word32 /\ \A k \in Pos : k \in Shl(Slice(w, 20, 1), 11)
              <=> 11 <= k /\ k <= 11 /\ (k - 11) + 20 \in w
      BY <1>2, PlacedSlice
    <2>4. Shl(Slice(w, 21, 10), 1) \in Word32 /\ \A k \in Pos : k \in Shl(Slice(w, 21, 10), 1)
              <=> 1 <= k /\ k <= 10 /\ (k - 1) + 21 \in w
      BY <1>2, PlacedSlice
    <2>5. v \in Word32 /\ \A k \in Pos : k \in v <=> k < 21 /\ k \in im
      BY <1>1, <1>2, <2>1, <2>2, <2>3, <2>4 DEF Word32, Pos
    <2>6. PY!immJ(w) = SignExtend(v, 21)
      BY DEF PY!immJ, PY!SignExtend, PY!Shl, PY!Slice, PY!Pos, SignExtend, Shl, Slice, Pos
    <2> QED
      BY <2>5, <2>6, SignExtended, <1>1
  <1> QED
    BY <1>2, <1>3, <1>4, <1>5, <1>6

LEMMA UTypeDecoded ==
    ASSUME NEW im \in Unsigned(20), NEW d \in Unsigned(5), NEW w, w = UType(im, d)
    PROVE  /\ w \in Word32 /\ Slice(w, 0, 7) = LUI_OP /\ Slice(w, 7, 5) = d
           /\ HW!u_imm(w) = Shl(im, 12)
  <1>1. im \in Word32
    BY DEF Unsigned, Word32, Pos
  <1>2. /\ w \in Word32
        /\ \A k \in Pos : k \in w <=>
                 IF k < 7 THEN k \in LUI_OP ELSE IF k < 12 THEN k - 7 \in d ELSE k - 12 \in im
    BY <1>1, UTypeBits
  <1>3. Slice(w, 0, 7) = LUI_OP
    <2>1. \A j \in Int : 0 <= j /\ j < 7 => (j + 0 \in w <=> j \in LUI_OP)
      BY <1>2 DEF Pos
    <2> QED
      BY <2>1, FieldAt, FieldSizes
  <1>4. Slice(w, 7, 5) = d
    <2>1. \A j \in Int : 0 <= j /\ j < 5 => (j + 7 \in w <=> j \in d)
      BY <1>2 DEF Pos
    <2> QED
      BY <2>1, FieldAt, FieldSizes
  <1>5. HW!u_imm(w) = Shl(im, 12)
    <2>1. \A k \in Pos : k \in HW!u_imm(w) <=> k \in Shl(im, 12)
      BY <1>1, <1>2 DEF HW!u_imm, Shl, Pos, Unsigned
    <2>2. HW!u_imm(w) \in Word32 /\ Shl(im, 12) \in Word32
      BY <1>2 DEF HW!u_imm, Shl, Word32
    <2> QED
      BY <2>1, <2>2 DEF Word32
  <1> QED
    BY <1>2, <1>3, <1>4, <1>5

-------------------------------------------------------------------------------
(* Round trips.                                                                *)

\* What HardwareRoundTrip and HostRoundTrip say of a call and its word.
InHardware(c, w) ==
    LET i == FieldsOf(w)
        x == [c EXCEPT !.imm = IF c.f = "lui" THEN Shl(@, 12) ELSE @]
    IN  /\ <<i.opcode, i.funct>> = Operation[c.f]
        /\ \A o \in Operands(i.opcode) : i[o] = x[o]
InDecoder(c, w) ==
    c.f # "lui" => LET d == PY!decode(w)
                       op == Operation[c.f][1]
                   IN  d.type = HostType[op] /\ \A o \in Operands(op) : d[o] = c[o]

\* The opcodes, and the functions, are all different.
LEMMA OpcodesDiffer ==
    /\ 4 \in OP /\ 5 \in OP /\ 6 \notin OP /\ 2 \notin OP
    /\ 4 \in OP_IMM /\ 5 \notin OP_IMM /\ 6 \notin OP_IMM /\ 2 \notin OP_IMM
    /\ 4 \notin LOAD /\ 5 \notin LOAD /\ 6 \notin LOAD /\ 2 \notin LOAD
    /\ 4 \notin STORE /\ 5 \in STORE /\ 6 \notin STORE /\ 2 \notin STORE
    /\ 4 \notin BRANCH /\ 5 \in BRANCH /\ 6 \in BRANCH /\ 2 \notin BRANCH
    /\ 4 \notin JAL_OP /\ 5 \in JAL_OP /\ 6 \in JAL_OP /\ 2 \in JAL_OP /\ 3 \in JAL_OP
    /\ 4 \notin JALR_OP /\ 5 \in JALR_OP /\ 6 \in JALR_OP /\ 2 \in JALR_OP /\ 3 \notin JALR_OP
    /\ 4 \in LUI_OP /\ 5 \in LUI_OP /\ 6 \notin LUI_OP /\ 2 \in LUI_OP
  BY DEF OP, OP_IMM, LOAD, STORE, BRANCH, JAL_OP, JALR_OP, LUI_OP

LEMMA FunctsDiffer ==
    /\ 0 \notin F000 /\ 1 \notin F000 /\ 2 \notin F000
    /\ 0 \in F001 /\ 1 \notin F001 /\ 2 \notin F001
    /\ 0 \notin F010 /\ 1 \in F010 /\ 2 \notin F010
    /\ 0 \in F011 /\ 1 \in F011 /\ 2 \notin F011
    /\ 0 \notin F100 /\ 1 \notin F100 /\ 2 \in F100
    /\ 0 \in F101 /\ 1 \notin F101 /\ 2 \in F101
    /\ 0 \notin F110 /\ 1 \in F110 /\ 2 \in F110
    /\ 0 \in F111 /\ 1 \in F111 /\ 2 \in F111
    /\ 5 \in Alternative /\ {} # Alternative
  BY DEF F000, F001, F010, F011, F100, F101, F110, F111, Alternative

LEMMA SameNames ==
    /\ HW!OP = OP /\ HW!OP_IMM = OP_IMM /\ HW!LOAD = LOAD /\ HW!STORE = STORE
    /\ HW!BRANCH = BRANCH /\ HW!JAL_OP = JAL_OP /\ HW!JALR_OP = JALR_OP /\ HW!LUI_OP = LUI_OP
    /\ PY!OP = OP /\ PY!OP_IMM = OP_IMM /\ PY!LOAD = LOAD /\ PY!STORE = STORE
    /\ PY!BRANCH = BRANCH /\ PY!JAL_OP = JAL_OP /\ PY!JALR_OP = JALR_OP
  BY DEF HW!OP, HW!OP_IMM, HW!LOAD, HW!STORE, HW!BRANCH, HW!JAL_OP, HW!JALR_OP, HW!LUI_OP,
         PY!OP, PY!OP_IMM, PY!LOAD, PY!STORE, PY!BRANCH, PY!JAL_OP, PY!JALR_OP,
         OP, OP_IMM, LOAD, STORE, BRANCH, JAL_OP, JALR_OP, LUI_OP

LEMMA HardwareFields ==
    ASSUME NEW w
    PROVE  /\ HW!opcode(w) = Slice(w, 0, 7) /\ HW!rd(w) = Slice(w, 7, 5)
           /\ HW!funct3(w) = Slice(w, 12, 3) /\ HW!rs1(w) = Slice(w, 15, 5)
           /\ HW!rs2(w) = Slice(w, 20, 5) /\ HW!funct7(w) = Slice(w, 25, 7)
           /\ PY!opcode(w) = Slice(w, 0, 7) /\ PY!rdField(w) = Slice(w, 7, 5)
           /\ PY!funct3(w) = Slice(w, 12, 3) /\ PY!rs1Field(w) = Slice(w, 15, 5)
           /\ PY!rs2Field(w) = Slice(w, 20, 5) /\ PY!funct7(w) = Slice(w, 25, 7)
  BY SameSlices DEF HW!opcode, HW!rd, HW!funct3, HW!rs1, HW!rs2, HW!funct7,
     PY!opcode, PY!rdField, PY!funct3, PY!rs1Field, PY!rs2Field, PY!funct7

LEMMA OpcodeNames ==
    ASSUME NEW w
    PROVE  /\ Slice(w, 0, 7) = OP => OpcodeOf(w) = "OP"
           /\ Slice(w, 0, 7) = OP_IMM => OpcodeOf(w) = "OP_IMM"
           /\ Slice(w, 0, 7) = LOAD => OpcodeOf(w) = "LOAD"
           /\ Slice(w, 0, 7) = STORE => OpcodeOf(w) = "STORE"
           /\ Slice(w, 0, 7) = BRANCH => OpcodeOf(w) = "BRANCH"
           /\ Slice(w, 0, 7) = JAL_OP => OpcodeOf(w) = "JAL"
           /\ Slice(w, 0, 7) = JALR_OP => OpcodeOf(w) = "JALR"
           /\ Slice(w, 0, 7) = LUI_OP => OpcodeOf(w) = "LUI"
  BY OpcodesDiffer, HardwareFields DEF OpcodeOf

LEMMA Immediate ==
    ASSUME NEW w
    PROVE  /\ Slice(w, 0, 7) \in {OP_IMM, LOAD, JALR_OP} => HW!imm(w) = HW!i_imm(w)
           /\ Slice(w, 0, 7) = STORE => HW!imm(w) = HW!s_imm(w)
           /\ Slice(w, 0, 7) = BRANCH => HW!imm(w) = HW!b_imm(w)
           /\ Slice(w, 0, 7) = JAL_OP => HW!imm(w) = HW!j_imm(w)
           /\ Slice(w, 0, 7) = LUI_OP => HW!imm(w) = HW!u_imm(w)
  BY OpcodesDiffer, HardwareFields, SameNames DEF HW!imm

LEMMA FunctNames ==
    ASSUME NEW w
    PROVE  /\ Slice(w, 0, 7) = OP /\ Slice(w, 25, 7) = {} => FunctOf(w) = BaseFunct(Slice(w, 12, 3))
           /\ Slice(w, 0, 7) = OP /\ Slice(w, 12, 3) = F000 /\ Slice(w, 25, 7) = Alternative
                 => FunctOf(w) = "SUB"
           /\ Slice(w, 0, 7) = OP /\ Slice(w, 12, 3) = F101 /\ Slice(w, 25, 7) = Alternative
                 => FunctOf(w) = "SRA"
           /\ Slice(w, 0, 7) = OP_IMM /\ Slice(w, 12, 3) # F101
                 => FunctOf(w) = BaseFunct(Slice(w, 12, 3))
           /\ Slice(w, 0, 7) = BRANCH /\ Slice(w, 12, 3) = F000 => FunctOf(w) = "BEQ"
           /\ Slice(w, 0, 7) = BRANCH /\ Slice(w, 12, 3) = F001 => FunctOf(w) = "BNE"
           /\ Slice(w, 0, 7) \in {LOAD, STORE, JAL_OP, JALR_OP, LUI_OP} => FunctOf(w) = "OTHER"
  BY OpcodesDiffer, FunctsDiffer, HardwareFields DEF FunctOf

LEMMA BaseFuncts ==
    /\ BaseFunct(F000) = "ADD" /\ BaseFunct(F001) = "SLL" /\ BaseFunct(F010) = "SLT"
    /\ BaseFunct(F011) = "SLTU" /\ BaseFunct(F100) = "XOR" /\ BaseFunct(F101) = "SRL"
    /\ BaseFunct(F110) = "OR" /\ BaseFunct(F111) = "AND"
  BY FunctsDiffer DEF BaseFunct

LEMMA HostFields ==
    ASSUME NEW w
    PROVE  /\ Slice(w, 0, 7) = OP => PY!decode(w).type = "R" /\ PY!decode(w).rd = Slice(w, 7, 5)
                 /\ PY!decode(w).rs1 = Slice(w, 15, 5) /\ PY!decode(w).rs2 = Slice(w, 20, 5)
           /\ Slice(w, 0, 7) = OP_IMM => PY!decode(w) = PY!FromRs1("I", w)
           /\ Slice(w, 0, 7) = LOAD => PY!decode(w) = PY!FromRs1("LW", w)
           /\ Slice(w, 0, 7) = JALR_OP => PY!decode(w) = PY!FromRs1("JALR", w)
           /\ Slice(w, 0, 7) = STORE => PY!decode(w).type = "S"
                 /\ PY!decode(w).rs1 = Slice(w, 15, 5) /\ PY!decode(w).rs2 = Slice(w, 20, 5) /\ PY!decode(w).imm = PY!immS(w)
           /\ Slice(w, 0, 7) = BRANCH => PY!decode(w).type = "B"
                 /\ PY!decode(w).rs1 = Slice(w, 15, 5) /\ PY!decode(w).rs2 = Slice(w, 20, 5) /\ PY!decode(w).imm = PY!immB(w)
           /\ Slice(w, 0, 7) = JAL_OP => PY!decode(w).type = "J" /\ PY!decode(w).rd = Slice(w, 7, 5)
                 /\ PY!decode(w).imm = PY!immJ(w)
  BY OpcodesDiffer, HardwareFields, SameNames DEF PY!decode

LEMMA CallType ==
    ASSUME NEW c, InRange(c)
    PROVE  /\ c = [f |-> c.f, rd |-> c.rd, rs1 |-> c.rs1, rs2 |-> c.rs2, imm |-> c.imm]
           /\ c.f \in DOMAIN Operation
           /\ c.rd \in Unsigned(5) /\ c.rs1 \in Unsigned(5) /\ c.rs2 \in Unsigned(5)
           /\ c.imm \in Word32 /\ c.imm \in Immediates(Operation[c.f][1])
  BY DEF InRange

\* What InHardware asks, operand by operand.
LEMMA Hardware ==
    ASSUME NEW c, InRange(c), NEW w, <<OpcodeOf(w), FunctOf(w)>> = Operation[c.f],
           "rd" \in Operands(OpcodeOf(w)) => HW!rd(w) = c.rd,
           "rs1" \in Operands(OpcodeOf(w)) => HW!rs1(w) = c.rs1,
           "rs2" \in Operands(OpcodeOf(w)) => HW!rs2(w) = c.rs2,
           "imm" \in Operands(OpcodeOf(w)) =>
               HW!imm(w) = IF c.f = "lui" THEN Shl(c.imm, 12) ELSE c.imm
    PROVE  InHardware(c, w)
  <1> DEFINE i == FieldsOf(w)
             x == [c EXCEPT !.imm = IF c.f = "lui" THEN Shl(c.imm, 12) ELSE c.imm]
  <1>1. /\ x.rd = c.rd /\ x.rs1 = c.rs1 /\ x.rs2 = c.rs2
        /\ x.imm = IF c.f = "lui" THEN Shl(c.imm, 12) ELSE c.imm
    BY CallType
  <1>2. /\ i.opcode = OpcodeOf(w) /\ i.funct = FunctOf(w) /\ i.rd = HW!rd(w)
        /\ i.rs1 = HW!rs1(w) /\ i.rs2 = HW!rs2(w) /\ i.imm = HW!imm(w)
    BY DEF FieldsOf
  <1>3. \A o \in Operands(OpcodeOf(w)) : o \in {"rd", "rs1", "rs2", "imm"}
    BY DEF Operands
  <1>4. \A o \in Operands(OpcodeOf(w)) : i[o] = x[o]
    <2> HIDE DEF i, x
    <2> QED
      BY <1>1, <1>2, <1>3
  <1>5. <<i.opcode, i.funct>> = Operation[c.f]
    BY <1>2
  <1> QED
    BY <1>2, <1>4, <1>5 DEF InHardware

\* The round trip of each format.
LEMMA ITypeTrip ==
    ASSUME NEW c, InRange(c), NEW f3 \in Unsigned(3), NEW op, NEW w,
           w = IType(c.imm, c.rs1, f3, c.rd, op), c.f # "lui",
           \/ op = OP_IMM /\ f3 # F101 /\ Operation[c.f] = <<"OP_IMM", BaseFunct(f3)>>
           \/ op = LOAD /\ Operation[c.f] = <<"LOAD", "OTHER">>
           \/ op = JALR_OP /\ Operation[c.f] = <<"JALR", "OTHER">>
    PROVE  InHardware(c, w) /\ InDecoder(c, w)
  <1>1. op \in Unsigned(7) /\ c.imm \in SignedBits(12)
    BY CallType, FieldSizes DEF Immediates
  <1>2. /\ Slice(w, 0, 7) = op /\ Slice(w, 7, 5) = c.rd /\ Slice(w, 12, 3) = f3
        /\ Slice(w, 15, 5) = c.rs1 /\ HW!i_imm(w) = c.imm /\ PY!immI(w) = c.imm
    BY <1>1, CallType, ITypeDecoded
  <1>3. <<OpcodeOf(w), FunctOf(w)>> = Operation[c.f]
    BY <1>2, OpcodeNames, FunctNames
  <1>4. HW!rd(w) = c.rd /\ HW!rs1(w) = c.rs1 /\ HW!imm(w) = c.imm
    BY <1>2, HardwareFields, Immediate
  <1>5. OpcodeOf(w) \in {"OP_IMM", "LOAD", "JALR"}
    BY <1>2, OpcodeNames
  <1>6. InHardware(c, w)
    BY <1>3, <1>4, <1>5, Hardware DEF Operands
  <1>7. InDecoder(c, w)
    BY <1>2, HostFields, HardwareFields DEF InDecoder, PY!FromRs1, HostType, Operands
  <1> QED
    BY <1>6, <1>7

LEMMA RTypeTrip ==
    ASSUME NEW c, InRange(c), NEW f3 \in Unsigned(3), NEW f7 \in Unsigned(7), NEW w,
           w = RType(f7, c.rs2, c.rs1, f3, c.rd), c.f # "lui",
           \/ f7 = {} /\ Operation[c.f] = <<"OP", BaseFunct(f3)>>
           \/ f7 = Alternative /\ f3 = F000 /\ Operation[c.f] = <<"OP", "SUB">>
           \/ f7 = Alternative /\ f3 = F101 /\ Operation[c.f] = <<"OP", "SRA">>
    PROVE  InHardware(c, w) /\ InDecoder(c, w)
  <1>1. /\ Slice(w, 0, 7) = OP /\ Slice(w, 7, 5) = c.rd /\ Slice(w, 12, 3) = f3
        /\ Slice(w, 15, 5) = c.rs1 /\ Slice(w, 20, 5) = c.rs2 /\ Slice(w, 25, 7) = f7
    BY CallType, RTypeDecoded
  <1>2. <<OpcodeOf(w), FunctOf(w)>> = Operation[c.f]
    BY <1>1, OpcodeNames, FunctNames
  <1>3. HW!rd(w) = c.rd /\ HW!rs1(w) = c.rs1 /\ HW!rs2(w) = c.rs2 /\ OpcodeOf(w) = "OP"
    BY <1>1, HardwareFields, OpcodeNames
  <1>4. InHardware(c, w)
    BY <1>2, <1>3, Hardware DEF Operands
  <1>5. InDecoder(c, w)
    BY <1>1, HostFields DEF InDecoder, HostType, Operands
  <1> QED
    BY <1>4, <1>5

LEMMA STypeTrip ==
    ASSUME NEW c, InRange(c), NEW w, w = SType(c.imm, c.rs2, c.rs1, F010), c.f # "lui",
           Operation[c.f] = <<"STORE", "OTHER">>
    PROVE  InHardware(c, w) /\ InDecoder(c, w)
  <1>1. c.imm \in SignedBits(12)
    BY CallType DEF Immediates
  <1>2. /\ Slice(w, 0, 7) = STORE /\ Slice(w, 12, 3) = F010
        /\ Slice(w, 15, 5) = c.rs1 /\ Slice(w, 20, 5) = c.rs2
        /\ HW!s_imm(w) = c.imm /\ PY!immS(w) = c.imm
    BY <1>1, CallType, FieldSizes, STypeDecoded
  <1>3. <<OpcodeOf(w), FunctOf(w)>> = Operation[c.f]
    BY <1>2, OpcodeNames, FunctNames
  <1>4. HW!rs1(w) = c.rs1 /\ HW!rs2(w) = c.rs2 /\ HW!imm(w) = c.imm /\ OpcodeOf(w) = "STORE"
    BY <1>2, HardwareFields, Immediate, OpcodeNames
  <1>5. InHardware(c, w)
    BY <1>3, <1>4, Hardware DEF Operands
  <1>6. InDecoder(c, w)
    BY <1>2, HostFields DEF InDecoder, HostType, Operands
  <1> QED
    BY <1>5, <1>6

LEMMA BTypeTrip ==
    ASSUME NEW c, InRange(c), NEW f3 \in Unsigned(3), NEW w, w = BType(c.imm, c.rs2, c.rs1, f3),
           c.f # "lui",
           \/ f3 = F000 /\ Operation[c.f] = <<"BRANCH", "BEQ">>
           \/ f3 = F001 /\ Operation[c.f] = <<"BRANCH", "BNE">>
    PROVE  InHardware(c, w) /\ InDecoder(c, w)
  <1>1. c.imm \in Offsets(13)
    BY CallType DEF Immediates
  <1>2. /\ Slice(w, 0, 7) = BRANCH /\ Slice(w, 12, 3) = f3
        /\ Slice(w, 15, 5) = c.rs1 /\ Slice(w, 20, 5) = c.rs2
        /\ HW!b_imm(w) = c.imm /\ PY!immB(w) = c.imm
    BY <1>1, CallType, BTypeDecoded
  <1>3. <<OpcodeOf(w), FunctOf(w)>> = Operation[c.f]
    BY <1>2, OpcodeNames, FunctNames
  <1>4. HW!rs1(w) = c.rs1 /\ HW!rs2(w) = c.rs2 /\ HW!imm(w) = c.imm /\ OpcodeOf(w) = "BRANCH"
    BY <1>2, HardwareFields, Immediate, OpcodeNames
  <1>5. InHardware(c, w)
    BY <1>3, <1>4, Hardware DEF Operands
  <1>6. InDecoder(c, w)
    BY <1>2, HostFields DEF InDecoder, HostType, Operands
  <1> QED
    BY <1>5, <1>6

LEMMA JTypeTrip ==
    ASSUME NEW c, InRange(c), NEW w, w = JType(c.imm, c.rd), c.f # "lui",
           Operation[c.f] = <<"JAL", "OTHER">>
    PROVE  InHardware(c, w) /\ InDecoder(c, w)
  <1>1. c.imm \in Offsets(21)
    BY CallType DEF Immediates
  <1>2. /\ Slice(w, 0, 7) = JAL_OP /\ Slice(w, 7, 5) = c.rd
        /\ HW!j_imm(w) = c.imm /\ PY!immJ(w) = c.imm
    BY <1>1, CallType, JTypeDecoded
  <1>3. <<OpcodeOf(w), FunctOf(w)>> = Operation[c.f]
    BY <1>2, OpcodeNames, FunctNames
  <1>4. HW!rd(w) = c.rd /\ HW!imm(w) = c.imm /\ OpcodeOf(w) = "JAL"
    BY <1>2, HardwareFields, Immediate, OpcodeNames
  <1>5. InHardware(c, w)
    BY <1>3, <1>4, Hardware DEF Operands
  <1>6. InDecoder(c, w)
    BY <1>2, HostFields DEF InDecoder, HostType, Operands
  <1> QED
    BY <1>5, <1>6

LEMMA UTypeTrip ==
    ASSUME NEW c, InRange(c), NEW w, w = UType(c.imm, c.rd), c.f = "lui"
    PROVE  InHardware(c, w) /\ InDecoder(c, w)
  <1>0. Operation[c.f] = <<"LUI", "OTHER">>
    BY DEF Operation
  <1>1. c.imm \in Unsigned(20)
    BY <1>0, CallType DEF Immediates
  <1>2. /\ Slice(w, 0, 7) = LUI_OP /\ Slice(w, 7, 5) = c.rd
        /\ HW!u_imm(w) = Shl(c.imm, 12)
    BY <1>1, CallType, UTypeDecoded
  <1>3. <<OpcodeOf(w), FunctOf(w)>> = Operation[c.f]
    BY <1>0, <1>2, OpcodeNames, FunctNames
  <1>4. HW!rd(w) = c.rd /\ HW!imm(w) = Shl(c.imm, 12) /\ OpcodeOf(w) = "LUI"
    BY <1>2, HardwareFields, Immediate, OpcodeNames
  <1>5. InHardware(c, w)
    BY <1>3, <1>4, Hardware DEF Operands
  <1>6. InDecoder(c, w)
    BY DEF InDecoder
  <1> QED
    BY <1>5, <1>6

\* The assemblers' formats and names are these, in either file.
LEMMA SWFormats ==
    /\ \A im, s1, f3, d, op : SW!IType(im, s1, f3, d, op) = IType(im, s1, f3, d, op)
    /\ \A f7, s2, s1, f3, d : SW!RType(f7, s2, s1, f3, d) = RType(f7, s2, s1, f3, d)
    /\ \A im, s2, s1, f3 : SW!SType(im, s2, s1, f3) = SType(im, s2, s1, f3)
    /\ \A im, s2, s1, f3 : SW!BType(im, s2, s1, f3) = BType(im, s2, s1, f3)
    /\ \A im, d : SW!JType(im, d) = JType(im, d)
    /\ \A im, d : SW!UType(im, d) = UType(im, d)
  BY DEF SW!IType, SW!RType, SW!SType, SW!BType, SW!JType, SW!UType, SW!Shl, SW!Slice, SW!Pos,
         SW!OP, SW!STORE, SW!BRANCH, SW!JAL_OP, SW!LUI_OP, IType, RType, SType, BType, JType, UType,
         Shl, Slice, Pos, OP, STORE, BRANCH, JAL_OP, LUI_OP

LEMMA SWNames ==
    /\ SW!F000 = F000 /\ SW!F001 = F001 /\ SW!F010 = F010 /\ SW!F011 = F011 /\ SW!F100 = F100
    /\ SW!F101 = F101 /\ SW!F110 = F110 /\ SW!F111 = F111 /\ SW!Alternative = Alternative
    /\ SW!OP_IMM = OP_IMM /\ SW!LOAD = LOAD /\ SW!JALR_OP = JALR_OP
  BY DEF SW!F000, SW!F001, SW!F010, SW!F011, SW!F100, SW!F101, SW!F110, SW!F111, SW!Alternative,
         SW!OP_IMM, SW!LOAD, SW!JALR_OP, F000, F001, F010, F011, F100, F101, F110, F111, Alternative,
         OP_IMM, LOAD, JALR_OP

LEMMA SCFormats ==
    /\ \A im, s1, f3, d, op : SC!IType(im, s1, f3, d, op) = IType(im, s1, f3, d, op)
    /\ \A f7, s2, s1, f3, d : SC!RType(f7, s2, s1, f3, d) = RType(f7, s2, s1, f3, d)
    /\ \A im, s2, s1, f3 : SC!SType(im, s2, s1, f3) = SType(im, s2, s1, f3)
    /\ \A im, s2, s1, f3 : SC!BType(im, s2, s1, f3) = BType(im, s2, s1, f3)
    /\ \A im, d : SC!JType(im, d) = JType(im, d)
    /\ \A im, d : SC!UType(im, d) = UType(im, d)
  BY DEF SC!IType, SC!RType, SC!SType, SC!BType, SC!JType, SC!UType, SC!Shl, SC!Slice, SC!Pos,
         SC!OP, SC!STORE, SC!BRANCH, SC!JAL_OP, SC!LUI_OP, IType, RType, SType, BType, JType, UType,
         Shl, Slice, Pos, OP, STORE, BRANCH, JAL_OP, LUI_OP

LEMMA SCNames ==
    /\ SC!F000 = F000 /\ SC!F001 = F001 /\ SC!F010 = F010 /\ SC!F011 = F011 /\ SC!F100 = F100
    /\ SC!F101 = F101 /\ SC!F110 = F110 /\ SC!F111 = F111 /\ SC!Alternative = Alternative
    /\ SC!OP_IMM = OP_IMM /\ SC!LOAD = LOAD /\ SC!JALR_OP = JALR_OP
  BY DEF SC!F000, SC!F001, SC!F010, SC!F011, SC!F100, SC!F101, SC!F110, SC!F111, SC!Alternative,
         SC!OP_IMM, SC!LOAD, SC!JALR_OP, F000, F001, F010, F011, F100, F101, F110, F111, Alternative,
         OP_IMM, LOAD, JALR_OP

\* The functions of software/assembler.py, format by format.
LEMMA SoftwareTrips ==
    ASSUME NEW c, InRange(c)
    PROVE  InHardware(c, Software(c)) /\ InDecoder(c, Software(c))
  <1>1. CASE c.f \in {"addi", "xori", "ori", "andi", "slti", "sltiu"}
    <2>1. \E f3 \in Unsigned(3) :
              /\ f3 # F101 /\ Operation[c.f] = <<"OP_IMM", BaseFunct(f3)>>
              /\ Software(c) = IType(c.imm, c.rs1, f3, c.rd, OP_IMM)
      BY <1>1, SWFormats, SWNames, BaseFuncts, FieldSizes, FunctsDiffer
         DEF Operation, Software, SW!addi, SW!xori, SW!ori, SW!andi, SW!slti, SW!sltiu
    <2> QED
      BY <1>1, <2>1, ITypeTrip
  <1>2. CASE c.f \in {"lw", "jalr"}
    <2>1. \E f3 \in Unsigned(3) :
              \/ /\ Operation[c.f] = <<"LOAD", "OTHER">>
                 /\ Software(c) = IType(c.imm, c.rs1, f3, c.rd, LOAD)
              \/ /\ Operation[c.f] = <<"JALR", "OTHER">>
                 /\ Software(c) = IType(c.imm, c.rs1, f3, c.rd, JALR_OP)
      BY <1>2, SWFormats, SWNames, FieldSizes
         DEF Operation, Software, SW!lw, SW!jalr
    <2> QED
      BY <1>2, <2>1, ITypeTrip
  <1>3. CASE c.f \in {"add", "and_", "or_", "xor_", "slt", "sltu", "sll", "srl"}
    <2>1. \E f3 \in Unsigned(3) :
              /\ Operation[c.f] = <<"OP", BaseFunct(f3)>>
              /\ Software(c) = RType({}, c.rs2, c.rs1, f3, c.rd)
      BY <1>3, SWFormats, SWNames, BaseFuncts, FieldSizes
         DEF Operation, Software, SW!add, SW!and_, SW!or_, SW!xor_, SW!slt, SW!sltu, SW!sll, SW!srl
    <2> QED
      BY <1>3, <2>1, RTypeTrip, FieldSizes
  <1>4. CASE c.f \in {"sub", "sra"}
    <2>1. \/ /\ Operation[c.f] = <<"OP", "SUB">>
             /\ Software(c) = RType(Alternative, c.rs2, c.rs1, F000, c.rd)
          \/ /\ Operation[c.f] = <<"OP", "SRA">>
             /\ Software(c) = RType(Alternative, c.rs2, c.rs1, F101, c.rd)
      BY <1>4, SWFormats, SWNames
         DEF Operation, Software, SW!sub, SW!sra
    <2> QED
      BY <1>4, <2>1, RTypeTrip, FieldSizes
  <1>5. CASE c.f \in {"sw"}
    <2>1. /\ Operation[c.f] = <<"STORE", "OTHER">>
          /\ Software(c) = SType(c.imm, c.rs2, c.rs1, F010)
      BY <1>5, SWFormats, SWNames DEF Operation, Software, SW!sw
    <2> QED
      BY <1>5, <2>1, STypeTrip
  <1>6. CASE c.f \in {"beq", "bne"}
    <2>1. \/ /\ Operation[c.f] = <<"BRANCH", "BEQ">>
             /\ Software(c) = BType(c.imm, c.rs2, c.rs1, F000)
          \/ /\ Operation[c.f] = <<"BRANCH", "BNE">>
             /\ Software(c) = BType(c.imm, c.rs2, c.rs1, F001)
      BY <1>6, SWFormats, SWNames DEF Operation, Software, SW!beq, SW!bne
    <2> QED
      BY <1>6, <2>1, BTypeTrip, FieldSizes
  <1>7. CASE c.f \in {"jal"}
    <2>1. Operation[c.f] = <<"JAL", "OTHER">> /\ Software(c) = JType(c.imm, c.rd)
      BY <1>7, SWFormats DEF Operation, Software, SW!jal
    <2> QED
      BY <1>7, <2>1, JTypeTrip
  <1>8. CASE c.f \in {"lui"}
    <2>1. Software(c) = UType(c.imm, c.rd)
      BY <1>8, SWFormats DEF Software, SW!lui
    <2> QED
      BY <1>8, <2>1, UTypeTrip
  <1> QED
    BY <1>1, <1>2, <1>3, <1>4, <1>5, <1>6, <1>7, <1>8, CallType DEF Operation

\* The older copy of the assembler encodes as the newer one does.
LEMMA SameFunctions ==
    ASSUME NEW c, InRange(c), c.f # "lui" PROVE Script(c) = Software(c)
  <1>1. c.f \in {"addi", "xori", "ori", "andi", "slti", "sltiu", "lw", "jalr",
              "add", "sub", "and_", "or_", "xor_", "slt", "sltu", "sll", "srl", "sra",
              "sw", "beq", "bne", "jal"}
    BY CallType DEF Operation
  <1> QED
    BY <1>1, SWFormats, SWNames, SCFormats, SCNames, SMTT(60)
     DEF SW!addi, SW!xori, SW!ori, SW!andi, SW!slti, SW!sltiu, SW!lw, SW!jalr, SW!add,
         SW!sub, SW!and_, SW!or_, SW!xor_, SW!slt, SW!sltu, SW!sll, SW!srl, SW!sra, SW!sw,
         SW!beq, SW!bne, SW!jal, SC!addi, SC!xori, SC!ori, SC!andi, SC!slti, SC!sltiu,
         SC!lw, SC!jalr, SC!add, SC!sub, SC!and_, SC!or_, SC!xor_, SC!slt, SC!sltu,
         SC!sll, SC!srl, SC!sra, SC!sw, SC!beq, SC!bne, SC!jal, Script, Software

-------------------------------------------------------------------------------
(* The control signals of any word, assembled or not.                          *)

LEMMA EightFuncts ==
    ASSUME NEW w
    PROVE  Slice(w, 12, 3) \in {F000, F001, F010, F011, F100, F101, F110, F111}
  <1>1. \A k \in Slice(w, 12, 3) : k \in Int /\ 0 <= k /\ k <= 2
    BY DEF Slice
  <1>2. \A k \in Slice(w, 12, 3) : k = 0 \/ k = 1 \/ k = 2
    BY <1>1
  <1> QED
    BY <1>2 DEF F000, F001, F010, F011, F100, F101, F110, F111

\* The names of opcodes stand for the opcodes.
LEMMA OpcodesNamed ==
    ASSUME NEW w
    PROVE  /\ OpcodeOf(w) = "OP" <=> HW!opcode(w) = OP
           /\ OpcodeOf(w) = "OP_IMM" <=> HW!opcode(w) = OP_IMM
           /\ OpcodeOf(w) = "LOAD" <=> HW!opcode(w) = LOAD
           /\ OpcodeOf(w) = "STORE" <=> HW!opcode(w) = STORE
           /\ OpcodeOf(w) = "BRANCH" <=> HW!opcode(w) = BRANCH
           /\ OpcodeOf(w) = "JAL" <=> HW!opcode(w) = JAL_OP
           /\ OpcodeOf(w) = "JALR" <=> HW!opcode(w) = JALR_OP
           /\ OpcodeOf(w) = "LUI" <=> HW!opcode(w) = LUI_OP
           /\ OpcodeOf(w) = "UNKNOWN" <=>
                 HW!opcode(w) \notin {OP, OP_IMM, LOAD, STORE, BRANCH, JAL_OP, JALR_OP, LUI_OP}
  BY OpcodesDiffer DEF OpcodeOf

LEMMA DecoderNames ==
    /\ HW!F000 = F000 /\ HW!F001 = F001 /\ HW!F010 = F010 /\ HW!F011 = F011 /\ HW!F100 = F100
    /\ HW!F101 = F101 /\ HW!F110 = F110 /\ HW!F111 = F111 /\ HW!Alternative = Alternative
  BY DEF HW!F000, HW!F001, HW!F010, HW!F011, HW!F100, HW!F101, HW!F110, HW!F111, HW!Alternative,
         F000, F001, F010, F011, F100, F101, F110, F111, Alternative

LEMMA AluControls ==
    ASSUME NEW w, NEW i, i.opcode = OpcodeOf(w), i.funct = FunctOf(w)
    PROVE  HW!alu_control(w) = AluControl(i)
  <1> DEFINE f3 == HW!funct3(w)  f7 == HW!funct7(w)
  <1>1. f3 \in {F000, F001, F010, F011, F100, F101, F110, F111}
    BY EightFuncts, HardwareFields
  <1>2. CASE HW!opcode(w) = OP
    <2>1. FunctOf(w) = IF f3 \in {F000, F101} /\ f7 = Alternative
                       THEN IF f3 = F000 THEN "SUB" ELSE "SRA"
                       ELSE IF f3 \in {F000, F101} /\ f7 # {} THEN "OTHER"
                       ELSE BaseFunct(f3)
      BY <1>2, FunctsDiffer DEF FunctOf
    <2>2. HW!alu_control(w) = HW!RegisterAlu(f3, f7)
      BY <1>2, SameNames DEF HW!alu_control
    <2>3. AluControl(i) = IF FunctOf(w) \in AluOp THEN FunctOf(w) ELSE "ADD"
      BY <1>2, OpcodesNamed, OpcodesDiffer DEF AluControl, AluOp
    <2> QED
      BY <2>1, <2>2, <2>3, <1>1, BaseFuncts, FunctsDiffer, DecoderNames
         DEF HW!RegisterAlu, AluOp, BitOp
  <1>3. CASE HW!opcode(w) = OP_IMM
    <2>1. FunctOf(w) = IF f3 = F101 /\ f7 = Alternative THEN "SRA"
                       ELSE IF f3 = F101 /\ f7 # {} THEN "OTHER"
                       ELSE BaseFunct(f3)
      BY <1>3, FunctsDiffer, OpcodesDiffer DEF FunctOf
    <2>2. HW!alu_control(w) = HW!ImmediateAlu(f3)
      BY <1>3, SameNames, OpcodesDiffer DEF HW!alu_control
    <2>3. AluControl(i) = IF FunctOf(w) \in {"XOR", "OR", "AND", "SLT", "SLTU"}
                          THEN FunctOf(w) ELSE "ADD"
      BY <1>3, OpcodesNamed, OpcodesDiffer DEF AluControl
    <2> QED
      BY <2>1, <2>2, <2>3, <1>1, BaseFuncts, FunctsDiffer, DecoderNames DEF HW!ImmediateAlu
  <1>4. CASE HW!opcode(w) # OP /\ HW!opcode(w) # OP_IMM
    BY <1>4, OpcodesNamed, SameNames DEF HW!alu_control, AluControl
  <1> QED
    BY <1>2, <1>3, <1>4

LEMMA Controls ==
    ASSUME NEW w
    PROVE  LET i == FieldsOf(w)
           IN  HW!decode(w) =
                 [Decode([i EXCEPT !.imm = {}])
                    EXCEPT !.imm = IF i.opcode \in {"OP", "UNKNOWN"} THEN {} ELSE i.imm]
  <1> DEFINE i == FieldsOf(w)
             j == [i EXCEPT !.imm = {}]
             x == IF i.opcode \in {"OP", "UNKNOWN"} THEN {} ELSE i.imm
  <1>1. /\ i.opcode = OpcodeOf(w) /\ i.funct = FunctOf(w) /\ i.rd = HW!rd(w)
        /\ i.rs1 = HW!rs1(w) /\ i.rs2 = HW!rs2(w) /\ i.imm = HW!imm(w)
    BY DEF FieldsOf
  <1>2. /\ j.opcode = OpcodeOf(w) /\ j.funct = FunctOf(w) /\ j.rd = HW!rd(w)
        /\ j.rs1 = HW!rs1(w) /\ j.rs2 = HW!rs2(w)
    BY DEF FieldsOf
  <1>3. HW!imm(w) = x
    BY <1>1, OpcodesNamed, SameNames DEF HW!imm
  <1>4. HW!alu_control(w) = AluControl(j)
    BY <1>2, AluControls
  <1>5. HW!opcode(w) = BRANCH => /\ FunctOf(w) = "BEQ" <=> HW!funct3(w) = F000
                                 /\ FunctOf(w) = "BNE" <=> HW!funct3(w) = F001
    BY FunctsDiffer, OpcodesDiffer DEF FunctOf
  <1> HIDE DEF i, j, x
  <1>6. [Decode(j) EXCEPT !.imm = x] =
          [rd |-> j.rd, rs1 |-> j.rs1, rs2 |-> j.rs2, imm |-> x,
           alu_control |-> AluControl(j),
           reg_write   |-> j.opcode \in {"OP", "OP_IMM", "LOAD", "JAL", "JALR", "LUI"},
           alu_src     |-> j.opcode \in {"OP_IMM", "LOAD", "STORE", "JALR", "LUI"},
           mem_read    |-> j.opcode = "LOAD",
           mem_write   |-> j.opcode = "STORE",
           mem_to_reg  |-> j.opcode = "LOAD",
           jal_to_reg  |-> j.opcode \in {"JAL", "JALR"},
           jump        |-> j.opcode = "JAL",
           jalr        |-> j.opcode = "JALR",
           branch_eq   |-> j.opcode = "BRANCH" /\ j.funct = "BEQ",
           branch_ne   |-> j.opcode = "BRANCH" /\ j.funct = "BNE"]
    BY DEF Decode
  <1>7. HW!decode(w) = [Decode(j) EXCEPT !.imm = x]
    BY <1>2, <1>3, <1>4, <1>5, <1>6, OpcodesNamed, SameNames, DecoderNames DEF HW!decode
  <1> QED
    BY <1>7 DEF i, j, x

-------------------------------------------------------------------------------
(* bin_to_hex.py.                                                              *)

LEMMA LittleEndianBytes ==
    ASSUME NEW e0 \in Unsigned(8), NEW e1 \in Unsigned(8), NEW e2 \in Unsigned(8),
           NEW e3 \in Unsigned(8), NEW w, w = LittleEndian(e0, e1, e2, e3)
    PROVE  /\ Slice(w, 0, 8) = e0 /\ Slice(w, 8, 8) = e1
           /\ Slice(w, 16, 8) = e2 /\ Slice(w, 24, 8) = e3
  <1>1. /\ \A k \in Pos : k \in Shl(e1, 8) <=> 8 <= k /\ k <= 15 /\ k - 8 \in e1
        /\ \A k \in Pos : k \in Shl(e2, 16) <=> 16 <= k /\ k <= 23 /\ k - 16 \in e2
        /\ \A k \in Pos : k \in Shl(e3, 24) <=> 24 <= k /\ k <= 31 /\ k - 24 \in e3
    <2>1. \A k \in Pos : k \in Shl(e1, 8) <=> 8 <= k /\ k <= 15 /\ k - 8 \in e1
      BY Placed
    <2>2. \A k \in Pos : k \in Shl(e2, 16) <=> 16 <= k /\ k <= 23 /\ k - 16 \in e2
      BY Placed
    <2>3. \A k \in Pos : k \in Shl(e3, 24) <=> 24 <= k /\ k <= 31 /\ k - 24 \in e3
      BY Placed
    <2> QED
      BY <2>1, <2>2, <2>3
  <1>2. \A k \in Pos : k \in w <=>
           IF k < 8 THEN k \in e0 ELSE IF k < 16 THEN k - 8 \in e1
           ELSE IF k < 24 THEN k - 16 \in e2 ELSE k - 24 \in e3
    BY <1>1 DEF LittleEndian, Unsigned, Pos
  <1>3. Slice(w, 0, 8) = e0
    <2>1. \A j \in Int : 0 <= j /\ j < 8 => (j + 0 \in w <=> j \in e0)
      BY <1>2 DEF Pos
    <2> QED
      BY <2>1, FieldAt
  <1>4. Slice(w, 8, 8) = e1
    <2>1. \A j \in Int : 0 <= j /\ j < 8 => (j + 8 \in w <=> j \in e1)
      BY <1>2 DEF Pos
    <2> QED
      BY <2>1, FieldAt
  <1>5. Slice(w, 16, 8) = e2
    <2>1. \A j \in Int : 0 <= j /\ j < 8 => (j + 16 \in w <=> j \in e2)
      BY <1>2 DEF Pos
    <2> QED
      BY <2>1, FieldAt
  <1>6. Slice(w, 24, 8) = e3
    <2>1. \A j \in Int : 0 <= j /\ j < 8 => (j + 24 \in w <=> j \in e3)
      BY <1>2 DEF Pos
    <2> QED
      BY <2>1, FieldAt
  <1> QED
    BY <1>3, <1>4, <1>5, <1>6

LEMMA PaddedType ==
    ASSUME NEW data \in Seq(Unsigned(8))
    PROVE  /\ Padded(data) \in Seq(Unsigned(8))
           /\ Len(Padded(data)) = 4 * ((Len(data) + 3) \div 4)
           /\ \A k \in 1 .. Len(data) : Padded(data)[k] = data[k]
           /\ Len(data) <= 4 * ((Len(data) + 3) \div 4)
           /\ 4 * ((Len(data) + 3) \div 4) <= Len(data) + 3
  <1> DEFINE m == (Len(data) + 3) \div 4
  <1>1. Len(data) \in Nat /\ m \in Nat /\ Len(data) <= 4 * m /\ 4 * m <= Len(data) + 3
    OBVIOUS
  <1>2. {} \in Unsigned(8) /\ \A k \in 1 .. Len(data) : data[k] \in Unsigned(8)
    BY DEF Unsigned
  <1>3. \A k \in 1 .. 4 * m : (IF k <= Len(data) THEN data[k] ELSE {}) \in Unsigned(8)
    BY <1>1, <1>2
  <1>4. Padded(data) \in [1 .. 4 * m -> Unsigned(8)]
    BY <1>3 DEF Padded
  <1>5. 4 * m \in Nat
    BY <1>1
  <1> HIDE DEF m
  <1>6. Padded(data) \in Seq(Unsigned(8)) /\ Len(Padded(data)) = 4 * m
    BY <1>4, <1>5
  <1>7. \A k \in 1 .. Len(data) : Padded(data)[k] = data[k]
    BY <1>1 DEF Padded, m
  <1> QED
    BY <1>1, <1>6, <1>7 DEF m

LEMMA HexBytes ==
    ASSUME NEW data \in Seq(Unsigned(8)), NEW h, h = HexWords(data)
    PROVE  /\ Len(h) \in Nat /\ 4 * Len(h) - Len(data) \in 0 .. 3
           /\ \A k \in 1 .. Len(data) :
                 data[k] = Slice(h[(k + 3) \div 4], 8 * ((k - 1) % 4), 8)
  <1> DEFINE p == Padded(data)
             m == (Len(data) + 3) \div 4
             word(i) == LittleEndian(p[4*i-3], p[4*i-2], p[4*i-1], p[4*i])
  <1>1. /\ p \in Seq(Unsigned(8)) /\ Len(p) = 4 * m /\ \A k \in 1 .. Len(data) : p[k] = data[k]
        /\ Len(data) \in Nat /\ m \in Nat /\ Len(data) <= 4 * m /\ 4 * m <= Len(data) + 3
    BY PaddedType
  <1>2. h = [i \in 1 .. Len(p) \div 4 |-> word(i)]
    BY DEF HexWords
  <1>3. Len(p) \div 4 = m
    BY <1>1
  <1>4. h = [i \in 1 .. m |-> word(i)]
    BY <1>2, <1>3
  <1>5. Len(h) = m
    <2> HIDE DEF word, m
    <2> QED
      BY <1>1, <1>4
  <1>6. ASSUME NEW k \in 1 .. Len(data)
        PROVE  data[k] = Slice(h[(k + 3) \div 4], 8 * ((k - 1) % 4), 8)
    <2> DEFINE i == (k + 3) \div 4  r == (k - 1) % 4
    <2>1. i \in 1 .. m /\ r \in 0 .. 3 /\ k = 4 * i - 3 + r
      BY <1>1
    <2> HIDE DEF i, r, m, p
    <2>2. h[i] = LittleEndian(p[4*i-3], p[4*i-2], p[4*i-1], p[4*i])
      BY <1>4, <2>1
    <2>3. /\ p[4*i-3] \in Unsigned(8) /\ p[4*i-2] \in Unsigned(8)
          /\ p[4*i-1] \in Unsigned(8) /\ p[4*i] \in Unsigned(8)
      BY <1>1, <2>1
    <2>4. p[k] = data[k]
      BY <1>1
    <2>5. /\ Slice(h[i], 0, 8) = p[4*i-3] /\ Slice(h[i], 8, 8) = p[4*i-2]
          /\ Slice(h[i], 16, 8) = p[4*i-1] /\ Slice(h[i], 24, 8) = p[4*i]
      BY <2>2, <2>3, LittleEndianBytes
    <2>6. data[k] = Slice(h[i], 8 * r, 8)
      <3>1. CASE r = 0
        BY <2>1, <2>4, <2>5, <3>1
      <3>2. CASE r = 1
        BY <2>1, <2>4, <2>5, <3>2
      <3>3. CASE r = 2
        BY <2>1, <2>4, <2>5, <3>3
      <3>4. CASE r = 3
        BY <2>1, <2>4, <2>5, <3>4
      <3> QED
        BY <2>1, <3>1, <3>2, <3>3, <3>4
    <2> QED
      BY <2>6 DEF i, r
  <1>7. Len(h) \in Nat /\ 4 * Len(h) - Len(data) \in 0 .. 3
    <2>1. m \in Nat /\ Len(data) \in Nat /\ Len(data) <= 4 * m /\ 4 * m <= Len(data) + 3
      BY <1>1
    <2> HIDE DEF m
    <2> QED
      BY <1>5, <2>1
  <1> QED
    BY <1>6, <1>7

-------------------------------------------------------------------------------
(* The invariant: which words each tool has made, and from what.               *)

FirstLine(d) == [index |-> 0, pc |-> 0, text |-> TextOf(d)]

MadeWords ==
    /\ tool = "software" => input \in Calls /\ words \in {<<>>, <<Software(input)>>}
    /\ tool = "scripts" =>
          input \in Calls /\ input.f # "lui" /\ words \in {<<>>, <<Script(input)>>}
    /\ tool = "bin_to_hex" => input \in Binaries /\ words \in {<<>>, HexWords(input)}
    /\ tool = "generate_hex" =>
          /\ drawn.count \in Nat /\ (drawn.count > 0 => drawn.last \in Draws)
          /\ \/ words = <<>> /\ asmLog = <<>>
             \/ \E d \in Draws : words = <<Script(CallOf(d))>> /\ asmLog = <<FirstLine(d)>>
    /\ tool = "run_reference" => words = <<>>

LEMMA InitMade == FlowInit => MadeWords
  BY DEF FlowInit, Init, MadeWords

LEMMA StepMade == MadeWords /\ [FlowNext]_flowVars => MadeWords'
  <1> SUFFICES ASSUME MadeWords, [FlowNext]_flowVars PROVE MadeWords'
    OBVIOUS
  <1>1. CASE Next /\ UNCHANGED <<refVars, genVars, simVars>>
    BY <1>1 DEF Next, AssembleSoftware, AssembleScript, ConvertBinary, genVars, MadeWords
  <1>2. CASE Draw
    <2>1. PICK d \in Draws : drawn' = [count |-> drawn.count + 1, last |-> d]
      BY <1>2 DEF Draw
    <2>2. drawn'.count = drawn.count + 1 /\ drawn'.last = d
      BY <2>1
    <2> QED
      BY <1>2, <2>2 DEF Draw, vars, MadeWords
  <1>3. CASE AddInstr
    <2>1. drawn.last \in Draws
      BY <1>3, DrawsAssumption DEF AddInstr, MadeWords
    <2>2. words' = <<Script(CallOf(drawn.last))>>
      BY <1>3 DEF AddInstr
    <2>3. asmLog' = <<FirstLine(drawn.last)>>
      BY <1>3 DEF AddInstr, MadeWords, FirstLine
    <2> QED
      BY <1>3, <2>1, <2>2, <2>3 DEF AddInstr, MadeWords
  <1>4. CASE ReferenceTurn \/ ReferenceEnds \/ UNCHANGED flowVars
    BY <1>4 DEF ReferenceTurn, ReferenceEnds, flowVars, vars, genVars, MadeWords
  <1> QED
    BY <1>1, <1>2, <1>3, <1>4 DEF FlowNext

LEMMA Made == FlowSpec => []MadeWords
  BY InitMade, StepMade, PTL DEF FlowSpec
-------------------------------------------------------------------------------
(* The theorems.                                                               *)

LEMMA AssembledTrips ==
    ASSUME MadeWords, Assembled
    PROVE  InHardware(input, words[1]) /\ InDecoder(input, words[1])
  <1>1. input \in Calls /\ InRange(input)
    BY CallsAssumption DEF MadeWords, Assembled
  <1>2. CASE tool = "software"
    <2>1. words[1] = Software(input)
      BY <1>2 DEF MadeWords, Assembled
    <2> QED
      BY <1>1, <2>1, SoftwareTrips
  <1>3. CASE tool = "scripts"
    <2>1. words[1] = Software(input)
      BY <1>1, <1>3, SameFunctions DEF MadeWords, Assembled
    <2> QED
      BY <1>1, <2>1, SoftwareTrips
  <1> QED
    BY <1>2, <1>3 DEF Assembled

\* The processor's decoder finds in every word of either assembler the instruction
\* that was asked for and its operands, whatever registers and immediates of the
\* format's width it was called with.
THEOREM HardwareReadsCalls == FlowSpec => []HardwareRoundTrip
  <1>1. MadeWords => HardwareRoundTrip
    BY AssembledTrips DEF HardwareRoundTrip, InHardware
  <1> QED
    BY <1>1, Made, PTL

\* decoder.py finds the same operands, sign-extended.
THEOREM HostReadsCalls == FlowSpec => []HostRoundTrip
  <1>1. MadeWords => HostRoundTrip
    BY AssembledTrips DEF HostRoundTrip, InDecoder
  <1> QED
    BY <1>1, Made, PTL

\* On every word there is, assembled, compiled or none of these, instr_decoder.sv sets
\* the control signals of the table the theorems about the pipeline use.
THEOREM ControlsAgree == FlowSpec => []ControlsOfFields
  <1>1. ControlsOfFields
    BY Controls DEF ControlsOfFields
  <1> QED
    BY <1>1, PTL

\* bin_to_hex.py keeps every byte of a file of any length in its place.
THEOREM BytesStayInPlace == FlowSpec => []BytesInPlace
  <1>1. MadeWords => BytesInPlace
    <2> SUFFICES ASSUME MadeWords, words # <<>>, tool = "bin_to_hex"
                 PROVE  /\ 4 * Len(words) - Len(input) \in 0 .. 3
                        /\ \A k \in 1 .. Len(input) :
                              input[k] = Slice(words[(k + 3) \div 4], 8 * ((k - 1) % 4), 8)
      BY DEF BytesInPlace
    <2>1. input \in Seq(Unsigned(8)) /\ words = HexWords(input)
      BY BinariesAssumption DEF MadeWords
    <2> QED
      BY <2>1, HexBytes
  <1> QED
    BY <1>1, Made, PTL
-------------------------------------------------------------------------------
(* The log of generate_hex.py.                                                 *)

\* No two functions of an assembler stand for the same operation.
LEMMA OperationsDiffer ==
    ASSUME NEW f \in DOMAIN Operation, NEW g \in DOMAIN Operation, Operation[f] = Operation[g]
    PROVE  f = g
  BY DEF Operation

LEMMA DrawnCall ==
    ASSUME NEW d \in Draws
    PROVE  /\ InRange(CallOf(d)) /\ CallOf(d).rd = d.rd /\ CallOf(d).rs1 = d.rs1
           /\ CallOf(d).rs2 = d.rs2
           /\ CallOf(d).imm = IF CallOf(d).f = "beq" THEN d.branch_imm ELSE d.imm12
           /\ CallOf(d).f \in {"addi", "add", "sub", "and_", "or_", "xor_", "slt", "sltu", "sll",
                              "srl", "lw", "sw", "beq"}
  <1>1. /\ d.choice \in 0 .. 12 /\ d.rd \in Unsigned(5) /\ d.rs1 \in Unsigned(5)
        /\ d.rs2 \in Unsigned(5) /\ d.imm12 \in SignedBits(12) /\ d.branch_imm \in Offsets(13)
    BY DrawsAssumption
  <1>2. d.imm12 \in Word32 /\ d.branch_imm \in Word32
    BY <1>1 DEF SignedBits, Offsets
  <1> DEFINE f == Functions0to12[d.choice + 1]
             im == IF d.choice = 12 THEN d.branch_imm ELSE d.imm12
  <1>3. /\ f \in {"addi", "add", "sub", "and_", "or_", "xor_", "slt", "sltu", "sll",
                  "srl", "lw", "sw", "beq"}
        /\ f = "beq" <=> d.choice = 12
    BY <1>1 DEF Functions0to12
  <1>4. CallOf(d) = [f |-> f, rd |-> d.rd, rs1 |-> d.rs1, rs2 |-> d.rs2, imm |-> im]
    BY DEF CallOf
  <1>5. /\ f = "beq" => Operation[f][1] = "BRANCH"
        /\ f # "beq" => Operation[f][1] \in {"OP", "OP_IMM", "LOAD", "STORE"}
        /\ f \in DOMAIN Operation
    BY <1>3 DEF Operation
  <1>6. im \in Immediates(Operation[f][1]) /\ im \in Word32
    BY <1>1, <1>2, <1>3, <1>5 DEF Immediates
  <1> HIDE DEF f, im
  <1>7. /\ CallOf(d).f = f /\ CallOf(d).rd = d.rd /\ CallOf(d).rs1 = d.rs1
        /\ CallOf(d).rs2 = d.rs2 /\ CallOf(d).imm = im
    BY <1>4
  <1>8. InRange(CallOf(d))
    BY <1>1, <1>4, <1>5, <1>6 DEF InRange
  <1> QED
    BY <1>3, <1>7, <1>8 DEF im

LEMMA Disassembled ==
    ASSUME NEW d \in Draws PROVE Disassembly(Script(CallOf(d))) = TextOf(d)
  <1> DEFINE c == CallOf(d)
             w == Script(c)
             i == FieldsOf(w)
             f == CHOOSE g \in DOMAIN Operation : Operation[g] = <<i.opcode, i.funct>>
             x == PY!decode(w)
  <1>1. InRange(c) /\ c.f # "lui" /\ c.f \in DOMAIN Operation
    BY DrawnCall DEF InRange
  <1>2. InHardware(c, w) /\ InDecoder(c, w)
    BY <1>1, SoftwareTrips, SameFunctions
  <1>3. <<i.opcode, i.funct>> = Operation[c.f]
    BY <1>2 DEF InHardware
  <1>4. f = c.f
    <2> HIDE DEF i, w, c
    <2>1. \E g \in DOMAIN Operation : Operation[g] = <<i.opcode, i.funct>>
      BY <1>1, <1>3
    <2>2. f \in DOMAIN Operation /\ Operation[f] = <<i.opcode, i.funct>>
      BY <2>1
    <2> QED
      BY <1>1, <1>3, <2>2, OperationsDiffer
  <1>5. \A o \in Operands(Operation[c.f][1]) : x[o] = c[o]
    BY <1>1, <1>2 DEF InDecoder
  <1>6. /\ "rd" \in Operands(Operation[c.f][1]) => x.rd = c.rd
        /\ "rs1" \in Operands(Operation[c.f][1]) => x.rs1 = c.rs1
        /\ "rs2" \in Operands(Operation[c.f][1]) => x.rs2 = c.rs2
        /\ "imm" \in Operands(Operation[c.f][1]) => x.imm = c.imm
    BY <1>5
  <1>7. Disassembly(w) = IF c.f = "lw" THEN <<c.f, x.rd, x.imm, x.rs1>>
                         ELSE IF c.f = "sw" THEN <<c.f, x.rs2, x.imm, x.rs1>>
                         ELSE IF c.f = "beq" THEN <<c.f, x.rs1, x.rs2, x.imm>>
                         ELSE IF c.f = "addi" THEN <<c.f, x.rd, x.rs1, x.imm>>
                         ELSE <<c.f, x.rd, x.rs1, x.rs2>>
    <2>1. Disassembly(w) = IF f = "lw" THEN <<f, x.rd, x.imm, x.rs1>>
                           ELSE IF f = "sw" THEN <<f, x.rs2, x.imm, x.rs1>>
                           ELSE IF f = "beq" THEN <<f, x.rs1, x.rs2, x.imm>>
                           ELSE IF f = "addi" THEN <<f, x.rd, x.rs1, x.imm>>
                           ELSE <<f, x.rd, x.rs1, x.rs2>>
      <3> HIDE DEF w
      <3> QED
        BY DEF Disassembly
    <2> HIDE DEF c, w, f, x
    <2> QED
      BY <1>4, <2>1
  <1>8. TextOf(d) = IF c.f = "addi" THEN <<c.f, d.rd, d.rs1, d.imm12>>
                    ELSE IF c.f = "lw" THEN <<c.f, d.rd, d.imm12, d.rs1>>
                    ELSE IF c.f = "sw" THEN <<c.f, d.rs2, d.imm12, d.rs1>>
                    ELSE IF c.f = "beq" THEN <<c.f, d.rs1, d.rs2, d.branch_imm>>
                    ELSE <<c.f, d.rd, d.rs1, d.rs2>>
    BY DEF TextOf
  <1>9. /\ c.rd = d.rd /\ c.rs1 = d.rs1 /\ c.rs2 = d.rs2
        /\ c.imm = IF c.f = "beq" THEN d.branch_imm ELSE d.imm12
        /\ c.f \in {"addi", "add", "sub", "and_", "or_", "xor_", "slt", "sltu", "sll",
                    "srl", "lw", "sw", "beq"}
    BY DrawnCall
  <1> HIDE DEF c, x, w
  <1>10. /\ c.f \in {"lw", "addi"} => {"rd", "rs1", "imm"} \subseteq Operands(Operation[c.f][1])
         /\ c.f \in {"sw", "beq"} => {"rs1", "rs2", "imm"} \subseteq Operands(Operation[c.f][1])
         /\ c.f \in {"add", "sub", "and_", "or_", "xor_", "slt", "sltu", "sll", "srl"}
               => {"rd", "rs1", "rs2"} \subseteq Operands(Operation[c.f][1])
    BY DEF Operation, Operands
  <1> QED
    BY <1>6, <1>7, <1>8, <1>9, <1>10 DEF w, c

\* A log of one line is read back as that line.
LEMMA OneLine ==
    ASSUME NEW line, NEW log, log = <<line>>, NEW col
    PROVE  ToAsm(log, col)[line[col]] = line.text
  <1>1. DOMAIN log = {1} /\ log[1] = line /\ Len(log) = 1
    OBVIOUS
  <1>2. Column(log, col) = {line[col]}
    BY <1>1 DEF Column
  <1>3. \A k \in DOMAIN log :
           log[k][col] = line[col] /\ (\A l \in k + 1 .. Len(log) : log[l][col] # line[col]) <=> k = 1
    BY <1>1
  <1>4. (CHOOSE k \in DOMAIN log :
           log[k][col] = line[col] /\ \A l \in k + 1 .. Len(log) : log[l][col] # line[col]) = 1
    BY <1>1, <1>3
  <1> QED
    BY <1>1, <1>2, <1>4 DEF ToAsm

\* The text that parse_asm_log.py finds for an index or an address is the text of the
\* instruction that program.hex has there, whatever was drawn.
THEOREM LogNamesTheWords == FlowSpec => []LogNamesWords
  <1>1. MadeWords => LogNamesWords
    <2> SUFFICES ASSUME MadeWords, tool = "generate_hex"
                 PROVE  /\ Len(asmLog) = Len(words)
                        /\ \A k \in 1 .. Len(words) :
                              /\ index_to_asm[k - 1] = Disassembly(words[k])
                              /\ pc_to_asm[4 * (k - 1)] = Disassembly(words[k])
      BY DEF LogNamesWords
    <2>1. CASE words = <<>> /\ asmLog = <<>>
      BY <2>1
    <2>2. ASSUME NEW d \in Draws, words = <<Script(CallOf(d))>>, asmLog = <<FirstLine(d)>>
          PROVE  /\ Len(asmLog) = Len(words)
                 /\ \A k \in 1 .. Len(words) :
                       /\ index_to_asm[k - 1] = Disassembly(words[k])
                       /\ pc_to_asm[4 * (k - 1)] = Disassembly(words[k])
      <3>1. /\ FirstLine(d)["index"] = 0 /\ FirstLine(d)["pc"] = 0
            /\ FirstLine(d).text = TextOf(d)
        BY DEF FirstLine
      <3>2. index_to_asm[0] = TextOf(d) /\ pc_to_asm[0] = TextOf(d)
        BY <2>2, <3>1, OneLine DEF index_to_asm, pc_to_asm
      <3>3. Len(asmLog) = 1 /\ Len(words) = 1 /\ words[1] = Script(CallOf(d))
        BY <2>2
      <3> QED
        BY <3>2, <3>3, Disassembled
    <2> QED
      BY <2>1, <2>2 DEF MadeWords
  <1> QED
    BY <1>1, Made, PTL
-------------------------------------------------------------------------------
(* The reference model beside the hardware: integers without a width, and the  *)
(* words they leave behind when they are masked.                               *)

Modulus == 2^WordBits
Half == 2^(WordBits - 1)

LEMMA SizeOfWord ==
    /\ WordBits \in Nat /\ PyBits \in Nat /\ WordBits <= PyBits
    /\ Modulus \in Nat /\ Half \in Nat \ {0} /\ Modulus = 2 * Half /\ Modulus >= 2
  <1>1. WordBits \in Nat /\ PyBits \in Nat /\ WordBits <= PyBits /\ WordBits - 1 \in Nat
    BY BitsAssumption
  <1>2. Half \in Nat \ {0} /\ Modulus = 2 * Half
    <2>1. (WordBits - 1) + 1 = WordBits
      BY <1>1
    <2> QED
      BY <1>1, <2>1, PowerOfTwo DEF Modulus, Half
  <1> QED
    BY <1>1, <1>2

LEMMA MaskedRange == ASSUME NEW a \in Int PROVE Masked(a) \in WordValues
  BY SizeOfWord DEF Masked, WordValues, Modulus

LEMMA MaskedWord == ASSUME NEW a \in WordValues PROVE Masked(a) = a /\ a \in Int
  BY SizeOfWord DEF Masked, WordValues, Modulus

\* Sums and differences keep their low bits when the operands lose their high ones.
LEMMA MaskedSum ==
    ASSUME NEW a \in Int, NEW b \in Int
    PROVE  /\ Masked(a + b) = Masked(Masked(a) + Masked(b))
           /\ Masked(a - b) = Masked(Masked(a) - Masked(b))
  <1> DEFINE q == a \div Modulus  r == a % Modulus
             p == b \div Modulus  s == b % Modulus
  <1>1. Modulus \in Nat \ {0}
    BY SizeOfWord
  <1>2. a = Modulus * q + r /\ r \in 0 .. Modulus - 1 /\ q \in Int
    BY <1>1, Division
  <1>3. b = Modulus * p + s /\ s \in 0 .. Modulus - 1 /\ p \in Int
    BY <1>1, Division
  <1> HIDE DEF q, r, p, s
  <1>4. ASSUME NEW x \in Int, NEW y \in Int, NEW e \in Int, x = Modulus * e + y
        PROVE  x % Modulus = y % Modulus
    <2>1. /\ y = Modulus * (y \div Modulus) + (y % Modulus)
          /\ (y % Modulus) \in 0 .. Modulus - 1 /\ y \div Modulus \in Int
      BY <1>1, Division
    <2>2. x = Modulus * (e + (y \div Modulus)) + (y % Modulus) /\ e + (y \div Modulus) \in Int
      BY <1>1, <1>4, <2>1
    <2> QED
      BY <1>1, <2>1, <2>2, DivisionUnique, Zenon
  <1>5. /\ a + b = Modulus * (q + p) + (r + s) /\ q + p \in Int /\ r + s \in Int
        /\ a - b = Modulus * (q - p) + (r - s) /\ q - p \in Int /\ r - s \in Int
        /\ a + b \in Int /\ a - b \in Int
    BY <1>1, <1>2, <1>3
  <1>6. (a + b) % Modulus = (r + s) % Modulus /\ (a - b) % Modulus = (r - s) % Modulus
    BY <1>4, <1>5, Zenon
  <1> QED
    BY <1>6 DEF r, s, Masked, Modulus

\* What a Python integer keeps of its bits when it is masked.
LEMMA SignedType ==
    ASSUME NEW negative, NEW v \in SUBSET Nat, NEW w \in Nat
    PROVE  SignedNumber(negative, v, w) \in Int
  <1>1. (0 .. w - 1) \ v \in SUBSET Nat
    OBVIOUS
  <1>2. Number(v, w) \in Nat /\ Number((0 .. w - 1) \ v, w) \in Nat
    BY <1>1, NumberSteps, Zenon
  <1> QED
    BY <1>2 DEF SignedNumber

LEMMA SignedMasked ==
    ASSUME NEW negative, NEW v \in SUBSET Nat
    PROVE  Masked(SignedNumber(negative, v, PyBits)) = Number(v, WordBits)
  <1> DEFINE c == (0 .. PyBits - 1) \ v
             n == Number(v, WordBits)
             N == Number(c, PyBits)
  <1>1. Modulus \in Nat \ {0} /\ PyBits \in Nat /\ WordBits \in Nat /\ WordBits <= PyBits
    BY SizeOfWord
  <1>2. c \in SUBSET Nat
    OBVIOUS
  <1>3. n \in 0 .. Modulus - 1
    BY <1>1, NumberRange DEF Modulus
  <1>4. CASE ~negative
    <2>1. Number(v, PyBits) % 2^WordBits = n
      BY <1>1, NumberRemainder
    <2> QED
      BY <1>4, <2>1 DEF SignedNumber, Masked
  <1>5. CASE negative
    <2>1. N % Modulus = Number(c, WordBits)
      BY <1>1, <1>2, NumberRemainder DEF Modulus
    <2>2. Number(c, WordBits) = Modulus - 1 - n
      BY <1>1, NumberOfComplement DEF Modulus
    <2>3. N \in Nat
      BY <1>1, <1>2, NumberSteps, Zenon
    <2> HIDE DEF N, n, c
    <2>4. N = Modulus * (N \div Modulus) + (N % Modulus) /\ N \div Modulus \in Int
      BY <1>1, <2>3, Division
    <2>5. /\ -1 - N = Modulus * (-1 - (N \div Modulus)) + n
          /\ -1 - (N \div Modulus) \in Int /\ -1 - N \in Int
      BY <1>1, <1>3, <2>1, <2>2, <2>3, <2>4
    <2>6. (-1 - N) % Modulus = n
      BY <1>1, <1>3, <2>5, DivisionUnique, Zenon
    <2> QED
      BY <1>5, <2>6 DEF SignedNumber, Masked, Modulus, N, n, c
  <1> QED
    BY <1>4, <1>5

LEMMA OnesBelow ==
    ASSUME NEW a \in Int
    PROVE  /\ Ones(a) \in SUBSET Nat
           /\ OneBits(Masked(a), WordBits) \in SUBSET (0 .. WordBits - 1)
           /\ \A k \in 0 .. WordBits - 1 : k \in Ones(a) <=> k \in OneBits(Masked(a), WordBits)
  <1>1. OneBits(Masked(a), WordBits) = OneBits(a, WordBits)
    BY SizeOfWord, OnesOfRemainder DEF Masked
  <1>2. WordBits \in Nat /\ PyBits \in Nat /\ WordBits <= PyBits
    BY SizeOfWord
  <1>3. \A w \in Nat : OneBits(a, w) \in SUBSET (0 .. w - 1)
    BY DEF OneBits
  <1>4. \A k \in 0 .. WordBits - 1 : k \in OneBits(a, PyBits) <=> k \in OneBits(a, WordBits)
    BY <1>2 DEF OneBits
  <1>5. 0 .. PyBits - 1 \in SUBSET Nat
    OBVIOUS
  <1> QED
    BY <1>1, <1>2, <1>3, <1>4, <1>5 DEF Ones

\* The three operations on the infinite sequences of bits, masked, are those of the ALU.
LEMMA BitwiseMasked ==
    ASSUME NEW a \in Int, NEW b \in Int
    PROVE  /\ PyAnd(a, b) \in Int /\ Masked(PyAnd(a, b)) = WordBit("AND", Masked(a), Masked(b))
           /\ PyOr(a, b) \in Int /\ Masked(PyOr(a, b)) = WordBit("OR", Masked(a), Masked(b))
           /\ PyXor(a, b) \in Int /\ Masked(PyXor(a, b)) = WordBit("XOR", Masked(a), Masked(b))
  <1> DEFINE A == OneBits(Masked(a), WordBits)
             B == OneBits(Masked(b), WordBits)
             and == Ones(a) \cap Ones(b)
             or == Ones(a) \cup Ones(b)
             xor == (Ones(a) \ Ones(b)) \cup (Ones(b) \ Ones(a))
  <1>1. /\ A \in SUBSET (0 .. WordBits - 1) /\ Ones(a) \in SUBSET Nat
        /\ \A k \in 0 .. WordBits - 1 : k \in Ones(a) <=> k \in A
    BY OnesBelow
  <1>2. /\ B \in SUBSET (0 .. WordBits - 1) /\ Ones(b) \in SUBSET Nat
        /\ \A k \in 0 .. WordBits - 1 : k \in Ones(b) <=> k \in B
    BY OnesBelow
  <1>3. /\ WordBit("AND", Masked(a), Masked(b)) = Number(A \cap B, WordBits)
        /\ WordBit("OR", Masked(a), Masked(b)) = Number(A \cup B, WordBits)
        /\ WordBit("XOR", Masked(a), Masked(b)) = Number((A \ B) \cup (B \ A), WordBits)
    BY DEF WordBit
  <1> HIDE DEF A, B
  <1>4. and \in SUBSET Nat /\ or \in SUBSET Nat /\ xor \in SUBSET Nat
    BY <1>1, <1>2
  <1>5. /\ A \cap B \in SUBSET Nat /\ A \cup B \in SUBSET Nat
        /\ (A \ B) \cup (B \ A) \in SUBSET Nat
    BY <1>1, <1>2
  <1>6. WordBits \in Nat /\ PyBits \in Nat
    BY SizeOfWord
  <1>7. Number(and, WordBits) = Number(A \cap B, WordBits)
    <2>1. \A k \in 0 .. WordBits - 1 : k \in and <=> k \in A \cap B
      BY <1>1, <1>2
    <2> HIDE DEF and
    <2> QED
      BY <1>4, <1>5, <1>6, <2>1, NumberAgrees
  <1>8. Number(or, WordBits) = Number(A \cup B, WordBits)
    <2>1. \A k \in 0 .. WordBits - 1 : k \in or <=> k \in A \cup B
      BY <1>1, <1>2
    <2> HIDE DEF or
    <2> QED
      BY <1>4, <1>5, <1>6, <2>1, NumberAgrees
  <1>9. Number(xor, WordBits) = Number((A \ B) \cup (B \ A), WordBits)
    <2>1. \A k \in 0 .. WordBits - 1 : k \in xor <=> k \in (A \ B) \cup (B \ A)
      BY <1>1, <1>2
    <2> HIDE DEF xor
    <2> QED
      BY <1>4, <1>5, <1>6, <2>1, NumberAgrees
  <1>10. /\ PyAnd(a, b) = SignedNumber(a < 0 /\ b < 0, and, PyBits)
         /\ PyOr(a, b) = SignedNumber(a < 0 \/ b < 0, or, PyBits)
         /\ PyXor(a, b) = SignedNumber((a < 0) # (b < 0), xor, PyBits)
    BY DEF PyAnd, PyOr, PyXor
  <1> HIDE DEF and, or, xor
  <1>11. PyAnd(a, b) \in Int /\ PyOr(a, b) \in Int /\ PyXor(a, b) \in Int
    BY <1>4, <1>6, <1>10, SignedType
  <1>12. /\ Masked(PyAnd(a, b)) = Number(and, WordBits)
         /\ Masked(PyOr(a, b)) = Number(or, WordBits)
         /\ Masked(PyXor(a, b)) = Number(xor, WordBits)
    BY <1>4, <1>10, SignedMasked
  <1> QED
    BY <1>3, <1>7, <1>8, <1>9, <1>11, <1>12
-------------------------------------------------------------------------------
(* The ALU.                                                                    *)

LEMMA WordBitType ==
    ASSUME NEW op, NEW a, NEW b
    PROVE  WordBit(op, a, b) \in WordValues
  <1> DEFINE A == OneBits(a, WordBits)
             B == OneBits(b, WordBits)
             n == b % 32
             v == IF op = "AND" THEN A \cap B
                  ELSE IF op = "OR" THEN A \cup B
                  ELSE IF op = "XOR" THEN (A \ B) \cup (B \ A)
                  ELSE {k \in 0 .. WordBits - 1 :
                          IF op = "SLL" THEN k - n \in A
                          ELSE \/ k + n \in A
                               \/ op = "SRA" /\ k + n >= WordBits /\ WordBits - 1 \in A}
  <1>1. A \in SUBSET (0 .. WordBits - 1) /\ B \in SUBSET (0 .. WordBits - 1)
    BY DEF OneBits
  <1>2. v \in SUBSET (0 .. WordBits - 1)
    <2> HIDE DEF A, B, n
    <2> QED
      BY <1>1
  <1>3. WordBit(op, a, b) = Number(v, WordBits)
    BY DEF WordBit
  <1> HIDE DEF v
  <1>4. v \in SUBSET Nat
    BY <1>2
  <1> QED
    BY <1>3, <1>4, NumberRange, SizeOfWord DEF WordValues

LEMMA AluMeaning ==
    ASSUME NEW a \in WordValues, NEW b \in WordValues
    PROVE  /\ Alu!AluResult("ADD", a, b) = Masked(a + b)
           /\ Alu!AluResult("SUB", a, b) = Masked(a - b)
           /\ Alu!AluResult("SLTU", a, b) = Truth(a < b)
           /\ Alu!AluResult("SLT", a, b) =
                Truth((IF a < Half THEN a ELSE a - Modulus) < (IF b < Half THEN b ELSE b - Modulus))
           /\ \A op \in {"AND", "OR", "XOR"} : Alu!AluResult(op, a, b) = WordBit(op, a, b)
  <1>1. Alu!MmioBase = Half
    BY SizeOfWord DEF Alu!MmioBase, Modulus
  <1> QED
    BY <1>1
       DEF Alu!AluResult, Alu!Plus, Alu!Minus, Alu!Less, Alu!Signed, Alu!Bit, Masked, Truth, Modulus

LEMMA AluType ==
    ASSUME NEW op, NEW a \in WordValues, NEW b \in WordValues
    PROVE  Alu!AluResult(op, a, b) \in WordValues
  <1>1. \A p \in BOOLEAN : Alu!Bit(p) \in WordValues
    BY SizeOfWord DEF Alu!Bit, WordValues, Modulus
  <1>2. Alu!Less(a, b) \in BOOLEAN /\ (a < b) \in BOOLEAN
    BY DEF Alu!Less
  <1>3. a + b \in Int /\ a - b \in Int
    BY MaskedWord
  <1>4. Alu!Plus(a, b) \in WordValues /\ Alu!Minus(a, b) \in WordValues
    BY <1>3, MaskedRange DEF Alu!Plus, Alu!Minus, Masked
  <1> QED
    BY <1>1, <1>2, <1>4, WordBitType, Zenon DEF Alu!AluResult

\* A word read as a signed number is any integer it stands for that fits.
LEMMA SignedWord ==
    ASSUME NEW a \in Int, InWord(a)
    PROVE  (IF Masked(a) < Half THEN Masked(a) ELSE Masked(a) - Modulus) = a
  <1>1. Modulus \in Nat \ {0} /\ Modulus = 2 * Half /\ Half \in Nat /\ -Half <= a /\ a <= Half - 1
    BY SizeOfWord DEF InWord, Half
  <1>2. CASE a >= 0
    <2>1. a = Modulus * 0 + a /\ a \in 0 .. Modulus - 1
      BY <1>1, <1>2
    <2>2. a % Modulus = a
      BY <1>1, <2>1, DivisionUnique
    <2> QED
      BY <1>1, <2>2 DEF Masked, Modulus
  <1>3. CASE a < 0
    <2>1. a = Modulus * (-1) + (a + Modulus) /\ a + Modulus \in 0 .. Modulus - 1
      BY <1>1, <1>3
    <2>2. a % Modulus = a + Modulus
      BY <1>1, <2>1, DivisionUnique
    <2> QED
      BY <1>1, <1>3, <2>2 DEF Masked, Modulus
  <1> QED
    BY <1>2, <1>3
-------------------------------------------------------------------------------
(* One instruction. Operands and immediate of the two decoders, and the value. *)

LEMMA RegisterNumber ==
    ASSUME NEW v \in Unsigned(5)
    PROVE  NumberOf(v) \in RegIndex /\ (NumberOf(v) = 0 <=> v = {})
  <1>1. v \in SUBSET Nat /\ \A k \in v : k \in 0 .. 5 - 1
    BY DEF Unsigned
  <1>2. Number(v, 5) \in 0 .. 2^5 - 1 /\ 2^5 = 32
    <2>1. 5 \in Nat
      OBVIOUS
    <2>2. Number(v, 5) \in 0 .. 2^5 - 1
      BY <1>1, <2>1, NumberRange, Zenon
    <2>3. 2^5 = 32
      OBVIOUS
    <2> QED
      BY <2>2, <2>3, Zenon
  <1>3. Number(v, 5) = 0 => v = {}
    <2>1. Number(v, 5) = 0 => \A k \in 0 .. 5 - 1 : k \notin v
      BY <1>1, NumberZero
    <2> QED
      BY <1>1, <2>1, Zenon
  <1>4. v = {} => Number(v, 5) = 0
    <2> SUFFICES Number({}, 5) = 0
      BY Zenon
    <2>1. {} \in SUBSET Nat /\ \A k : Weight({}, k) = 0
      BY DEF Weight
    <2>2. \A w \in Nat : Number({}, w) \in Nat /\ Number({}, w + 1) = Number({}, w) + Weight({}, w)
      BY <2>1, NumberSteps, Zenon
    <2>3. Number({}, 0) = 0
      BY <2>1, NumberSteps, Zenon
    <2>4. \A w \in Nat : Number({}, w + 1) = Number({}, w)
      BY <2>1, <2>2
    <2> QED
      BY <2>3, <2>4
  <1> QED
    BY <1>2, <1>3, <1>4 DEF NumberOf, RegIndex

LEMMA ImmediateNumber ==
    ASSUME NEW v \in Word32 PROVE IntOf(v) \in Int
  BY SignedType DEF IntOf, Word32, Pos

\* What the reference model's decoder says of an instruction, by its type.
LEMMA DecodedFields ==
    ASSUME NEW w
    PROVE  LET d == decode(w) IN
           /\ d.type = "R" =>
                /\ OpcodeOf(w) = "OP"
                /\ d.rd = Slice(w, 7, 5) /\ d.rs1 = Slice(w, 15, 5) /\ d.rs2 = Slice(w, 20, 5)
                /\ d.funct3 = Slice(w, 12, 3) /\ d.funct7 = Slice(w, 25, 7)
           /\ d.type = "I" =>
                /\ OpcodeOf(w) = "OP_IMM"
                /\ d.rd = Slice(w, 7, 5) /\ d.rs1 = Slice(w, 15, 5)
                /\ d.funct3 = Slice(w, 12, 3) /\ d.imm = immI(w)
           /\ d.type \notin {"R", "I"} => OpcodeOf(w) \notin {"OP", "OP_IMM"}
  BY OpcodesDiffer, HardwareFields
     DEF decode, FromRs1, opcode, rdField, rs1Field, rs2Field, funct3, funct7, OpcodeOf

LEMMA SameImmediate ==
    ASSUME NEW w \in Word32
    PROVE  HW!i_imm(w) = immI(w) /\ immI(w) \in Word32
  <1> DEFINE s == Slice(w, 20, 12)
  <1>1. \A k \in Pos : k \in s <=> k < 12 /\ k + 20 \in w
    BY DEF Slice, Pos
  <1>2. s \in Word32
    BY DEF Slice, Word32, Pos
  <1>3. 11 \in s <=> 31 \in w
    BY DEF Slice
  <1>4. 12 - 1 = 11
    OBVIOUS
  <1> HIDE DEF s
  <1>5. \A k \in Pos : k \in SignExtend(s, 12) <=> IF k < 12 THEN k + 20 \in w ELSE 31 \in w
    BY <1>1, <1>3, <1>4 DEF SignExtend, Pos
  <1>6. SignExtend(s, 12) \in Word32
    BY <1>2 DEF SignExtend, Word32, Pos
  <1>7. HW!i_imm(w) = SignExtend(s, 12)
    <2>1. HW!i_imm(w) = {k \in Pos : IF k < 12 THEN k + 20 \in w ELSE 31 \in w}
      BY DEF HW!i_imm, HW!Pos, Pos
    <2> QED
      BY <1>5, <1>6, <2>1 DEF Word32
  <1> QED
    BY <1>6, <1>7 DEF immI, s

\* What the hardware writes.
LEMMA HardwareValue ==
    ASSUME NEW w, OpcodeOf(w) \in {"OP", "OP_IMM"}
    PROVE  HwValue(w) =
             Alu!AluResult(HW!alu_control(w), hw[NumberOf(Slice(w, 15, 5))],
                           IF OpcodeOf(w) = "OP_IMM" THEN Masked(IntOf(HW!i_imm(w)))
                           ELSE hw[NumberOf(Slice(w, 20, 5))])
  <1>1. HW!opcode(w) \in {OP, OP_IMM} /\ (OpcodeOf(w) = "OP_IMM" <=> HW!opcode(w) = OP_IMM)
    BY OpcodesNamed
  <1>2. /\ HW!decode(w).rs1 = Slice(w, 15, 5) /\ HW!decode(w).rs2 = Slice(w, 20, 5)
        /\ HW!decode(w).alu_control = HW!alu_control(w) /\ HW!decode(w).imm = HW!imm(w)
        /\ HW!decode(w).alu_src <=> HW!opcode(w) = OP_IMM
    BY <1>1, HardwareFields, SameNames, OpcodesDiffer DEF HW!decode
  <1>3. HW!opcode(w) = OP_IMM => HW!imm(w) = HW!i_imm(w)
    BY HardwareFields, Immediate
  <1> QED
    BY <1>1, <1>2, <1>3 DEF HwValue

LEMMA ValueType ==
    ASSUME NEW d, NEW x \in Int, NEW y \in Int, a1(d) = x, b1(d) = y
    PROVE  RegisterValue(d) \in Int
  <1>1. \A p : Truth(p) \in Int
    BY DEF Truth
  <1>2. /\ execute_add(x, y) \in Int /\ execute_sub(x, y) \in Int
        /\ execute_slt(x, y) \in Int /\ execute_sltu(x, y) \in Int
    BY <1>1 DEF execute_add, execute_sub, execute_slt, execute_sltu
  <1>3. execute_and(x, y) \in Int /\ execute_or(x, y) \in Int /\ execute_xor(x, y) \in Int
    BY BitwiseMasked DEF execute_and, execute_or, execute_xor
  <1> QED
    BY <1>2, <1>3, Zenon DEF RegisterValue

\* Masked, a value that the reference model computes is the one the ALU computes from
\* the masked operands.
LEMMA SameValue ==
    ASSUME NEW w, OpcodeOf(w) = "OP", HasBranch(decode(w)), Exact(decode(w)), decode(w).type = "R",
           NEW x \in Int, NEW y \in Int, a1(decode(w)) = x, b1(decode(w)) = y,
           hw[NumberOf(Slice(w, 15, 5))] = Masked(x), hw[NumberOf(Slice(w, 20, 5))] = Masked(y)
    PROVE  Masked(RegisterValue(decode(w))) = HwValue(w)
  <1> DEFINE d == decode(w)
             value == RegisterValue(d)
             f3 == Slice(w, 12, 3)
  <1>1. d.funct3 = f3 /\ d.funct7 = Slice(w, 25, 7)
    BY DecodedFields
  <1>2. HwValue(w) = Alu!AluResult(HW!alu_control(w), Masked(x), Masked(y))
    BY HardwareValue
  <1>3. HW!alu_control(w) = HW!RegisterAlu(f3, Slice(w, 25, 7))
    BY OpcodesNamed, HardwareFields, SameNames DEF HW!alu_control
  <1>4. /\ Masked(x) \in WordValues /\ Masked(y) \in WordValues
        /\ Masked(x) \in Int /\ Masked(y) \in Int
    BY MaskedRange, MaskedWord
  <1>5. \A p \in BOOLEAN : Truth(p) \in Int /\ Masked(Truth(p)) = Truth(p)
    <2>1. \A p \in BOOLEAN : Truth(p) \in WordValues
      BY SizeOfWord DEF Truth, WordValues, Modulus
    <2> QED
      BY <2>1, MaskedWord
  <1>6. /\ f3 \in {F000, F010, F011, F100, F110, F111}
        /\ f3 = F000 => Slice(w, 25, 7) \in {{}, Alternative}
    BY <1>1, EightFuncts DEF HasBranch, Shifts
  <1>7. CASE f3 = F000 /\ Slice(w, 25, 7) = {}
    <2>1. value = x + y
      BY <1>1, <1>7 DEF RegisterValue, execute_add
    <2>2. HW!alu_control(w) = "ADD"
      BY <1>3, <1>7, DecoderNames, FunctsDiffer DEF HW!RegisterAlu
    <2> QED
      BY <1>2, <1>4, <2>1, <2>2, AluMeaning, MaskedSum
  <1>8. CASE f3 = F000 /\ Slice(w, 25, 7) = Alternative
    <2>1. value = x - y
      BY <1>1, <1>8, FunctsDiffer DEF RegisterValue, execute_sub
    <2>2. HW!alu_control(w) = "SUB"
      BY <1>3, <1>8, DecoderNames DEF HW!RegisterAlu
    <2> QED
      BY <1>2, <1>4, <2>1, <2>2, AluMeaning, MaskedSum
  <1>9. CASE f3 = F010
    <2>1. value = Truth(x < y)
      BY <1>1, <1>9, FunctsDiffer DEF RegisterValue, execute_slt
    <2>2. HW!alu_control(w) = "SLT"
      BY <1>3, <1>9, DecoderNames, FunctsDiffer DEF HW!RegisterAlu
    <2>3. InWord(x) /\ InWord(y)
      BY <1>1, <1>9 DEF Exact
    <2>4. HwValue(w) = Truth(x < y)
      BY <1>2, <1>4, <2>2, <2>3, AluMeaning, SignedWord
    <2>5. (x < y) \in BOOLEAN
      OBVIOUS
    <2> QED
      BY <1>5, <2>1, <2>4, <2>5
  <1>10. CASE f3 = F011
    <2>1. value = Truth(Masked(x) < Masked(y))
      BY <1>1, <1>10, FunctsDiffer DEF RegisterValue, execute_sltu
    <2>2. HW!alu_control(w) = "SLTU"
      BY <1>3, <1>10, DecoderNames, FunctsDiffer DEF HW!RegisterAlu
    <2>3. HwValue(w) = Truth(Masked(x) < Masked(y))
      BY <1>2, <1>4, <2>2, AluMeaning
    <2>4. (Masked(x) < Masked(y)) \in BOOLEAN
      OBVIOUS
    <2> QED
      BY <1>5, <2>1, <2>3, <2>4
  <1>11. CASE f3 = F100
    <2>1. value = PyXor(x, y)
      BY <1>1, <1>11, FunctsDiffer DEF RegisterValue, execute_xor
    <2>2. HW!alu_control(w) = "XOR"
      BY <1>3, <1>11, DecoderNames, FunctsDiffer DEF HW!RegisterAlu
    <2> QED
      BY <1>2, <1>4, <2>1, <2>2, AluMeaning, BitwiseMasked
  <1>12. CASE f3 = F110
    <2>1. value = PyOr(x, y)
      BY <1>1, <1>12, FunctsDiffer DEF RegisterValue, execute_or
    <2>2. HW!alu_control(w) = "OR"
      BY <1>3, <1>12, DecoderNames, FunctsDiffer DEF HW!RegisterAlu
    <2> QED
      BY <1>2, <1>4, <2>1, <2>2, AluMeaning, BitwiseMasked
  <1>13. CASE f3 = F111
    <2>1. value = PyAnd(x, y)
      BY <1>1, <1>13, FunctsDiffer DEF RegisterValue, execute_and
    <2>2. HW!alu_control(w) = "AND"
      BY <1>3, <1>13, DecoderNames, FunctsDiffer DEF HW!RegisterAlu
    <2> QED
      BY <1>2, <1>4, <2>1, <2>2, AluMeaning, BitwiseMasked
  <1> QED
    BY <1>6, <1>7, <1>8, <1>9, <1>10, <1>11, <1>12, <1>13

LEMMA SameImmediateValue ==
    ASSUME NEW w \in Word32, OpcodeOf(w) = "OP_IMM", Slice(w, 12, 3) = F000,
           NEW x \in Int, hw[NumberOf(Slice(w, 15, 5))] = Masked(x)
    PROVE  /\ execute_addi(x, IntOf(immI(w))) \in Int
           /\ Masked(execute_addi(x, IntOf(immI(w)))) = HwValue(w)
  <1> DEFINE y == IntOf(immI(w))
  <1>1. y \in Int /\ HW!i_imm(w) = immI(w)
    BY ImmediateNumber, SameImmediate
  <1>2. HW!alu_control(w) = "ADD"
    BY OpcodesNamed, OpcodesDiffer, HardwareFields, SameNames, DecoderNames, FunctsDiffer
       DEF HW!alu_control, HW!ImmediateAlu
  <1>3. HwValue(w) = Alu!AluResult("ADD", Masked(x), Masked(y))
    BY <1>1, <1>2, HardwareValue
  <1> HIDE DEF y
  <1>4. Masked(x) \in WordValues /\ Masked(y) \in WordValues
    BY <1>1, MaskedRange
  <1>5. HwValue(w) = Masked(Masked(x) + Masked(y))
    BY <1>3, <1>4, AluMeaning
  <1>6. x + y \in Int /\ Masked(x + y) = HwValue(w)
    BY <1>1, <1>5, MaskedSum
  <1> QED
    BY <1>6 DEF execute_addi, y
-------------------------------------------------------------------------------
(* The simulator's records.                                                    *)

LEMMA MaxIs ==
    ASSUME NEW S \in SUBSET Int, NEW m \in S, \A k \in S : m >= k
    PROVE  Max(S) = m
  <1>1. \A x \in S : (\A k \in S : x >= k) => x = m
    OBVIOUS
  <1> QED
    BY <1>1 DEF Max

LEMMA MaxExists ==
    ASSUME NEW n \in Nat, NEW S \in SUBSET (0 .. n), S # {}
    PROVE  Max(S) \in S
  <1> DEFINE B == {b \in Nat : (\A k \in S : k <= b) => \E m \in S : \A k \in S : m >= k}
  <1>1. 0 \in B
    <2>1. PICK m \in S : TRUE
      OBVIOUS
    <2>2. (\A k \in S : k <= 0) => \A k \in S : m >= k
      BY <2>1
    <2> QED
      BY <2>1, <2>2
  <1>2. ASSUME NEW b \in B PROVE b + 1 \in B
    <2> SUFFICES ASSUME \A k \in S : k <= b + 1
                 PROVE  \E m \in S : \A k \in S : m >= k
      BY <1>2
    <2>1. CASE b + 1 \in S
      BY <1>2, <2>1
    <2>2. CASE b + 1 \notin S
      <3>1. \A k \in S : k <= b
        BY <1>2, <2>2
      <3> QED
        BY <1>2, <3>1
    <2> QED
      BY <2>1, <2>2
  <1> HIDE DEF B
  <1>3. Nat \subseteq B
    BY <1>1, <1>2, Induction
  <1>4. PICK m \in S : \A k \in S : m >= k
    BY <1>3 DEF B
  <1> QED
    BY <1>4, MaxIs

\* A record more replaces the value of its register and no other.
LEMMA ParsedRecord ==
    ASSUME NEW log \in Seq(RegIndex \X WordValues), NEW n \in RegIndex, NEW x \in WordValues
    PROVE  /\ Append(log, <<n, x>>) \in Seq(RegIndex \X WordValues)
           /\ ParseRegs(Append(log, <<n, x>>)) = [ParseRegs(log) EXCEPT ![n] = x]
  <1> DEFINE more == Append(log, <<n, x>>)
             len == Len(log)
             of(l, r) == {k \in DOMAIN l : l[k][1] = r}
  <1>1. /\ len \in Nat /\ DOMAIN log = 1 .. len /\ DOMAIN more = 1 .. len + 1
        /\ more \in Seq(RegIndex \X WordValues)
        /\ more[len + 1] = <<n, x>> /\ \A k \in 1 .. len : more[k] = log[k]
    OBVIOUS
  <1> HIDE DEF more, len
  <1>2. ASSUME NEW r \in RegIndex
        PROVE  ParseRegs(more)[r] = IF r = n THEN x ELSE ParseRegs(log)[r]
    <2>1. /\ ParseRegs(more)[r] = IF of(more, r) = {} THEN 0 ELSE more[Max(of(more, r))][2]
          /\ ParseRegs(log)[r] = IF of(log, r) = {} THEN 0 ELSE log[Max(of(log, r))][2]
      BY DEF ParseRegs
    <2>2. CASE r = n
      <3>1. len + 1 \in of(more, r) /\ of(more, r) \in SUBSET (1 .. len + 1)
        BY <1>1, <2>2
      <3>2. \A k \in of(more, r) : len + 1 >= k
        BY <1>1, <3>1
      <3>3. of(more, r) \in SUBSET Int
        BY <3>1
      <3> HIDE DEF of
      <3>4. Max(of(more, r)) = len + 1
        BY <3>1, <3>2, <3>3, MaxIs
      <3> QED
        BY <1>1, <2>1, <2>2, <3>1, <3>4
    <2>3. CASE r # n
      <3>1. of(more, r) = of(log, r)
        BY <1>1, <2>3
      <3>2. of(log, r) \in SUBSET (0 .. len) /\ of(log, r) \in SUBSET (1 .. len)
        BY <1>1
      <3> HIDE DEF of
      <3>3. of(log, r) # {} => Max(of(log, r)) \in 1 .. len
        BY <1>1, <3>2, MaxExists
      <3> QED
        BY <1>1, <2>1, <2>3, <3>1, <3>3
    <2> QED
      BY <2>2, <2>3
  <1>3. /\ ParseRegs(more) = [r \in RegIndex |-> ParseRegs(more)[r]]
        /\ ParseRegs(log) = [r \in RegIndex |-> ParseRegs(log)[r]]
    BY DEF ParseRegs
  <1>4. [ParseRegs(log) EXCEPT ![n] = x]
          = [r \in RegIndex |-> IF r = n THEN x ELSE ParseRegs(log)[r]]
    BY <1>3
  <1>5. ParseRegs(more) = [ParseRegs(log) EXCEPT ![n] = x]
    BY <1>2, <1>3, <1>4
  <1> QED
    BY <1>1, <1>5 DEF more
-------------------------------------------------------------------------------
(* The invariant: what a run of the reference model has come to, and what the  *)
(* simulation beside it has.                                                   *)

Follows ==
    tool = "run_reference" =>
        /\ instructions \in Seq(Word32) /\ pc \in Nat /\ pc % 4 = 0
        /\ regs \in [RegIndex -> Int] /\ hw \in [RegIndex -> WordValues]
        /\ simLog \in Seq(RegIndex \X WordValues) /\ ParseRegs(simLog) = hw
        /\ exact => \A r \in RegIndex : Masked(regs[r]) = hw[r]

LEMMA InitFollows == FlowInit => Follows
  <1> SUFFICES ASSUME FlowInit, tool = "run_reference" PROVE Follows
    BY DEF Follows
  <1>1. input \in Programs /\ RefInit(input, "running")
    BY DEF FlowInit, Init
  <1>2. instructions \in Seq(Word32) /\ pc = 0 /\ regs = [r \in RegIndex |-> 0]
    BY <1>1, ProgramsAssumption DEF RefInit
  <1>3. hw = [r \in RegIndex |-> 0] /\ simLog = <<>>
    BY DEF FlowInit
  <1>4. 0 \in WordValues /\ Masked(0) = 0
    <2>1. 0 \in WordValues
      BY SizeOfWord DEF WordValues, Modulus
    <2> QED
      BY <2>1, MaskedWord
  <1>5. ParseRegs(simLog) = hw
    <2>1. \A r : {k \in DOMAIN <<>> : <<>>[k][1] = r} = {}
      OBVIOUS
    <2> QED
      BY <1>3, <2>1 DEF ParseRegs
  <1> QED
    BY <1>2, <1>3, <1>4, <1>5 DEF Follows

\* The instruction that a turn executes.
LEMMA TurnWord ==
    ASSUME Follows, tool = "run_reference", Running
    PROVE  instructions[pc \div 4 + 1] \in Word32
  <1>1. instructions \in Seq(Word32) /\ pc \in Nat /\ pc < 4 * Len(instructions)
    BY DEF Follows, Running
  <1>2. pc \div 4 + 1 \in 1 .. Len(instructions)
    BY <1>1
  <1> QED
    BY <1>1, <1>2

LEMMA SimulateTyped ==
    ASSUME NEW w, Simulate(w), hw \in [RegIndex -> WordValues],
           simLog \in Seq(RegIndex \X WordValues), ParseRegs(simLog) = hw
    PROVE  /\ hw' \in [RegIndex -> WordValues]
           /\ simLog' \in Seq(RegIndex \X WordValues) /\ ParseRegs(simLog') = hw'
           /\ OpcodeOf(w) \notin {"OP", "OP_IMM"} => hw' = hw
           /\ OpcodeOf(w) \in {"OP", "OP_IMM"} =>
                 hw' = IF Slice(w, 7, 5) = {} THEN hw
                       ELSE [hw EXCEPT ![NumberOf(Slice(w, 7, 5))] = HwValue(w)]
  <1> DEFINE n == NumberOf(Slice(w, 7, 5))
  <1>1. HW!decode(w).rd = Slice(w, 7, 5)
    BY HardwareFields DEF HW!decode
  <1>2. \A lo \in Nat : Slice(w, lo, 5) \in Unsigned(5)
    BY DEF Slice, Unsigned
  <1>3. n \in RegIndex /\ (n = 0 <=> Slice(w, 7, 5) = {})
    BY <1>2, RegisterNumber
  <1>4. CASE OpcodeOf(w) \in {"OP", "OP_IMM"} /\ n # 0
    <2>1. hw' = [hw EXCEPT ![n] = HwValue(w)] /\ simLog' = Append(simLog, <<n, hw'[n]>>)
      BY <1>1, <1>4 DEF Simulate
    <2>2. HwValue(w) \in WordValues
      <3>1. /\ NumberOf(Slice(w, 15, 5)) \in RegIndex /\ NumberOf(Slice(w, 20, 5)) \in RegIndex
        BY <1>2, RegisterNumber
      <3>2. OpcodeOf(w) = "OP_IMM" => Masked(IntOf(HW!i_imm(w))) \in WordValues
        <4>1. HW!i_imm(w) \in Word32
          BY DEF HW!i_imm, HW!Pos, Word32, Pos
        <4> QED
          BY <4>1, ImmediateNumber, MaskedRange
      <3> QED
        BY <1>4, <3>1, <3>2, HardwareValue, AluType
    <2>3. hw'[n] = HwValue(w) /\ hw' \in [RegIndex -> WordValues]
      BY <1>3, <2>1, <2>2
    <2> HIDE DEF n
    <2>4. /\ simLog' \in Seq(RegIndex \X WordValues)
          /\ ParseRegs(simLog') = [ParseRegs(simLog) EXCEPT ![n] = HwValue(w)]
      BY <1>3, <2>1, <2>2, <2>3, ParsedRecord
    <2> QED
      BY <1>3, <1>4, <2>1, <2>3, <2>4 DEF n
  <1>5. CASE ~(OpcodeOf(w) \in {"OP", "OP_IMM"} /\ n # 0)
    BY <1>1, <1>3, <1>5 DEF Simulate
  <1> QED
    BY <1>4, <1>5

\* What a turn of the loop does to the reference model, whatever the instruction.
LEMMA TurnEffect ==
    ASSUME NEW d, ImmediateType(d) \/ RegisterType(d) \/ StoreType(d) \/ BranchType(d)
                    \/ JumpType(d) \/ Unnamed(d) \/ Unknown(d)
    PROVE  \/ UNCHANGED <<regs, pc>>
           \/ d.type = "I" /\ d.funct3 = F000 /\ WriteBack(d, execute_addi(a1(d), IntOf(d.imm)))
           \/ d.type = "R" /\ HasBranch(d) /\ WriteBack(d, RegisterValue(d))
           \/ d.type = "I" /\ d.funct3 \in Shifts /\ Skip
           \/ d.type = "R" /\ ~HasBranch(d) /\ Skip
           \/ d.type = "S" /\ Skip
  BY DEF ImmediateType, RegisterType, StoreType, BranchType, JumpType, Unnamed, Unknown, Raise,
         Shifts

LEMMA TurnFollows ==
    ASSUME Follows, ReferenceTurn PROVE Follows'
  <1> DEFINE w == instructions[pc \div 4 + 1]
             d == decode(w)
  <1>1. tool = "run_reference" /\ tool' = tool /\ Turn /\ d = Current
    BY DEF ReferenceTurn, vars, Current
  <1>2. Running /\ instructions' = instructions /\ w \in Word32
    BY <1>1, TurnWord DEF Turn
  <1>3. /\ instructions \in Seq(Word32) /\ pc \in Nat /\ pc % 4 = 0
        /\ regs \in [RegIndex -> Int] /\ hw \in [RegIndex -> WordValues]
        /\ simLog \in Seq(RegIndex \X WordValues) /\ ParseRegs(simLog) = hw
        /\ exact => \A r \in RegIndex : Masked(regs[r]) = hw[r]
    BY <1>1 DEF Follows
  <1>4. \/ UNCHANGED <<regs, pc>>
        \/ d.type = "I" /\ d.funct3 = F000 /\ WriteBack(d, execute_addi(a1(d), IntOf(d.imm)))
        \/ d.type = "R" /\ HasBranch(d) /\ WriteBack(d, RegisterValue(d))
        \/ d.type = "I" /\ d.funct3 \in Shifts /\ Skip
        \/ d.type = "R" /\ ~HasBranch(d) /\ Skip
        \/ d.type = "S" /\ Skip
    <2>1. \/ ImmediateType(d) \/ RegisterType(d) \/ StoreType(d) \/ BranchType(d)
          \/ JumpType(d) \/ Unnamed(d) \/ Unknown(d)
      BY <1>1 DEF Turn
    <2> HIDE DEF d
    <2> QED
      BY <2>1, TurnEffect, Zenon
  <1>5. pc' # pc => Simulate(w) /\ exact' = (exact /\ Exact(d))
    BY <1>1 DEF ReferenceTurn
  <1>6. CASE UNCHANGED <<regs, pc>>
    BY <1>1, <1>2, <1>3, <1>6 DEF ReferenceTurn, simVars, Follows
  <1>7. /\ d.type = "R" => /\ OpcodeOf(w) = "OP" /\ d.rd = Slice(w, 7, 5) /\ d.rs1 = Slice(w, 15, 5)
                           /\ d.rs2 = Slice(w, 20, 5)
        /\ d.type = "I" => /\ OpcodeOf(w) = "OP_IMM" /\ d.rd = Slice(w, 7, 5)
                           /\ d.rs1 = Slice(w, 15, 5) /\ d.funct3 = Slice(w, 12, 3)
                           /\ d.imm = immI(w)
        /\ d.type \notin {"R", "I"} => OpcodeOf(w) \notin {"OP", "OP_IMM"}
    BY DecodedFields
  <1> HIDE DEF w, d
  <1>8. Simulate(w) =>
           /\ hw' \in [RegIndex -> WordValues]
           /\ simLog' \in Seq(RegIndex \X WordValues) /\ ParseRegs(simLog') = hw'
           /\ OpcodeOf(w) \notin {"OP", "OP_IMM"} => hw' = hw
           /\ OpcodeOf(w) \in {"OP", "OP_IMM"} =>
                 hw' = IF Slice(w, 7, 5) = {} THEN hw
                       ELSE [hw EXCEPT ![NumberOf(Slice(w, 7, 5))] = HwValue(w)]
    BY <1>3, SimulateTyped, Zenon
  <1>9. pc' = pc + 4 => pc' # pc /\ pc' \in Nat /\ pc' % 4 = 0
    BY <1>3
  <1>10. \A lo \in Nat : NumberOf(Slice(w, lo, 5)) \in RegIndex
    <2>1. \A lo \in Nat : Slice(w, lo, 5) \in Unsigned(5)
      BY DEF Slice, Unsigned
    <2> QED
      BY <2>1, RegisterNumber
  \* A value is written back, the same in both once it is masked.
  <1>11. ASSUME NEW value \in Int, WriteBack(d, value), d.type \in {"R", "I"},
                exact' => Masked(value) = HwValue(w)
         PROVE  Follows'
    <2>1. /\ regs' = IF Slice(w, 7, 5) # {} THEN [regs EXCEPT ![NumberOf(Slice(w, 7, 5))] = value]
                     ELSE regs
          /\ pc' = pc + 4 /\ OpcodeOf(w) \in {"OP", "OP_IMM"}
      BY <1>7, <1>11 DEF WriteBack
    <2>2. /\ hw' \in [RegIndex -> WordValues]
          /\ simLog' \in Seq(RegIndex \X WordValues) /\ ParseRegs(simLog') = hw'
          /\ hw' = IF Slice(w, 7, 5) = {} THEN hw
                   ELSE [hw EXCEPT ![NumberOf(Slice(w, 7, 5))] = HwValue(w)]
          /\ exact' => exact
      BY <1>5, <1>8, <1>9, <2>1
    <2>3. regs' \in [RegIndex -> Int]
      BY <1>3, <1>10, <1>11, <2>1
    <2>4. exact' => \A r \in RegIndex : Masked(regs'[r]) = hw'[r]
      <3> SUFFICES ASSUME exact', NEW r \in RegIndex PROVE Masked(regs'[r]) = hw'[r]
        OBVIOUS
      <3>1. Masked(regs[r]) = hw[r]
        BY <1>3, <2>2
      <3>2. CASE Slice(w, 7, 5) = {} \/ r # NumberOf(Slice(w, 7, 5))
        BY <1>3, <2>1, <2>2, <3>1, <3>2
      <3>3. CASE Slice(w, 7, 5) # {} /\ r = NumberOf(Slice(w, 7, 5))
        <4>1. regs'[r] = value /\ hw'[r] = HwValue(w)
          BY <1>3, <2>1, <2>2, <3>3
        <4> QED
          BY <1>11, <4>1
      <3> QED
        BY <3>2, <3>3
    <2> QED
      BY <1>2, <1>3, <1>9, <2>1, <2>2, <2>3, <2>4 DEF Follows, Masked, ParseRegs, WordValues
  <1>12. CASE d.type = "I" /\ d.funct3 = F000 /\ WriteBack(d, execute_addi(a1(d), IntOf(d.imm)))
    <2> DEFINE x == regs[NumberOf(Slice(w, 15, 5))]
    <2>1. x \in Int /\ a1(d) = x /\ IntOf(immI(w)) \in Int
      BY <1>2, <1>3, <1>7, <1>10, <1>12, SameImmediate, ImmediateNumber DEF a1
    <2>2. execute_addi(x, IntOf(immI(w))) \in Int
      BY <2>1 DEF execute_addi
    <2>3. exact' => exact
      BY <1>5, <1>9, <1>12 DEF WriteBack
    <2>4. exact' => hw[NumberOf(Slice(w, 15, 5))] = Masked(x)
      BY <1>3, <1>10, <2>3
    <2> HIDE DEF x
    <2>5. exact' => Masked(execute_addi(x, IntOf(immI(w)))) = HwValue(w)
      BY <1>2, <1>7, <1>12, <2>1, <2>4, SameImmediateValue
    <2> QED
      BY <1>7, <1>11, <1>12, <2>1, <2>2, <2>5
  <1>13. CASE d.type = "R" /\ HasBranch(d) /\ WriteBack(d, RegisterValue(d))
    <2> DEFINE x == regs[NumberOf(Slice(w, 15, 5))]
               y == regs[NumberOf(Slice(w, 20, 5))]
    <2>1. x \in Int /\ a1(d) = x /\ y \in Int /\ b1(d) = y
      BY <1>3, <1>7, <1>10, <1>13 DEF a1, b1
    <2>2. exact' => exact /\ Exact(d)
      BY <1>5, <1>9, <1>13 DEF WriteBack
    <2>3. exact' => /\ hw[NumberOf(Slice(w, 15, 5))] = Masked(x)
                    /\ hw[NumberOf(Slice(w, 20, 5))] = Masked(y)
      BY <1>3, <1>10, <2>2
    <2> HIDE DEF x, y
    <2>4. RegisterValue(d) \in Int
      BY <2>1, ValueType
    <2>5. exact' => Masked(RegisterValue(d)) = HwValue(w)
      BY <1>7, <1>13, <2>1, <2>2, <2>3, SameValue DEF d
    <2> QED
      BY <1>11, <1>13, <2>4, <2>5
  <1>14. CASE Skip /\ (~Exact(d) \/ d.type = "S")
    <2>1. pc' = pc + 4 /\ regs' = regs /\ Simulate(w)
      BY <1>5, <1>9, <1>14 DEF Skip
    <2>2. exact' => exact /\ hw' = hw
      BY <1>5, <1>7, <1>8, <1>9, <1>14, <2>1
    <2> QED
      BY <1>2, <1>3, <1>8, <1>9, <2>1, <2>2 DEF Follows, Masked, ParseRegs, WordValues
  <1>15. (d.type = "I" /\ d.funct3 \in Shifts) \/ (d.type = "R" /\ ~HasBranch(d)) => ~Exact(d)
    BY DEF Exact
  <1> QED
    BY <1>4, <1>6, <1>12, <1>13, <1>14, <1>15

LEMMA StepFollows == Follows /\ [FlowNext]_flowVars => Follows'
  <1> SUFFICES ASSUME Follows, [FlowNext]_flowVars PROVE Follows'
    OBVIOUS
  <1>1. CASE ReferenceTurn
    BY <1>1, TurnFollows
  <1>2. CASE ReferenceEnds
    BY <1>2 DEF ReferenceEnds, LeaveLoop, vars, simVars, Follows
  <1>3. CASE Next /\ UNCHANGED <<refVars, genVars, simVars>>
    BY <1>3 DEF Next, refVars, simVars, Follows
  <1>4. CASE Draw \/ AddInstr
    BY <1>4 DEF Draw, AddInstr, vars, Follows
  <1>5. CASE UNCHANGED flowVars
    BY <1>5 DEF flowVars, vars, refVars, Follows
  <1> QED
    BY <1>1, <1>2, <1>3, <1>4, <1>5 DEF FlowNext

LEMMA Followed == FlowSpec => []Follows
  BY InitFollows, StepFollows, PTL DEF FlowSpec

\* Masked, the registers of the reference model are those of the hardware, whatever
\* program run_reference.py is given, for words of any width, until the program has a
\* shift or an SLT of a value that has outgrown the word.
THEOREM ReferenceFollows == FlowSpec => []ReferenceFollowsHardware
  <1>1. Follows => ReferenceFollowsHardware
    BY DEF Follows, ReferenceFollowsHardware
  <1> QED
    BY <1>1, Followed, PTL

\* On a correct processor, the registers that scoreboard.py reports are those whose
\* reference value is not a word: it compares a masked register with an unmasked one.
THEOREM AlarmsAreFalse == FlowSpec => []FalseAlarms
  <1>1. Follows => FalseAlarms
    <2> SUFFICES ASSUME Follows, tool = "run_reference", exact
                 PROVE  Mismatches(ParseRegs(simLog), regs)
                          = {r \in RegIndex : regs[r] \notin WordValues}
      BY DEF FalseAlarms
    <2>1. ASSUME NEW r \in RegIndex
          PROVE  ParseRegs(simLog)[r] # regs[r] <=> regs[r] \notin WordValues
      <3>1. ParseRegs(simLog)[r] = Masked(regs[r]) /\ regs[r] \in Int
        BY DEF Follows
      <3> QED
        BY <3>1, MaskedRange, MaskedWord
    <2> QED
      BY <2>1 DEF Mismatches
  <1> QED
    BY <1>1, Followed, PTL
================================================================================
