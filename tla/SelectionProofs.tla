-------------------------- MODULE SelectionProofs ---------------------------
(***************************************************************************)
(* What the bitset index answers, for any width of a word, any loads of    *)
(* any length, any requests and any pacing weights.                        *)
(*                                                                         *)
(* The argument: `InBucket` and `Intersection` say which ads the words     *)
(* stand for, `CandidatesFit` that the candidates are the ads whose rows   *)
(* fit the derived request, `FitsEligible` that these are the eligible     *)
(* ones, and `SelectAnswers` that a best one is drawn.  `SearchEnds` finds *)
(* the points of the draw that end at an ad, and `ShareOf` that these are  *)
(* the points that answer a request with it.                               *)
(*                                                                         *)
(* Induction over a finite set or a range is by its smallest               *)
(* counterexample, which `SmallestExists` and the well-foundedness of      *)
(* subsets provide.                                                        *)
(***************************************************************************)
EXTENDS Selection, FiniteSetTheorems, TLAPS

-----------------------------------------------------------------------------
(* A finite set has an element where a function on it is least.            *)
LEMMA SmallestExists ==
  ASSUME NEW S, IsFiniteSet(S), S # {}, NEW f, \A x \in S : f[x] \in Int
  PROVE  \E a \in S : \A b \in S : f[a] <= f[b]
<1> DEFINE below(a) == {b \in S : f[b] < f[a]}
           T == {below(a) : a \in S}
<1>1. T \subseteq FiniteSubsetsOf(S) /\ T # {}
  <2>1. FiniteSubsetsOf(S) = SUBSET S
    BY FS_FiniteSubsetsOfFinite
  <2>2. \A a : below(a) \in SUBSET S
    OBVIOUS
  <2> HIDE DEF below
  <2> QED BY <2>1, <2>2
<1>2. PICK U \in T : \A V \in T : <<V, U>> \notin StrictSubsetOrdering(S)
  <2> HIDE DEF T
  <2>1. IsWellFoundedOn(StrictSubsetOrdering(S), FiniteSubsetsOf(S))
    BY FS_StrictSubsetOrderingWellFounded
  <2> QED BY <1>1, <2>1, WFMin
<1>3. PICK a \in S : U = below(a)
  OBVIOUS
<1>4. ASSUME NEW b \in S, f[b] < f[a] PROVE FALSE
  <2>1. below(b) \subseteq below(a) /\ b \in below(a) /\ b \notin below(b)
    BY <1>4
  <2>2. below(b) \in T
    OBVIOUS
  <2>3. <<below(b), below(a)>> \in StrictSubsetOrdering(S)
    BY <2>1 DEF StrictSubsetOrdering
  <2> QED BY <1>2, <1>3, <2>2, <2>3
<1> QED BY <1>4

LEMMA LeastExists ==
  ASSUME NEW S \in SUBSET Int, IsFiniteSet(S), S # {}
  PROVE  \E n \in S : \A m \in S : n <= m
<1> DEFINE f == [m \in S |-> m]
<1>1. \A m \in S : f[m] = m /\ f[m] \in Int
  OBVIOUS
<1> HIDE DEF f
<1>2. PICK n \in S : \A m \in S : f[n] <= f[m]
  BY <1>1, SmallestExists
<1>3. \A m \in S : n <= m
  BY <1>1, <1>2
<1> QED BY <1>3

LEMMA GreatestExists ==
  ASSUME NEW S \in SUBSET Int, IsFiniteSet(S), S # {}
  PROVE  \E n \in S : \A m \in S : m <= n
<1> DEFINE f == [m \in S |-> -m]
<1>1. \A m \in S : f[m] = -m /\ f[m] \in Int
  OBVIOUS
<1> HIDE DEF f
<1>2. PICK n \in S : \A m \in S : f[n] <= f[m]
  BY <1>1, SmallestExists
<1>3. \A m \in S : m <= n
  BY <1>1, <1>2
<1> QED BY <1>3

(* The n-th smallest element: n - 1 others lie below it.                   *)
LEMMA RankExists ==
  ASSUME NEW S \in SUBSET Int, IsFiniteSet(S), NEW n \in 1..Cardinality(S)
  PROVE  \E i \in S : Cardinality({j \in S : j < i}) = n - 1
<1> DEFINE Ranked(J) == \A k \in 1..Cardinality(J) :
                          \E i \in J : Cardinality({j \in J : j < i}) = k - 1
           T == {J \in SUBSET S : ~Ranked(J)}
<1>1. Ranked({})
  BY FS_EmptySet
<1>2. ASSUME NEW J \in SUBSET S, J # {}, \A i \in J : Ranked(J \ {i}) PROVE Ranked(J)
  <2>1. IsFiniteSet(J) /\ Cardinality(J) \in Nat
    BY FS_Subset, FS_CardinalityType
  <2>2. PICK m \in J : \A j \in J : j <= m
    BY <1>2, <2>1, GreatestExists
  <2> DEFINE K == J \ {m}
  <2>3. Cardinality(K) = Cardinality(J) - 1
    BY <2>1, FS_RemoveElement
  <2>4. Ranked(K)
    BY <1>2
  <2> SUFFICES ASSUME NEW k \in 1..Cardinality(J)
               PROVE  \E i \in J : Cardinality({j \in J : j < i}) = k - 1
    OBVIOUS
  <2>5. CASE k = Cardinality(J)
    <3>1. \A j \in J : j < m <=> j # m
      BY <2>2
    <3>2. {j \in J : j < m} = K
      BY <3>1
    <3> QED BY <2>3, <2>5, <3>2
  <2>6. CASE k # Cardinality(J)
    <3>1. k \in 1..Cardinality(K)
      BY <2>1, <2>3, <2>6
    <3>2. PICK i \in K : Cardinality({j \in K : j < i}) = k - 1
      BY <2>4, <3>1
    <3>3. {j \in K : j < i} = {j \in J : j < i}
      BY <2>2
    <3> QED BY <3>2, <3>3
  <2> QED BY <2>5, <2>6
<1>3. T = {}
  <2> SUFFICES ASSUME T # {} PROVE FALSE
    OBVIOUS
  <2>1. T \subseteq FiniteSubsetsOf(S)
    BY FS_FiniteSubsetsOfFinite
  <2>2. PICK J \in T : \A K \in T : <<K, J>> \notin StrictSubsetOrdering(S)
    <3> HIDE DEF T
    <3> QED BY <2>1, FS_StrictSubsetOrderingWellFounded, WFMin
  <2>3. J \in SUBSET S /\ ~Ranked(J)
    BY <2>2
  <2> HIDE DEF Ranked
  <2>4. J # {}
    BY <1>1, <2>3
  <2>5. PICK i \in J : ~Ranked(J \ {i})
    BY <1>2, <2>3, <2>4
  <2>6. J \ {i} \in T
    BY <2>3, <2>5
  <2>7. <<J \ {i}, J>> \in StrictSubsetOrdering(S)
    BY <2>3, <2>5 DEF StrictSubsetOrdering
  <2> QED BY <2>2, <2>6, <2>7
<1>4. Ranked(S)
  BY <1>3
<1> QED BY <1>4

(* Ascending visits elements of its set, as many as there are.             *)
LEMMA AscendingVisits ==
  ASSUME NEW S \in SUBSET Int, IsFiniteSet(S), NEW n \in 1..Cardinality(S)
  PROVE  Ascending(S)[n] \in S
<1>1. \E i \in S : Cardinality({j \in S : j < i}) = n - 1
  BY RankExists
<1>2. Ascending(S)[n] = CHOOSE i \in S : Cardinality({j \in S : j < i}) = n - 1
  BY DEF Ascending
<1> QED BY <1>1, <1>2

(* Its n-th entry is the element that n - 1 others lie below.              *)
LEMMA AscendingRanks ==
  ASSUME NEW S \in SUBSET Int, IsFiniteSet(S), NEW i \in S
  PROVE  \E n \in 1..Cardinality(S) :
           \A m \in 1..Cardinality(S) : Ascending(S)[m] = i <=> m = n
<1> DEFINE below(a) == {j \in S : j < a}
<1>0. PICK rank : \A a \in S : rank[a] = Cardinality(below(a))
  <2> DEFINE r == [a \in S |-> Cardinality(below(a))]
  <2>1. \A a \in S : r[a] = Cardinality(below(a))
    OBVIOUS
  <2> HIDE DEF r
  <2> QED BY <2>1
<1>1. \A a \in S : a \in Int /\ IsFiniteSet(below(a)) /\ rank[a] \in Nat
  <2> SUFFICES ASSUME NEW a \in S PROVE a \in Int /\ IsFiniteSet(below(a)) /\ rank[a] \in Nat
    OBVIOUS
  <2>1. below(a) \subseteq S /\ a \in Int
    OBVIOUS
  <2> HIDE DEF below
  <2> QED BY <1>0, <2>1, FS_Subset, FS_CardinalityType
<1>2. ASSUME NEW b \in S, NEW J \in SUBSET S, below(b) \subseteq J, b \in J
      PROVE  rank[b] < Cardinality(J) /\ Cardinality(J) \in Nat
  <2>1. IsFiniteSet(J) /\ Cardinality(J) \in Nat
    BY FS_Subset, FS_CardinalityType
  <2>2. b \notin below(b)
    OBVIOUS
  <2> HIDE DEF below
  <2>3. below(b) \subseteq J \ {b} /\ IsFiniteSet(J \ {b})
    BY <1>2, <2>1, <2>2, FS_RemoveElement
  <2>4. Cardinality(J \ {b}) = Cardinality(J) - 1
    BY <1>2, <2>1, FS_RemoveElement
  <2>5. rank[b] <= Cardinality(J \ {b})
    BY <1>0, <2>3, FS_Subset
  <2> QED BY <1>1, <2>1, <2>4, <2>5
<1>3. ASSUME NEW a \in S, NEW b \in S, a < b PROVE rank[a] < rank[b]
  <2>1. \A x, y, z \in Int : x < y /\ y < z => x < z
    OBVIOUS
  <2>2. below(a) \subseteq below(b) /\ a \in below(b) /\ below(b) \in SUBSET S
    BY <1>1, <1>3, <2>1
  <2> HIDE DEF below
  <2> QED BY <1>0, <1>2, <2>2
<1>4. rank[i] < Cardinality(S) /\ Cardinality(S) \in Nat
  <2>1. below(i) \subseteq S
    OBVIOUS
  <2> HIDE DEF below
  <2> QED BY <1>2, <2>1
<1>5. \A m \in 1..Cardinality(S) : Ascending(S)[m] \in S /\ rank[Ascending(S)[m]] = m - 1
  <2> SUFFICES ASSUME NEW m \in 1..Cardinality(S)
               PROVE  Ascending(S)[m] \in S /\ rank[Ascending(S)[m]] = m - 1
    OBVIOUS
  <2>1. \E a \in S : Cardinality(below(a)) = m - 1
    BY RankExists
  <2>2. Ascending(S)[m] = CHOOSE a \in S : Cardinality(below(a)) = m - 1
    BY DEF Ascending
  <2> HIDE DEF below
  <2> QED BY <1>0, <2>1, <2>2
<1> HIDE DEF below
<1> DEFINE n == rank[i] + 1
<1>6. n \in 1..Cardinality(S)
  BY <1>1, <1>4
<1>7. ASSUME NEW m \in 1..Cardinality(S) PROVE Ascending(S)[m] = i <=> m = n
  <2>1. m = n <=> m - 1 = rank[i]
    BY <1>1, <1>4
  <2>2. ASSUME NEW a \in S, rank[a] = rank[i] PROVE a = i
    BY <1>1, <1>3, <2>2
  <2> QED BY <1>5, <2>1, <2>2
<1> QED BY <1>6, <1>7

-----------------------------------------------------------------------------
(***************************************************************************)
(* Words.                                                                  *)
(***************************************************************************)
LEMMA Division ==
  ASSUME NEW j \in Nat
  PROVE  /\ j \div WordBits \in Nat /\ j % WordBits \in 0..(WordBits - 1)
         /\ j = (j \div WordBits) * WordBits + (j % WordBits)
<1>1. WordBits \in Nat \ {0}
  BY SelectionAssumption
<1> QED BY <1>1

LEMMA Composition ==
  ASSUME NEW w \in Nat, NEW b \in 0..(WordBits - 1)
  PROVE  /\ w * WordBits + b \in Nat
         /\ (w * WordBits + b) \div WordBits = w /\ (w * WordBits + b) % WordBits = b
<1>1. WordBits \in Nat \ {0}
  BY SelectionAssumption
<1> QED BY <1>1

(* The bits of a word are the members of the set it is filled from.        *)
LEMMA BitsOf ==
  ASSUME NEW size \in Nat, NEW is \in SUBSET Nat, NEW w \in 0..(size - 1)
  PROVE  SetAll(NewBitset(size), is)[w] = {b \in 0..(WordBits - 1) : w * WordBits + b \in is}
<1>1. SetAll(NewBitset(size), is)[w] = {i % WordBits : i \in {j \in is : j \div WordBits = w}}
  BY DEF SetAll, NewBitset
<1>2. ASSUME NEW i \in is, i \div WordBits = w
      PROVE  i % WordBits \in 0..(WordBits - 1) /\ w * WordBits + (i % WordBits) \in is
  BY <1>2, Division
<1>3. ASSUME NEW b \in 0..(WordBits - 1), w * WordBits + b \in is
      PROVE  \E i \in {j \in is : j \div WordBits = w} : i % WordBits = b
  <2>1. (w * WordBits + b) \div WordBits = w /\ (w * WordBits + b) % WordBits = b
    BY Composition
  <2> QED BY <1>3, <2>1
<1> DEFINE on == {i % WordBits : i \in {j \in is : j \div WordBits = w}}
           bits == {b \in 0..(WordBits - 1) : w * WordBits + b \in is}
<1>4. on \subseteq bits
  BY <1>2
<1>5. bits \subseteq on
  BY <1>3
<1> QED BY <1>1, <1>4, <1>5

LEMMA SetAllDomain ==
  ASSUME NEW size, NEW is
  PROVE  DOMAIN SetAll(NewBitset(size), is) = 0..(size - 1)
BY DEF SetAll, NewBitset

(* The AND of three bitsets is the bitset of the intersection.             *)
IsAnd(and, n, size, P, C, D) ==
  /\ n \in Nat /\ size \in Nat /\ n <= size * WordBits
  /\ P \subseteq 0..(n - 1) /\ C \subseteq 0..(n - 1) /\ D \subseteq 0..(n - 1)
  /\ DOMAIN and = 0..(size - 1)
  /\ \A w \in 0..(size - 1) : and[w] = SetAll(NewBitset(size), P)[w]
                                         \cap SetAll(NewBitset(size), C)[w]
                                         \cap SetAll(NewBitset(size), D)[w]

LEMMA Intersection ==
  ASSUME NEW and, NEW n, NEW size, NEW P, NEW C, NEW D, IsAnd(and, n, size, P, C, D)
  PROVE  ForEach(and) = P \cap C \cap D
<1>0. /\ n \in Nat /\ size \in Nat /\ n <= size * WordBits
      /\ P \subseteq 0..(n - 1) /\ C \subseteq 0..(n - 1) /\ D \subseteq 0..(n - 1)
  BY DEF IsAnd
<1> DEFINE p == SetAll(NewBitset(size), P)
           c == SetAll(NewBitset(size), C)
           d == SetAll(NewBitset(size), D)
<1>1. P \in SUBSET Nat /\ C \in SUBSET Nat /\ D \in SUBSET Nat
  BY <1>0
<1>2. \A w \in 0..(size - 1) : \A b : b \in and[w] <=>
        /\ b \in 0..(WordBits - 1)
        /\ w * WordBits + b \in P \cap C \cap D
  <2> SUFFICES ASSUME NEW w \in 0..(size - 1) PROVE
        and[w] = {b \in 0..(WordBits - 1) : w * WordBits + b \in P \cap C \cap D}
    OBVIOUS
  <2>1. p[w] = {b \in 0..(WordBits - 1) : w * WordBits + b \in P}
    BY <1>0, <1>1, BitsOf
  <2>2. c[w] = {b \in 0..(WordBits - 1) : w * WordBits + b \in C}
    BY <1>0, <1>1, BitsOf
  <2>3. d[w] = {b \in 0..(WordBits - 1) : w * WordBits + b \in D}
    BY <1>0, <1>1, BitsOf
  <2>4. and[w] = p[w] \cap c[w] \cap d[w]
    BY DEF IsAnd
  <2> HIDE DEF p, c, d
  <2> QED BY <2>1, <2>2, <2>3, <2>4
<1>4. ASSUME NEW i \in ForEach(and) PROVE i \in P \cap C \cap D
  <2>1. PICK w \in 0..(size - 1) : \E b \in and[w] : i = w * WordBits + b
    BY <1>4 DEF ForEach, IsAnd
  <2> QED BY <1>2, <2>1
<1>5. ASSUME NEW i \in P \cap C \cap D PROVE i \in ForEach(and)
  <2> DEFINE w == i \div WordBits
             b == i % WordBits
  <2>1. i \in Nat /\ i < n /\ w \in Nat /\ b \in 0..(WordBits - 1) /\ i = w * WordBits + b
    BY <1>0, Division
  <2>2. WordBits \in Nat /\ WordBits # 0
    BY SelectionAssumption
  <2> HIDE DEF w, b
  <2>3. w < size
    <3>1. w * WordBits < size * WordBits
      BY <1>0, <2>1, <2>2
    <3>2. \A x, y \in Nat : x * WordBits < y * WordBits => x < y
      BY <2>2
    <3> QED BY <1>0, <2>1, <3>1, <3>2
  <2>4. w \in 0..(size - 1) /\ b \in and[w]
    BY <1>0, <1>2, <2>1, <2>3
  <2> QED BY <2>1, <2>4 DEF ForEach, IsAnd
<1> QED BY <1>4, <1>5

-----------------------------------------------------------------------------
(***************************************************************************)
(* Buckets and snapshots.                                                  *)
(***************************************************************************)
Admitting(targets, k) == {i \in DOMAIN targets : Admits(targets[i], k)}

(* The bitset of a set of ads, or nil where nothing is stored under a key. *)
Stored(size, is) == IF is = {} THEN Nil ELSE SetAll(NewBitset(size), is)

LEMMA Normalised ==
  ASSUME NEW row \in Row
  PROVE  /\ normaliseCountries(row.countries) \subseteq Code \ {Blank, Wildcard}
         /\ normaliseDevices(row.devices) \subseteq Device
         /\ Device \subseteq Code \ {Blank, Wildcard}
<1>1. row.countries \in {Null} \cup SUBSET Country /\ row.devices \in {Null} \cup SUBSET Code
  BY DEF Row
<1>2. \A c \in Country : Canonical[c] \in Code /\ Canonical[c] # Wildcard
  BY SelectionAssumption DEF Country
<1>3. Device \subseteq Code
  BY SelectionAssumption DEF Device
<1>4. Blank \notin Device /\ Wildcard \notin Device
  BY SelectionAssumption
<1> QED BY <1>1, <1>2, <1>3, <1>4 DEF normaliseCountries, normaliseDevices

(* A lookup gives the ads that admit the value: an ad without a list is in *)
(* every bucket, and in the wildcard's if it is the only one.  A request   *)
(* that names the wildcard finds just these.                               *)
LEMMA InBucket ==
  ASSUME NEW t, NEW size \in Nat, NEW k \in Code,
         \A i \in DOMAIN t : t[i] \subseteq Code \ {Blank, Wildcard}
  PROVE  Matching(Buckets(t, size), k) = Stored(size, Admitting(t, k))
<1> DEFINE B == Buckets(t, size)
<1>0. Wildcard # Blank
  BY SelectionAssumption
<1>1. DOMAIN B = Keys(t)
  BY DEF Buckets
<1>2. \A key \in Keys(t) :
        B[key] = SetAll(NewBitset(size), Wild(t) \cup {i \in DOMAIN t : key \in t[i]})
  BY DEF Buckets
<1>3. Admitting(t, k) = Wild(t) \cup {i \in DOMAIN t : k \in t[i]}
  BY DEF Admitting, Admits, Wild
<1>4. {i \in DOMAIN t : Wildcard \in t[i]} = {}
  OBVIOUS
<1>5. Wildcard \in Keys(t) <=> Wild(t) # {}
  BY DEF Keys
<1> HIDE DEF B
<1>6. CASE k # Blank /\ k \in Keys(t)
  <2>1. Admitting(t, k) # {}
    <3>1. CASE k = Wildcard
      BY <1>3, <1>5, <1>6, <3>1
    <3>2. CASE k # Wildcard
      <4>1. \E i \in DOMAIN t : k \in t[i]
        BY <1>6, <3>2 DEF Keys
      <4> QED BY <1>3, <4>1
    <3> QED BY <3>1, <3>2
  <2> QED BY <1>1, <1>2, <1>3, <1>6, <2>1 DEF Matching, Stored, B
<1>7. CASE ~(k # Blank /\ k \in Keys(t))
  <2>1. {i \in DOMAIN t : k \in t[i]} = {}
    BY <1>7 DEF Keys
  <2>2. Matching(B, k) = IF Wildcard \in Keys(t) THEN B[Wildcard] ELSE Nil
    BY <1>1, <1>7 DEF Matching
  <2>3. CASE Wild(t) = {}
    BY <1>3, <1>5, <2>1, <2>2, <2>3 DEF Stored, B
  <2>4. CASE Wild(t) # {}
    <3>1. B[Wildcard] = SetAll(NewBitset(size), Wild(t))
      BY <1>2, <1>4, <1>5, <2>4
    <3> QED BY <1>3, <1>5, <2>1, <2>2, <2>4, <3>1 DEF Stored, B
  <2> QED BY <2>3, <2>4
<1> QED BY <1>6, <1>7

At(s, pos)       == {i \in DOMAIN s.ads : s.ads[i].pos = pos}
In(s, country)   == {i \in DOMAIN s.ads : Admits(normaliseCountries(s.ads[i].countries), country)}
On(s, device)    == {i \in DOMAIN s.ads : Admits(normaliseDevices(s.ads[i].devices), device)}

(* What a lookup in a snapshot answers.                                    *)
Indexes(s) ==
  /\ \E n \in Nat : /\ s.ads \in [0..(n - 1) -> Row]
                    /\ n <= s.bitsetSize * WordBits
                    /\ n > 0 => s.bitsetSize > 0
  /\ s.bitsetSize \in Nat
  /\ \A pos : MatchingPosition(s, pos) = Stored(s.bitsetSize, At(s, pos))
  /\ \A c \in Code : Matching(s.byCountry, c) = Stored(s.bitsetSize, In(s, c))
  /\ \A d \in Code : Matching(s.byDevice, d) = Stored(s.bitsetSize, On(s, d))

LEMMA SnapshotIndexes ==
  ASSUME NEW rows \in Seq(Row)
  PROVE  Indexes(buildSnapshot(rows))
<1> DEFINE n == Len(rows)
           size == (n + WordBits - 1) \div WordBits
           ads == [i \in 0..(n - 1) |-> rows[i + 1]]
           tc == [i \in DOMAIN ads |-> normaliseCountries(ads[i].countries)]
           td == [i \in DOMAIN ads |-> normaliseDevices(ads[i].devices)]
           pos == [p \in {ads[i].pos : i \in DOMAIN ads} |->
                     SetAll(NewBitset(size), {i \in DOMAIN ads : ads[i].pos = p})]
           s == buildSnapshot(rows)
<1>1. /\ s.ads = ads /\ s.bitsetSize = size /\ s.byPosition = pos
      /\ s.byCountry = Buckets(tc, size) /\ s.byDevice = Buckets(td, size)
  BY DEF buildSnapshot
<1>2. n \in Nat /\ size \in Nat /\ n <= size * WordBits /\ (n > 0 => size > 0)
  <2>1. WordBits \in Nat \ {0}
    BY SelectionAssumption
  <2>2. n \in Nat
    OBVIOUS
  <2> HIDE DEF n
  <2> QED BY <2>1, <2>2
<1>3. ads \in [0..(n - 1) -> Row] /\ DOMAIN ads = 0..(n - 1)
  <2>1. \A i \in 0..(n - 1) : rows[i + 1] \in Row
    OBVIOUS
  <2> QED BY <2>1
<1>4. \A i \in DOMAIN ads : ads[i] \in Row
  BY <1>3
<1> HIDE DEF s, ads, size, n
<1>5. \A p : MatchingPosition(s, p) = Stored(size, At(s, p))
  <2> SUFFICES ASSUME NEW p PROVE MatchingPosition(s, p) = Stored(size, At(s, p))
    OBVIOUS
  <2>1. At(s, p) = {i \in DOMAIN ads : ads[i].pos = p}
    BY <1>1 DEF At
  <2>2. p \in DOMAIN pos <=> At(s, p) # {}
    BY <2>1
  <2>3. p \in DOMAIN pos => pos[p] = SetAll(NewBitset(size), At(s, p))
    BY <2>1
  <2> HIDE DEF pos
  <2> QED BY <1>1, <2>2, <2>3 DEF MatchingPosition, Stored
<1>6. \A c \in Code : Matching(s.byCountry, c) = Stored(size, In(s, c))
  <2> SUFFICES ASSUME NEW c \in Code PROVE Matching(s.byCountry, c) = Stored(size, In(s, c))
    OBVIOUS
  <2>1. \A i \in DOMAIN tc : tc[i] \subseteq Code \ {Blank, Wildcard}
    BY <1>4, Normalised
  <2>2. In(s, c) = Admitting(tc, c)
    BY <1>1 DEF In, Admitting
  <2> HIDE DEF tc
  <2> QED BY <1>1, <1>2, <2>1, <2>2, InBucket
<1>7. \A d \in Code : Matching(s.byDevice, d) = Stored(size, On(s, d))
  <2> SUFFICES ASSUME NEW d \in Code PROVE Matching(s.byDevice, d) = Stored(size, On(s, d))
    OBVIOUS
  <2>1. \A i \in DOMAIN td : td[i] \subseteq Code \ {Blank, Wildcard}
    BY <1>4, Normalised
  <2>2. On(s, d) = Admitting(td, d)
    BY <1>1 DEF On, Admitting
  <2> HIDE DEF td
  <2> QED BY <1>1, <1>2, <2>1, <2>2, InBucket
<1>8. Indexes(s)
  BY <1>1, <1>2, <1>3, <1>5, <1>6, <1>7 DEF Indexes
<1> QED BY <1>8 DEF s

-----------------------------------------------------------------------------
(***************************************************************************)
(* Candidates.                                                             *)
(***************************************************************************)
(* What Select asks of an ad, read off its row.                            *)
Fits(row, q) ==
  /\ row.pos = q.pos
  /\ Admits(normaliseCountries(row.countries), q.country)
  /\ Admits(normaliseDevices(row.devices), q.device)
  /\ q.pos = "mid" => InWindow(row.offset, q)

LEMMA CandidatesFit ==
  ASSUME NEW s, Indexes(s), NEW q, q.country \in Code, q.device \in Code, NEW ex
  PROVE  Found(s, q, ex) = {i \in DOMAIN s.ads \ ex : Fits(s.ads[i], q)}
<1> DEFINE size == s.bitsetSize
           P == At(s, q.pos)
           C == In(s, q.country)
           D == On(s, q.device)
<1>1. PICK n \in Nat : /\ s.ads \in [0..(n - 1) -> Row]
                       /\ n <= size * WordBits
                       /\ n > 0 => size > 0
  BY DEF Indexes
<1>2. size \in Nat
  BY DEF Indexes
<1>3. /\ MatchingPosition(s, q.pos) = Stored(size, P)
      /\ Matching(s.byCountry, q.country) = Stored(size, C)
      /\ Matching(s.byDevice, q.device) = Stored(size, D)
  BY DEF Indexes
<1>4. DOMAIN s.ads = 0..(n - 1)
  BY <1>1
<1>5. P \in SUBSET (0..(n - 1)) /\ C \in SUBSET (0..(n - 1)) /\ D \in SUBSET (0..(n - 1))
  BY <1>4 DEF At, In, On
<1>6. \A i \in DOMAIN s.ads : Fits(s.ads[i], q) <=>
        /\ i \in P \cap C \cap D
        /\ q.pos = "mid" => InWindow(s.ads[i].offset, q)
  BY DEF Fits, At, In, On
<1> HIDE DEF P, C, D
<1>7. CASE ~Indexed(s, q)
  <2>1. DOMAIN s.ads = {} \/ P = {} \/ C = {} \/ D = {}
    <3> SUFFICES ASSUME DOMAIN s.ads # {}, P # {}, C # {}, D # {} PROVE Indexed(s, q)
      BY <1>7
    <3>1. size > 0
      BY <1>1, <1>4
    <3>2. \A is : SetAll(NewBitset(size), is) # Nil
      <4> SUFFICES ASSUME NEW is PROVE SetAll(NewBitset(size), is) # Nil
        OBVIOUS
      <4>1. DOMAIN SetAll(NewBitset(size), is) = 0..(size - 1)
        BY SetAllDomain
      <4>2. 0 \in 0..(size - 1)
        BY <1>2, <3>1
      <4>3. DOMAIN Nil = {}
        BY DEF Nil
      <4> QED BY <4>1, <4>2, <4>3
    <3> QED BY <1>3, <3>2 DEF Indexed, Stored
  <2>2. \A i \in DOMAIN s.ads : ~Fits(s.ads[i], q)
    BY <1>6, <2>1
  <2> QED BY <1>7, <2>2 DEF Found
<1>8. CASE Indexed(s, q)
  <2>1. /\ MatchingPosition(s, q.pos) = SetAll(NewBitset(size), P)
        /\ Matching(s.byCountry, q.country) = SetAll(NewBitset(size), C)
        /\ Matching(s.byDevice, q.device) = SetAll(NewBitset(size), D)
    BY <1>3, <1>8 DEF Indexed, Stored
  <2>2. DOMAIN reset(size) = 0..(size - 1)
    BY DEF reset, NewBitset
  <2>3. IsAnd(Intersect(s, q), n, size, P, C, D)
    <3>1. \A w \in 0..(size - 1) : w < s.bitsetSize
      BY <1>2
    <3> QED BY <1>1, <1>2, <1>5, <2>1, <2>2, <3>1 DEF Intersect, IsAnd
  <2>4. ForEach(Intersect(s, q)) = P \cap C \cap D
    BY <2>3, Intersection
  <2>5. Candidates(s, q, ex) = {i \in (P \cap C \cap D) \ ex :
                                  (q.pos = "mid" /\ i \in DOMAIN s.ads) => InWindow(s.ads[i].offset, q)}
    BY <2>4 DEF Candidates
  <2> QED BY <1>4, <1>5, <1>6, <1>8, <2>5 DEF Found
<1> QED BY <1>7, <1>8

(* Whatever the query, the derived request names a known device or none.   *)
LEMMA Derived ==
  ASSUME NEW raw \in Query
  PROVE  /\ Derive(raw).pos = defaultStr(raw.pos, "pre")
         /\ Derive(raw).pos = "mid" <=> raw.pos = "mid"
         /\ Derive(raw).offset = parseInt32(raw.offset)
         /\ parseInt32(raw.offset) \in Int32
         /\ Derive(raw).country = IF raw.country = Blank THEN CountryISO(raw.address) ELSE raw.country
         /\ Derive(raw).country \in Code
         /\ Derive(raw).device = IF raw.device # Blank THEN NormaliseDevice(raw.device)
                                                       ELSE ClassifyUA(raw.agent)
<1>1. Blank # "mid"
  BY SelectionAssumption
<1>2. 0 \in Int32
  <2>1. Int32Max \in Nat
    BY SelectionAssumption
  <2> QED BY <2>1 DEF Int32
<1>3. CountryISO(raw.address) \in Code
  BY SelectionAssumption DEF CountryISO, Query
<1>4. raw.country \in Code
  BY DEF Query
<1> QED BY <1>1, <1>2, <1>3, <1>4 DEF Derive, defaultStr, parseInt32

(* The first pattern that matches is the device, as IsDevice has it.       *)
LEMMA DeviceOf ==
  ASSUME NEW raw \in Query
  PROVE  /\ Derive(raw).device \in Device \cup {Blank}
         /\ \A d \in Device : Derive(raw).device = d <=> IsDevice(raw, d)
<1>1. Derive(raw).device = IF raw.device # Blank THEN NormaliseDevice(raw.device)
                                                 ELSE ClassifyUA(raw.agent)
  BY Derived
<1>2. Blank \notin Device
  BY SelectionAssumption
<1>3. CASE raw.device # Blank
  BY <1>1, <1>2, <1>3 DEF NormaliseDevice, IsDevice
<1>4. CASE raw.device = Blank /\ raw.agent = {}
  BY <1>1, <1>2, <1>4 DEF ClassifyUA, IsDevice
<1>5. CASE raw.device = Blank /\ raw.agent # {}
  <2> DEFINE is == {i \in DOMAIN Classifiers : Classifiers[i] \in raw.agent}
  <2>1. raw.agent \subseteq Device
    BY DEF Query
  <2>2. is # {}
    BY <1>5, <2>1 DEF Device
  <2>3. DOMAIN Classifiers = 1..Len(Classifiers) /\ Len(Classifiers) \in Nat
    BY SelectionAssumption
  <2>4. is \in SUBSET Int /\ IsFiniteSet(is)
    <3>1. is \subseteq 1..Len(Classifiers)
      BY <2>3
    <3>2. IsFiniteSet(1..Len(Classifiers))
      BY <2>3, FS_Interval
    <3>3. is \in SUBSET Int
      BY <3>1
    <3> HIDE DEF is
    <3>4. IsFiniteSet(is)
      BY <3>1, <3>2, FS_Subset
    <3> QED BY <3>3, <3>4
  <2>5. \E i \in is : \A j \in is : i <= j
    <3> HIDE DEF is
    <3> QED BY <2>2, <2>4, LeastExists
  <2> DEFINE first == CHOOSE i \in is : \A j \in is : i <= j
  <2>6. first \in is /\ \A j \in is : first <= j
    <3> HIDE DEF is
    <3> QED BY <2>5
  <2>7. Derive(raw).device = Classifiers[first]
    BY <1>1, <1>5 DEF ClassifyUA
  <2> HIDE DEF first
  <2>8. first \in DOMAIN Classifiers /\ Classifiers[first] \in raw.agent
    BY <2>6
  <2>9. \A j \in 1..(first - 1) : Classifiers[j] \notin raw.agent
    <3> SUFFICES ASSUME NEW j \in 1..(first - 1), Classifiers[j] \in raw.agent PROVE FALSE
      OBVIOUS
    <3>1. j \in DOMAIN Classifiers /\ first \in Int /\ j < first
      BY <2>3, <2>8
    <3>2. j \in is
      BY <3>1
    <3>3. first <= j
      BY <2>6, <3>2
    <3> QED BY <3>1, <3>3
  <2>10. ASSUME NEW d \in Device, IsDevice(raw, d) PROVE d = Classifiers[first]
    <3>1. PICK i \in DOMAIN Classifiers :
            /\ d = Classifiers[i] /\ d \in raw.agent
            /\ \A j \in 1..(i - 1) : Classifiers[j] \notin raw.agent
      BY <1>5, <2>10 DEF IsDevice
    <3>2. i \in is
      BY <3>1
    <3>3. first <= i
      BY <2>6, <3>2
    <3>4. first \notin 1..(i - 1)
      BY <2>8, <3>1
    <3>5. first = i
      BY <2>3, <2>8, <3>1, <3>3, <3>4
    <3> QED BY <3>1, <3>5
  <2>11. IsDevice(raw, Classifiers[first])
    BY <1>5, <2>8, <2>9 DEF IsDevice
  <2>12. Classifiers[first] \in Device
    BY <2>8 DEF Device
  <2> QED BY <2>7, <2>10, <2>11, <2>12
<1> QED BY <1>3, <1>4, <1>5

(* A window that wraps around admits nothing, one that does not is the     *)
(* tolerance.                                                              *)
LEMMA Window ==
  ASSUME NEW off \in Int32, NEW q, q.offset \in Int32
  PROVE  /\ InWindow(off, q) => off - q.offset \in -Tolerance..Tolerance
         /\ (/\ q.offset - Tolerance \in Int32 /\ q.offset + Tolerance \in Int32
             /\ off - q.offset \in -Tolerance..Tolerance) => InWindow(off, q)
<1>1. Int32Max \in Nat /\ Tolerance \in Nat /\ Tolerance <= Int32Max
  BY SelectionAssumption
<1> QED BY <1>1 DEF InWindow, Wrap32, Int32

LEMMA FitsEligible ==
  ASSUME NEW row \in Row, NEW raw \in Query
  PROVE  /\ Fits(row, Derive(raw)) => Eligible(row, raw)
         /\ Inside(raw) /\ Eligible(row, raw) => Fits(row, Derive(raw))
<1> DEFINE q == Derive(raw)
           listed == normaliseDevices(row.devices)
<1>1. Admits(listed, q.device) <=> (listed = {} \/ \E d \in listed : IsDevice(raw, d))
  <2>1. listed \subseteq Device
    BY Normalised
  <2> HIDE DEF listed, q
  <2> QED BY <2>1, DeviceOf DEF Admits, q
<1>2. /\ q.pos = defaultStr(raw.pos, "pre") /\ (q.pos = "mid" <=> raw.pos = "mid")
      /\ q.offset = parseInt32(raw.offset) /\ q.offset \in Int32
      /\ q.country = IF raw.country = Blank THEN CountryISO(raw.address) ELSE raw.country
  BY Derived
<1>3. row.offset \in Int32
  BY DEF Row
<1>4. /\ InWindow(row.offset, q) => row.offset - q.offset \in -Tolerance..Tolerance
      /\ Inside(raw) /\ row.offset - q.offset \in -Tolerance..Tolerance => InWindow(row.offset, q)
  <2> HIDE DEF q
  <2> QED BY <1>2, <1>3, Window DEF Inside
<1> HIDE DEF q, listed
<1>5. Fits(row, q) <=> /\ row.pos = q.pos
                       /\ Admits(normaliseCountries(row.countries), q.country)
                       /\ listed = {} \/ \E d \in listed : IsDevice(raw, d)
                       /\ q.pos = "mid" => InWindow(row.offset, q)
  BY <1>1 DEF Fits, listed
<1>6. Eligible(row, raw) <=> /\ row.pos = q.pos
                             /\ Admits(normaliseCountries(row.countries), q.country)
                             /\ listed = {} \/ \E d \in listed : IsDevice(raw, d)
                             /\ q.pos = "mid" => row.offset - q.offset \in -Tolerance..Tolerance
  BY <1>2 DEF Eligible, listed
<1> QED BY <1>4, <1>5, <1>6 DEF q

-----------------------------------------------------------------------------
(***************************************************************************)
(* Select.                                                                 *)
(***************************************************************************)
(* The draw ends at one of the entries, the last one if none reaches.      *)
LEMMA SearchFinds ==
  ASSUME NEW k \in Nat \ {0}, NEW cum, DOMAIN cum = 1..k, Len(cum) = k, NEW pick
  PROVE  Search(cum, pick) \in 1..k
<1> DEFINE R == Reaching(cum, pick)
<1>1. R \subseteq 1..k /\ k \in R
  BY DEF Reaching
<1>2. IsFiniteSet(1..k)
  BY FS_Interval
<1>3. R \in SUBSET Int /\ R # {}
  BY <1>1
<1> HIDE DEF R
<1>4. IsFiniteSet(R)
  BY <1>1, <1>2, FS_Subset
<1>5. \E n \in R : \A m \in R : n <= m
  BY <1>3, <1>4, LeastExists
<1>6. Search(cum, pick) = CHOOSE n \in R : \A m \in R : n <= m
  BY DEF Search, R
<1>7. Search(cum, pick) \in R
  BY <1>5, <1>6
<1> QED BY <1>1, <1>7

LEMMA CumDomain ==
  ASSUME NEW s, NEW is, Cardinality(is) \in Nat
  PROVE  DOMAIN cumWeight(s, is) = 1..Cardinality(is) /\ Len(cumWeight(s, is)) = Cardinality(is)
<1>1. DOMAIN cumWeight(s, is) = 1..Cardinality(is)
  BY DEF cumWeight
<1> QED BY <1>1

(* Every ad of a snapshot is a row, and there are finitely many.           *)
LEMMA AdsAreRows ==
  ASSUME NEW s, Indexes(s)
  PROVE  /\ IsFiniteSet(DOMAIN s.ads) /\ DOMAIN s.ads \subseteq Nat
         /\ \A i \in DOMAIN s.ads : s.ads[i] \in Row
         /\ Cardinality(DOMAIN s.ads) <= s.bitsetSize * WordBits
<1>1. PICK n \in Nat : s.ads \in [0..(n - 1) -> Row] /\ n <= s.bitsetSize * WordBits
  BY DEF Indexes
<1>2. DOMAIN s.ads = 0..(n - 1)
  BY <1>1
<1>3. IsFiniteSet(0..(n - 1)) /\ Cardinality(0..(n - 1)) = n
  BY FS_Interval
<1> QED BY <1>1, <1>2, <1>3

(* Select answers a best one of the ads that fit, and none only if there   *)
(* is none; it never indexes out of range.                                 *)
Best(s, fit, a) ==
  \/ a = None /\ fit = {}
  \/ a \in fit /\ \A j \in fit : s.ads[j].priority <= s.ads[a].priority

LEMMA SelectAnswers ==
  ASSUME NEW s, Indexes(s), NEW q, q.country \in Code, q.device \in Code, NEW ex,
         NEW a \in Select(s, q, ex)
  PROVE  Best(s, {i \in DOMAIN s.ads \ ex : Fits(s.ads[i], q)}, a)
<1> DEFINE fit == {i \in DOMAIN s.ads \ ex : Fits(s.ads[i], q)}
           top == topPriority(s, fit)
           cum == cumWeight(s, top)
<1>1. Found(s, q, ex) = fit
  BY CandidatesFit
<1>2. fit \subseteq DOMAIN s.ads /\ fit \subseteq Nat
  BY AdsAreRows
<1>3. IsFiniteSet(fit)
  <2> HIDE DEF fit
  <2> QED BY <1>2, AdsAreRows, FS_Subset
<1> HIDE DEF fit
<1>4. PICK pick : a = IF fit = {} THEN None
                      ELSE IF Cardinality(top) = 1 THEN CHOOSE i \in top : TRUE
                      ELSE Ascending(top)[Search(cum, pick)]
  BY <1>1, <1>2 DEF Select, Answered, Drawable
<1>5. CASE fit = {}
  BY <1>4, <1>5 DEF Best, fit
<1>6. CASE fit # {}
  <2> DEFINE f == [i \in fit |-> -(s.ads[i].priority)]
  <2>1. \A i \in fit : s.ads[i].priority \in Int /\ f[i] = -(s.ads[i].priority) /\ f[i] \in Int
    <3>1. Int32 \subseteq Int
      BY DEF Int32
    <3>2. \A i \in fit : s.ads[i].priority \in Int
      BY <1>2, <3>1, AdsAreRows DEF Row
    <3> QED BY <3>2
  <2> HIDE DEF f
  <2>2. PICK i \in fit : \A j \in fit : f[i] <= f[j]
    BY <1>3, <1>6, <2>1, SmallestExists
  <2>3. i \in top
    BY <2>1, <2>2 DEF topPriority
  <2>4. top \subseteq fit /\ top \in SUBSET Int
    BY <1>2 DEF topPriority
  <2>5. \A t \in top : \A j \in fit : s.ads[j].priority <= s.ads[t].priority
    BY DEF topPriority
  <2> HIDE DEF top
  <2>6. IsFiniteSet(top) /\ Cardinality(top) \in Nat /\ Cardinality(top) # 0
    BY <1>3, <2>3, <2>4, FS_Subset, FS_CardinalityType, FS_EmptySet
  <2>7. a \in top
    <3>1. CASE Cardinality(top) = 1
      BY <1>4, <1>6, <2>3, <3>1
    <3>2. CASE Cardinality(top) # 1
      <4>1. a = Ascending(top)[Search(cum, pick)]
        BY <1>4, <1>6, <3>2
      <4>2. DOMAIN cum = 1..Cardinality(top) /\ Len(cum) = Cardinality(top)
        BY <2>6, CumDomain
      <4> HIDE DEF cum
      <4>3. Search(cum, pick) \in 1..Cardinality(top)
        BY <2>6, <4>2, SearchFinds
      <4> QED BY <2>4, <2>6, <4>1, <4>3, AscendingVisits
    <3> QED BY <3>1, <3>2
  <2>8. a \in fit
    BY <2>4, <2>7
  <2> QED BY <2>5, <2>7, <2>8 DEF Best, fit
<1> QED BY <1>5, <1>6

-----------------------------------------------------------------------------
(***************************************************************************)
(* The answers.  A request's snapshot is one that was loaded, and what it  *)
(* was answered is what Select gives for its exclusions now.               *)
(***************************************************************************)
Loaded(s) == \E load \in Loads : s = buildSnapshot(load)

AnswerInv ==
  /\ Loaded(stored) /\ Loaded(held)
  /\ query \in Queries
  /\ excluded \subseteq DOMAIN held.ads
  /\ answer = Unasked \/ answer \in Select(held, Derive(query), excluded)

LEMMA LoadedIndexes ==
  ASSUME NEW s, Loaded(s)
  PROVE  Indexes(s)
<1>1. PICK load \in Loads : s = buildSnapshot(load)
  BY DEF Loaded
<1>2. load \in Seq(Row)
  BY SelectionAssumption
<1> QED BY <1>1, <1>2, SnapshotIndexes

LEMMA DerivedCodes ==
  ASSUME NEW raw \in Query
  PROVE  Derive(raw).country \in Code /\ Derive(raw).device \in Code
<1>1. Device \subseteq Code /\ Blank \in Code
  BY SelectionAssumption DEF Device
<1> QED BY <1>1, Derived, DeviceOf

LEMMA InitAnswer == Init => AnswerInv
BY DEF Init, AnswerInv, Loaded

LEMMA NextAnswer == AnswerInv /\ [Next]_vars => AnswerInv'
<1> SUFFICES ASSUME AnswerInv, [Next]_vars PROVE AnswerInv'
  OBVIOUS
<1> USE DEF AnswerInv
<1>1. ASSUME NEW load \in Loads, Store(load) PROVE AnswerInv'
  BY <1>1 DEF Store, Loaded
<1>2. ASSUME NEW raw \in Queries, Request(raw) PROVE AnswerInv'
  BY <1>2 DEF Request, Loaded
<1>3. CASE \E dep \in Deployment : Serve(dep)
  BY <1>3 DEF Serve, Loaded
<1>4. CASE Retry
  BY <1>4 DEF Retry, Loaded
<1>5. CASE Collect
  BY <1>5 DEF Collect, Loaded
<1>6. CASE UNCHANGED vars
  BY <1>6 DEF vars, Loaded
<1> QED BY <1>1, <1>2, <1>3, <1>4, <1>5, <1>6 DEF Next

LEMMA AnswerSound == AnswerInv => AnswersAsRows
<1> SUFFICES ASSUME AnswerInv PROVE AnswersAsRows
  OBVIOUS
<1> DEFINE q == Derive(query)
           fit == {i \in DOMAIN held.ads \ excluded : Fits(held.ads[i], q)}
<1>1. query \in Query /\ Indexes(held) /\ q.country \in Code /\ q.device \in Code
  BY SelectionAssumption, LoadedIndexes, DerivedCodes DEF AnswerInv
<1>2. \A i \in DOMAIN held.ads : held.ads[i] \in Row
  BY <1>1, AdsAreRows
<1>3. fit \subseteq EligibleAds /\ (Inside(query) => fit = EligibleAds)
  BY <1>1, <1>2, FitsEligible DEF EligibleAds
<1>4. answer # Unasked => Best(held, fit, answer)
  BY <1>1, SelectAnswers DEF AnswerInv
<1>5. \A i \in fit : i # None
  BY <1>1, AdsAreRows DEF None
<1> HIDE DEF fit
<1>6. (answer = None /\ Inside(query)) => EligibleAds = {}
  BY <1>3, <1>4, <1>5 DEF Best, None, Unasked
<1>7. answer \notin {None, Unasked} =>
        answer \in fit /\ \A i \in fit : held.ads[i].priority <= held.ads[answer].priority
  BY <1>4 DEF Best
<1> QED BY <1>3, <1>6, <1>7 DEF AnswersAsRows

(* The bitset index answers as the rows would, for any width of a word,    *)
(* any number of ads and words, any loads, requests, addresses and agents, *)
(* and whatever snapshots are stored and candidates refused between two    *)
(* calls (selection/select.go, registry/bitset.go, loader.go).             *)
THEOREM IndexAnswersAsRows == Spec => []AnswersAsRows
BY InitAnswer, NextAnswer, AnswerSound, PTL DEF Spec

-----------------------------------------------------------------------------
(***************************************************************************)
(* The documents.                                                          *)
(***************************************************************************)
LEMMA Resolved ==
  ASSUME NEW dep, NEW ad \in Nat, NEW media, NEW url \in ResolveMediaURL(dep, ad, media)
  PROVE  url = Failed \/ url \in MediaURL
<1>1. \/ url = Failed
      \/ \E kind \in {"as stored", "public", "presigned"} : url = [kind |-> kind, ad |-> ad]
  BY DEF ResolveMediaURL, Presign
<1>2. \A kind \in {"as stored", "public", "presigned"} : [kind |-> kind, ad |-> ad] \in MediaURL
  BY DEF MediaURL
<1> QED BY <1>1, <1>2

LEMMA Duration ==
  ASSUME NEW ms \in Int
  PROVE  formatDuration(ms) = <<>> \/ formatDuration(ms) \in Seq(Nat)
<1> DEFINE secs == ms \div 1000
<1>1. CASE ms <= 0
  BY <1>1 DEF formatDuration
<1>2. CASE ms > 0
  <2>1. secs \in Nat
    BY <1>2
  <2> HIDE DEF secs
  <2>2. secs \div 3600 \in Nat /\ (secs \div 60) % 60 \in Nat /\ secs % 60 \in Nat
    BY <2>1
  <2>3. formatDuration(ms) = <<secs \div 3600, (secs \div 60) % 60, secs % 60>>
    BY <1>2 DEF formatDuration, secs
  <2> QED BY <2>2, <2>3
<1> QED BY <1>1, <1>2

LEMMA PixelTyped ==
  ASSUME NEW ad \in Nat, NEW ev \in TrackedEvents
  PROVE  signedTrackingURL(ad, ev) \in Pixel
BY DEF signedTrackingURL, Sign, Pixel

(* The trackings are the five quartile events, each with its own URL.      *)
LEMMA Trackings ==
  ASSUME NEW ad, NEW media, NEW url
  PROVE  buildLinear(ad, media, url).trackings =
           {[event |-> ev, url |-> signedTrackingURL(ad, ev)] :
              ev \in {"start", "firstQuartile", "midpoint", "thirdQuartile", "complete"}}
<1> DEFINE five == {"start", "firstQuartile", "midpoint", "thirdQuartile", "complete"}
           urls == [ev \in {QuartileEventsInOrder[i] : i \in 1..5} |-> signedTrackingURL(ad, ev)]
           order == {quartileEventOrder[i] : i \in DOMAIN quartileEventOrder}
<1>1. {QuartileEventsInOrder[i] : i \in 1..5} = five
  BY DEF QuartileEventsInOrder
<1>2. order = five
  BY DEF quartileEventOrder
<1>3. buildLinear(ad, media, url).trackings =
        {[event |-> ev, url |-> urls[ev]] : ev \in order \cap DOMAIN urls}
  BY DEF buildLinear
<1>4. DOMAIN urls = five /\ \A ev \in five : urls[ev] = signedTrackingURL(ad, ev)
  BY <1>1
<1> HIDE DEF five, urls, order
<1>5. order \cap DOMAIN urls = five
  BY <1>2, <1>4
<1>6. buildLinear(ad, media, url).trackings = {[event |-> ev, url |-> urls[ev]] : ev \in five}
  BY <1>3, <1>5
<1>7. {[event |-> ev, url |-> urls[ev]] : ev \in five}
        = {[event |-> ev, url |-> signedTrackingURL(ad, ev)] : ev \in five}
  BY <1>4
<1> QED BY <1>6, <1>7 DEF five

LEMMA LinearTyped ==
  ASSUME NEW ad \in Nat, NEW media \in Media, NEW url \in MediaURL
  PROVE  buildLinear(ad, media, url) \in Linear
<1> DEFINE l == buildLinear(ad, media, url)
           dur == IF formatDuration(media.ms) = <<>> THEN <<0, 0, 30>> ELSE formatDuration(media.ms)
<1>1. dur \in Seq(Nat)
  <2>1. media.ms \in Int
    BY DEF Media
  <2>2. <<0, 0, 30>> \in Seq(Nat)
    OBVIOUS
  <2> QED BY <2>1, <2>2, Duration
<1>2. l.trackings \in SUBSET [event : TrackedEvents, url : Pixel]
  BY Trackings, PixelTyped DEF TrackedEvents
<1>3. signedTrackingURL(ad, "click") \in Pixel
  BY PixelTyped DEF TrackedEvents
<1> DEFINE wd == IF media.width <= 0 THEN 1280 ELSE media.width
           ht == IF media.height <= 0 THEN 720 ELSE media.height
<1>4. wd \in Nat \ {0} /\ ht \in Nat \ {0} /\ media.mime \in Mime /\ media.landing \in BOOLEAN
  BY DEF Media
<1>5. deliveryFor(media.mime) \in {"streaming", "progressive"}
  BY DEF deliveryFor
<1>6. l = [duration |-> dur, delivery |-> deliveryFor(media.mime), type |-> media.mime,
           width |-> wd, height |-> ht, url |-> url, trackings |-> l.trackings,
           clickThrough |-> media.landing, clickTracking |-> signedTrackingURL(ad, "click")]
  BY DEF buildLinear
<1> DEFINE ts == l.trackings
<1>7. ts \in SUBSET [event : TrackedEvents, url : Pixel]
  BY <1>2
<1> HIDE DEF dur, wd, ht, l, ts
<1>8. [duration |-> dur, delivery |-> deliveryFor(media.mime), type |-> media.mime,
       width |-> wd, height |-> ht, url |-> url, trackings |-> ts,
       clickThrough |-> media.landing, clickTracking |-> signedTrackingURL(ad, "click")] \in Linear
  BY <1>1, <1>3, <1>4, <1>5, <1>7 DEF Linear
<1> QED BY <1>6, <1>8 DEF ts, l

LEMMA InlineTyped ==
  ASSUME NEW ad \in Nat, NEW media \in Media, NEW url \in MediaURL
  PROVE  BuildInline(ad, media, url) \in InLine
<1>1. signedTrackingURL(ad, "impression") \in Pixel
  BY PixelTyped DEF TrackedEvents
<1> QED BY <1>1, LinearTyped DEF BuildInline, InLine

(* A player reports each event of /track under its URL and no other.       *)
LEMMA PixelsOfInline ==
  ASSUME NEW ad, NEW media, NEW url
  PROVE  Pixels(BuildInline(ad, media, url)) = {<<ev, signedTrackingURL(ad, ev)>> : ev \in TrackedEvents}
<1> DEFINE doc == BuildInline(ad, media, url)
           five == {"start", "firstQuartile", "midpoint", "thirdQuartile", "complete"}
<1>1. /\ doc.impression = signedTrackingURL(ad, "impression")
      /\ doc.linear.clickTracking = signedTrackingURL(ad, "click")
      /\ doc.linear.trackings = {[event |-> ev, url |-> signedTrackingURL(ad, ev)] : ev \in five}
  <2>1. /\ doc.linear = buildLinear(ad, media, url)
        /\ doc.impression = signedTrackingURL(ad, "impression")
    BY DEF BuildInline
  <2>2. buildLinear(ad, media, url).clickTracking = signedTrackingURL(ad, "click")
    BY DEF buildLinear
  <2> QED BY <2>1, <2>2, Trackings
<1> HIDE DEF doc, five
<1>2. {<<t.event, t.url>> : t \in doc.linear.trackings} = {<<ev, signedTrackingURL(ad, ev)>> : ev \in five}
  <2> DEFINE T == doc.linear.trackings
             tracking(ev) == [event |-> ev, url |-> signedTrackingURL(ad, ev)]
  <2>1. T = {tracking(ev) : ev \in five}
    BY <1>1
  <2>2. \A ev : tracking(ev).event = ev /\ tracking(ev).url = signedTrackingURL(ad, ev)
    OBVIOUS
  <2> HIDE DEF T, tracking
  <2>3. {<<t.event, t.url>> : t \in T} = {<<tracking(ev).event, tracking(ev).url>> : ev \in five}
    BY <2>1
  <2>4. {<<tracking(ev).event, tracking(ev).url>> : ev \in five} = {<<ev, signedTrackingURL(ad, ev)>> : ev \in five}
    BY <2>2
  <2> QED BY <2>3, <2>4 DEF T
<1>3. TrackedEvents = {"impression", "click"} \cup five
  BY DEF TrackedEvents, five
<1>4. Pixels(doc) = {<<"impression", signedTrackingURL(ad, "impression")>>,
                     <<"click", signedTrackingURL(ad, "click")>>}
                      \cup {<<ev, signedTrackingURL(ad, ev)>> : ev \in five}
  BY <1>1, <1>2 DEF Pixels
<1> QED BY <1>3, <1>4 DEF doc

DocumentInv ==
  \/ document \in {Unwritten, Empty}
  \/ /\ answer \in DOMAIN held.ads
     /\ \E url \in MediaURL : document = BuildInline(answer, held.ads[answer].media, url)

(* What a lookup and the AND leave in the buffer are words.                *)
Words(b) == \A w \in DOMAIN b : b[w] \subseteq 0..(WordBits - 1)

LEMMA LeavesWords ==
  ASSUME NEW s, Indexes(s), NEW q, Words(scratch)
  PROVE  Words(Leave(s, q))
<1> DEFINE size == s.bitsetSize
           view == Intersect(s, q)
<1>1. CASE ~Indexed(s, q)
  BY <1>1 DEF Leave
<1>2. CASE Indexed(s, q)
  <2>1. size \in Nat /\ At(s, q.pos) \in SUBSET Nat
    BY AdsAreRows DEF Indexes, At
  <2>2. MatchingPosition(s, q.pos) = SetAll(NewBitset(size), At(s, q.pos))
    BY <1>2 DEF Indexes, Indexed, Stored
  <2>3. DOMAIN view = 0..(size - 1)
    BY DEF Intersect, reset, NewBitset
  <2>4. \A w \in 0..(size - 1) : view[w] \subseteq MatchingPosition(s, q.pos)[w]
    BY <2>1 DEF Intersect, reset, NewBitset
  <2>5. \A w \in 0..(size - 1) : MatchingPosition(s, q.pos)[w] \subseteq 0..(WordBits - 1)
    BY <2>1, <2>2, BitsOf
  <2>6. Words(view)
    BY <2>3, <2>4, <2>5 DEF Words
  <2>7. Leave(s, q) = [w \in DOMAIN scratch \cup DOMAIN view |->
                         IF w \in DOMAIN view THEN view[w] ELSE scratch[w]]
    BY <1>2 DEF Leave
  <2> HIDE DEF view
  <2> QED BY <2>6, <2>7 DEF Words
<1> QED BY <1>1, <1>2

TypeInv == AnswerInv /\ DocumentInv /\ Words(scratch)

LEMMA InitType == Init => TypeInv
<1>1. Init => AnswerInv
  BY InitAnswer
<1>2. Init => DocumentInv
  BY DEF Init, DocumentInv
<1>3. Init => Words(scratch)
  BY DEF Init, Words, NewBitset
<1> QED BY <1>1, <1>2, <1>3 DEF TypeInv

LEMMA NextType == TypeInv /\ [Next]_vars => TypeInv'
<1> SUFFICES ASSUME TypeInv, [Next]_vars PROVE TypeInv'
  OBVIOUS
<1>0. AnswerInv' /\ AnswerInv
  BY NextAnswer DEF TypeInv
<1>1. Indexes(stored) /\ Indexes(held)
  BY <1>0, LoadedIndexes DEF AnswerInv
<1>2. DocumentInv /\ Words(scratch)
  BY DEF TypeInv
<1> SUFFICES DocumentInv' /\ Words(scratch')
  BY <1>0 DEF TypeInv, Words
<1>3. ASSUME NEW load \in Loads, Store(load) PROVE DocumentInv' /\ Words(scratch')
  BY <1>2, <1>3 DEF Store, DocumentInv
<1>4. ASSUME NEW raw \in Queries, Request(raw) PROVE DocumentInv' /\ Words(scratch')
  BY <1>1, <1>2, <1>4, LeavesWords DEF Request, DocumentInv
<1>5. ASSUME NEW dep \in Deployment, Serve(dep) PROVE DocumentInv' /\ Words(scratch')
  <2>1. /\ answer \in DOMAIN held.ads
        /\ document' \in serveAd(dep, answer, held.ads[answer].media)
        /\ answer' = answer /\ held' = held /\ scratch' = scratch
    BY <1>5 DEF Serve
  <2>2. answer \in Nat
    BY <1>1, <2>1, AdsAreRows
  <2>3. PICK url \in ResolveMediaURL(dep, answer, held.ads[answer].media) :
          document' = IF url = Failed THEN Empty
                      ELSE BuildInline(answer, held.ads[answer].media, url)
    BY <2>1 DEF serveAd
  <2>4. url = Failed \/ url \in MediaURL
    BY <2>2, Resolved
  <2>5. \/ document' = Empty
        \/ \E u \in MediaURL : document' = BuildInline(answer, held.ads[answer].media, u)
    BY <2>3, <2>4
  <2> QED BY <1>2, <2>1, <2>5 DEF DocumentInv
<1>6. CASE Retry
  BY <1>1, <1>2, <1>6, LeavesWords DEF Retry, DocumentInv
<1>7. CASE Collect
  BY <1>2, <1>7 DEF Collect, DocumentInv, Words, NewBitset
<1>8. CASE UNCHANGED vars
  BY <1>2, <1>8 DEF vars, DocumentInv
<1> QED BY <1>3, <1>4, <1>5, <1>6, <1>7, <1>8 DEF Next

LEMMA TypeSound == TypeInv => TypeOK
<1> SUFFICES ASSUME TypeInv PROVE TypeOK
  OBVIOUS
<1>1. AnswerInv /\ DocumentInv /\ Words(scratch)
  BY DEF TypeInv
<1>2. Indexes(stored) /\ Indexes(held)
  BY <1>1, LoadedIndexes DEF AnswerInv
<1>3. /\ stored.bitsetSize * WordBits >= Cardinality(DOMAIN stored.ads)
      /\ held.bitsetSize * WordBits >= Cardinality(DOMAIN held.ads)
  <2> SUFFICES ASSUME NEW s, Indexes(s) PROVE s.bitsetSize * WordBits >= Cardinality(DOMAIN s.ads)
    BY <1>2
  <2>1. Cardinality(DOMAIN s.ads) \in Nat /\ Cardinality(DOMAIN s.ads) <= s.bitsetSize * WordBits
    BY AdsAreRows, FS_CardinalityType
  <2>2. s.bitsetSize * WordBits \in Int
    BY SelectionAssumption DEF Indexes
  <2> QED BY <2>1, <2>2
<1>4. answer \in DOMAIN held.ads \cup {None, Unasked}
  <2>1. query \in Query
    BY <1>1, SelectionAssumption DEF AnswerInv
  <2>2. CASE answer # Unasked
    BY <1>1, <1>2, <2>1, <2>2, DerivedCodes, SelectAnswers DEF AnswerInv, Best
  <2> QED BY <2>2
<1>5. document \in InLine \cup {Unwritten, Empty}
  <2>1. CASE document \notin {Unwritten, Empty}
    <3>1. PICK url \in MediaURL : document = BuildInline(answer, held.ads[answer].media, url)
      BY <1>1, <2>1 DEF DocumentInv
    <3>2. answer \in DOMAIN held.ads
      BY <1>1, <2>1 DEF DocumentInv
    <3>3. answer \in Nat /\ held.ads[answer] \in Row
      BY <1>2, <3>2, AdsAreRows
    <3>4. held.ads[answer].media \in Media
      BY <3>3 DEF Row
    <3> QED BY <3>1, <3>3, <3>4, InlineTyped
  <2> QED BY <2>1
<1> QED BY <1>1, <1>3, <1>4, <1>5 DEF TypeOK, AnswerInv, Words

(* Type correctness: bit sets are wide enough for their ads, the buffer    *)
(* holds words, an answer is an ad of the snapshot the request holds, and  *)
(* a document is a VAST response, whatever is loaded, asked and refused.   *)
THEOREM SelectionTypeCorrect == Spec => []TypeOK
BY InitType, NextType, TypeSound, PTL DEF Spec

LEMMA DocumentSound == TypeInv => ReportsEveryEvent
<1> SUFFICES ASSUME TypeInv, document.ad \notin {Unwritten.ad, Empty.ad}
             PROVE  /\ \A ev \in TrackedEvents : \E p \in Pixels(document) : p[1] = ev
                    /\ \A p \in Pixels(document) :
                         /\ p[2].event = p[1] /\ p[2].ad = answer /\ Verify(p[2])
                         /\ \A o \in Pixels(document) : o[1] = p[1] => o = p
  BY DEF ReportsEveryEvent
<1>1. PICK url \in MediaURL : document = BuildInline(answer, held.ads[answer].media, url)
  BY DEF TypeInv, DocumentInv
<1>2. Pixels(document) = {<<ev, signedTrackingURL(answer, ev)>> : ev \in TrackedEvents}
  BY <1>1, PixelsOfInline
<1>3. \A ev \in TrackedEvents :
        LET u == signedTrackingURL(answer, ev)
        IN  u.event = ev /\ u.ad = answer /\ Verify(u)
  BY DEF signedTrackingURL, Verify
<1> DEFINE u(ev) == signedTrackingURL(answer, ev)
<1>4. \A p \in Pixels(document) : p[1] \in TrackedEvents /\ p = <<p[1], u(p[1])>> /\ p[2] = u(p[1])
  BY <1>2
<1>5. \A ev \in TrackedEvents : <<ev, u(ev)>> \in Pixels(document) /\ <<ev, u(ev)>>[1] = ev
  BY <1>2
<1>6. \A ev \in TrackedEvents : u(ev).event = ev /\ u(ev).ad = answer /\ Verify(u(ev))
  BY <1>3
<1> HIDE DEF u
<1>7. \A ev \in TrackedEvents : \E p \in Pixels(document) : p[1] = ev
  BY <1>5
<1>8. ASSUME NEW p \in Pixels(document)
      PROVE  p[2].event = p[1] /\ p[2].ad = answer /\ Verify(p[2])
  BY <1>4, <1>6
<1>9. ASSUME NEW p \in Pixels(document), NEW o \in Pixels(document), o[1] = p[1] PROVE o = p
  BY <1>4, <1>9
<1> QED BY <1>7, <1>8, <1>9

(* A player that follows the document reports every event /track counts,   *)
(* under one URL that /track accepts, for any snapshot, deployment and row *)
(* (vast/builder.go, tracking/events.go, delivery/handler.go, serveAd).    *)
THEOREM EveryEventReported == Spec => []ReportsEveryEvent
BY InitType, NextType, DocumentSound, PTL DEF Spec

-----------------------------------------------------------------------------
(***************************************************************************)
(* The draw.                                                               *)
(***************************************************************************)
LEMMA WeightTyped ==
  ASSUME NEW row \in Row
  PROVE  Weight(row) \in Nat
<1> DEFINE budget == IF row.budget <= 0 THEN 1 ELSE row.budget
           whole == Scale * budget
<1>1. budget \in Nat /\ Scale \in Nat
  BY SelectionAssumption DEF Row
<1> HIDE DEF budget
<1>2. whole \in Nat
  BY <1>1
<1> HIDE DEF whole
<1>3. \A h \in Int : h >= 1 => whole \div h \in Nat
  BY <1>2
<1>4. row.hours = Null \/ row.hours \in Int
  BY DEF Row
<1>5. pacingWeight(row) = IF row.hours = Null THEN whole
                          ELSE IF row.hours < 1 THEN whole ELSE whole \div row.hours
  BY DEF pacingWeight, whole, budget
<1>6. pacingWeight(row) \in Nat
  <2>1. CASE row.hours = Null
    BY <1>2, <1>5, <2>1
  <2>2. CASE row.hours # Null
    BY <1>2, <1>3, <1>4, <1>5, <2>2
  <2> QED BY <2>1, <2>2
<1> QED BY <1>1, <1>6 DEF Weight

(* The running total of w over 1..k.                                       *)
Totals(f, k, w) == f = [m \in 0..k |-> IF m = 0 THEN 0 ELSE f[m - 1] + w[m]]

LEMMA TotalsExist ==
  ASSUME NEW K \in Nat, NEW w
  PROVE  \E f : Totals(f, K, w)
<1> DEFINE Bad == {k \in 0..K : ~\E f : Totals(f, k, w)}
<1> SUFFICES ASSUME Bad # {} PROVE FALSE
  OBVIOUS
<1>1. Bad \in SUBSET Int /\ IsFiniteSet(Bad)
  <2>1. Bad \subseteq 0..K /\ Bad \in SUBSET Int
    OBVIOUS
  <2>2. IsFiniteSet(0..K)
    BY FS_Interval
  <2> HIDE DEF Bad
  <2>3. IsFiniteSet(Bad)
    BY <2>1, <2>2, FS_Subset
  <2> QED BY <2>1, <2>3
<1>2. PICK k \in Bad : \A m \in Bad : k <= m
  <2> HIDE DEF Bad
  <2> QED BY <1>1, LeastExists
<1>3. k \in 0..K /\ ~\E f : Totals(f, k, w)
  BY <1>2
<1>4. k # 0
  <2> DEFINE f == [m \in 0..0 |-> 0]
  <2>1. f = [m \in 0..0 |-> IF m = 0 THEN 0 ELSE f[m - 1] + w[m]]
    OBVIOUS
  <2>2. Totals(f, 0, w)
    BY <2>1 DEF Totals
  <2> QED BY <1>3, <2>2
<1>5. k - 1 \in 0..K /\ k - 1 \notin Bad
  BY <1>2, <1>3, <1>4
<1>6. PICK f : Totals(f, k - 1, w)
  BY <1>5
<1>7. /\ DOMAIN f = 0..(k - 1)
      /\ \A m \in 0..(k - 1) : f[m] = IF m = 0 THEN 0 ELSE f[m - 1] + w[m]
  <2> DEFINE g == [m \in 0..(k - 1) |-> IF m = 0 THEN 0 ELSE f[m - 1] + w[m]]
  <2>1. f = g
    BY <1>6 DEF Totals
  <2>2. DOMAIN g = 0..(k - 1) /\ \A m \in 0..(k - 1) : g[m] = IF m = 0 THEN 0 ELSE f[m - 1] + w[m]
    OBVIOUS
  <2> HIDE DEF g
  <2> QED BY <2>1, <2>2
<1> DEFINE g == [m \in 0..k |-> IF m = k THEN f[k - 1] + w[k] ELSE f[m]]
<1>8. \A m \in 0..k : g[m] = IF m = 0 THEN 0 ELSE g[m - 1] + w[m]
  <2> SUFFICES ASSUME NEW m \in 0..k PROVE g[m] = IF m = 0 THEN 0 ELSE g[m - 1] + w[m]
    OBVIOUS
  <2>1. m - 1 \in 0..k \/ m = 0
    BY <1>3
  <2>2. CASE m = 0
    BY <1>3, <1>4, <1>7, <2>2
  <2>3. CASE m # 0
    <3>1. m - 1 \in 0..(k - 1) /\ m - 1 \in 0..k /\ m - 1 # k
      BY <1>3, <2>3
    <3>2. g[m - 1] = f[m - 1]
      BY <3>1
    <3>3. CASE m = k
      BY <2>3, <3>2, <3>3
    <3>4. CASE m # k
      <4>1. m \in 0..(k - 1)
        BY <1>3, <3>4
      <4> QED BY <1>7, <2>3, <3>2, <3>4, <4>1
    <3> QED BY <3>3, <3>4
  <2> QED BY <2>2, <2>3
<1>9. Totals(g, k, w)
  <2>1. g = [m \in 0..k |-> g[m]]
    OBVIOUS
  <2> HIDE DEF g
  <2>2. [m \in 0..k |-> g[m]] = [m \in 0..k |-> IF m = 0 THEN 0 ELSE g[m - 1] + w[m]]
    BY <1>8
  <2> QED BY <2>1, <2>2 DEF Totals
<1> QED BY <1>3, <1>9

(* It grows by each entry, and never falls.                                *)
LEMMA TotalsGrow ==
  ASSUME NEW K \in Nat, NEW w, \A m \in 1..K : w[m] \in Nat, NEW f, Totals(f, K, w)
  PROVE  /\ f[0] = 0
         /\ \A m \in 1..K : f[m] = f[m - 1] + w[m]
         /\ \A m \in 0..K : f[m] \in Nat /\ \A i \in 0..m : f[i] <= f[m]
<1>1. \A m \in 0..K : f[m] = IF m = 0 THEN 0 ELSE f[m - 1] + w[m]
  <2> DEFINE g == [m \in 0..K |-> IF m = 0 THEN 0 ELSE f[m - 1] + w[m]]
  <2>1. f = g
    BY DEF Totals
  <2>2. \A m \in 0..K : g[m] = IF m = 0 THEN 0 ELSE f[m - 1] + w[m]
    OBVIOUS
  <2> HIDE DEF g
  <2> QED BY <2>1, <2>2
<1>2. f[0] = 0
  BY <1>1
<1>3. \A m \in 1..K : f[m] = f[m - 1] + w[m]
  BY <1>1
<1> DEFINE Grown(m) == f[m] \in Nat /\ \A i \in 0..m : f[i] <= f[m]
           Bad == {m \in 0..K : ~Grown(m)}
<1>4. Bad = {}
  <2> SUFFICES ASSUME Bad # {} PROVE FALSE
    OBVIOUS
  <2>1. Bad \subseteq 0..K /\ Bad \in SUBSET Int
    OBVIOUS
  <2>2. IsFiniteSet(Bad)
    <3>1. IsFiniteSet(0..K)
      BY FS_Interval
    <3> HIDE DEF Bad
    <3> QED BY <2>1, <3>1, FS_Subset
  <2>3. PICK k \in Bad : \A m \in Bad : k <= m
    <3> HIDE DEF Bad
    <3> QED BY <2>1, <2>2, LeastExists
  <2>4. k \in 0..K /\ ~Grown(k)
    BY <2>3
  <2>5. Grown(0)
    BY <1>2
  <2>6. k # 0
    <3> HIDE DEF Grown
    <3> QED BY <2>4, <2>5
  <2>7. k \in 1..K /\ k - 1 \in 0..K
    BY <2>4, <2>6
  <2>8. Grown(k - 1)
    <3> HIDE DEF Grown
    <3>1. k - 1 \notin Bad
      BY <2>3, <2>4
    <3> QED BY <2>7, <3>1
  <2>9. f[k] = f[k - 1] + w[k] /\ w[k] \in Nat
    BY <1>3, <2>7
  <2>10. f[k] \in Nat /\ f[k - 1] \in Nat /\ f[k - 1] <= f[k]
    BY <2>8, <2>9
  <2>11. ASSUME NEW i \in 0..k PROVE f[i] <= f[k]
    <3>1. CASE i = k
      BY <2>10, <3>1
    <3>2. CASE i # k
      <4>1. i \in 0..(k - 1)
        BY <2>4, <3>2
      <4>2. f[i] <= f[k - 1]
        BY <2>8, <4>1
      <4>3. f[i] \in Nat
        <5>1. i \in 0..K /\ i \notin Bad
          BY <2>3, <2>4, <4>1
        <5> QED BY <5>1
      <4> QED BY <2>10, <4>2, <4>3
    <3> QED BY <3>1, <3>2
  <2> QED BY <2>4, <2>10, <2>11
<1> QED BY <1>2, <1>3, <1>4

(* cum is the running total c of the weights in ascending order.           *)
IsTotal(c, cum, k, w) ==
  /\ k \in Nat /\ DOMAIN cum = 1..k /\ Len(cum) = k
  /\ \A m \in 1..k : w[m] \in Nat /\ c[m] = c[m - 1] + w[m] /\ cum[m] = c[m]
  /\ c[0] = 0
  /\ \A m \in 0..k : c[m] \in Nat /\ \A i \in 0..m : c[i] <= c[m]

Weights(s, is) == [m \in 1..Cardinality(is) |-> Weight(s.ads[Ascending(is)[m]])]

LEMMA CumWeightTotals ==
  ASSUME NEW s, NEW is \in SUBSET Int, IsFiniteSet(is), \A i \in is : s.ads[i] \in Row
  PROVE  \E c : IsTotal(c, cumWeight(s, is), Cardinality(is), Weights(s, is))
<1> DEFINE k == Cardinality(is)
           w == Weights(s, is)
           next(f) == [m \in 0..k |->
                         IF m = 0 THEN 0 ELSE f[m - 1] + Weight(s.ads[Ascending(is)[m]])]
           total == CHOOSE f : f = next(f)
<1>1. k \in Nat
  BY FS_CardinalityType
<1>2. \A m \in 1..k : w[m] = Weight(s.ads[Ascending(is)[m]])
  BY DEF Weights
<1>3. \A m \in 1..k : w[m] \in Nat
  BY <1>2, AscendingVisits, WeightTyped
<1>4. cumWeight(s, is) = [n \in 1..k |-> total[n]]
  BY DEF cumWeight
<1> HIDE DEF w, k
<1>5. \A f : next(f) = [m \in 0..k |-> IF m = 0 THEN 0 ELSE f[m - 1] + w[m]]
  BY <1>1, <1>2
<1> HIDE DEF next
<1>6. \E f : f = next(f)
  <2>1. PICK f : Totals(f, k, w)
    BY <1>1, TotalsExist
  <2>2. f = next(f)
    BY <1>5, <2>1 DEF Totals
  <2> QED BY <2>2
<1>7. Totals(total, k, w)
  <2>1. total = next(total)
    BY <1>6
  <2> HIDE DEF total
  <2> QED BY <1>5, <2>1 DEF Totals
<1> HIDE DEF total
<1>8. /\ total[0] = 0
      /\ \A m \in 1..k : total[m] = total[m - 1] + w[m]
      /\ \A m \in 0..k : total[m] \in Nat /\ \A i \in 0..m : total[i] <= total[m]
  BY <1>1, <1>3, <1>7, TotalsGrow
<1>9. DOMAIN cumWeight(s, is) = 1..k /\ Len(cumWeight(s, is)) = k
  BY <1>1, CumDomain DEF k
<1>10. \A m \in 1..k : cumWeight(s, is)[m] = total[m]
  BY <1>4
<1>11. IsTotal(total, cumWeight(s, is), k, w)
  BY <1>1, <1>3, <1>8, <1>9, <1>10 DEF IsTotal
<1> QED BY <1>11 DEF k, w

(* Which points the search ends at an entry for.                           *)
LEMMA SearchEnds ==
  ASSUME NEW c, NEW cum, NEW k, NEW w, IsTotal(c, cum, k, w),
         NEW n \in 1..k, NEW pick \in Int
  PROVE  Search(cum, pick) = n <=> /\ n = k \/ Grid * c[n] >= pick
                                   /\ n = 1 \/ Grid * c[n - 1] < pick
<1> DEFINE R == Reaching(cum, pick)
           r == Search(cum, pick)
<1>1. k \in Nat \ {0} /\ DOMAIN cum = 1..k /\ Len(cum) = k
  BY DEF IsTotal
<1>2. R = {m \in 1..k : m = k \/ Grid * c[m] >= pick}
  BY <1>1 DEF Reaching, IsTotal
<1>3. r \in 1..k
  BY <1>1, SearchFinds
<1>4. \E m \in R : \A j \in R : m <= j
  <2>1. R \subseteq 1..k /\ k \in R
    BY <1>1, <1>2
  <2>2. IsFiniteSet(1..k)
    BY <1>1, FS_Interval
  <2>3. R \in SUBSET Int /\ R # {}
    BY <2>1
  <2> HIDE DEF R
  <2>4. IsFiniteSet(R)
    BY <2>1, <2>2, FS_Subset
  <2> QED BY <2>3, <2>4, LeastExists
<1>5. r = CHOOSE m \in R : \A j \in R : m <= j
  BY DEF Search
<1>6. r \in R /\ \A j \in R : r <= j
  <2> HIDE DEF R, r
  <2> QED BY <1>4, <1>5
<1> HIDE DEF R, r
<1>7. \A m \in 0..k : c[m] \in Nat /\ Grid * c[m] \in Nat
  <2>1. Grid \in Nat
    BY SelectionAssumption
  <2>2. \A x \in Nat : Grid * x \in Nat
    BY <2>1
  <2> QED BY <2>2 DEF IsTotal
<1>8. \A m \in 0..k, i \in 0..k : i <= m => Grid * c[i] <= Grid * c[m]
  <2>1. Grid \in Nat
    BY SelectionAssumption
  <2>2. \A x \in Nat, y \in Nat : x <= y => Grid * x <= Grid * y
    BY <2>1
  <2> SUFFICES ASSUME NEW m \in 0..k, NEW i \in 0..k, i <= m PROVE Grid * c[i] <= Grid * c[m]
    OBVIOUS
  <2>3. i \in 0..m
    OBVIOUS
  <2>4. c[i] <= c[m]
    BY <2>3 DEF IsTotal
  <2> QED BY <1>7, <2>2, <2>4
<1>9. ASSUME r = n PROVE /\ n = k \/ Grid * c[n] >= pick
                         /\ n = 1 \/ Grid * c[n - 1] < pick
  <2>1. n = k \/ Grid * c[n] >= pick
    BY <1>2, <1>6, <1>9
  <2>2. CASE n # 1
    <3>1. n - 1 \in 1..k /\ n - 1 # k /\ n - 1 \in 0..k
      BY <1>1, <2>2
    <3>2. n - 1 \notin R
      BY <1>1, <1>6, <1>9
    <3>3. ~(Grid * c[n - 1] >= pick)
      BY <1>2, <3>1, <3>2
    <3>4. Grid * c[n - 1] \in Nat
      BY <1>7, <3>1
    <3> QED BY <2>1, <3>3, <3>4
  <2> QED BY <2>1, <2>2
<1>10. ASSUME n = k \/ Grid * c[n] >= pick, n = 1 \/ Grid * c[n - 1] < pick
       PROVE  r = n
  <2>1. n \in R
    BY <1>2, <1>10
  <2>2. r <= n
    BY <1>6, <2>1
  <2>3. ASSUME r < n PROVE FALSE
    <3>1. r \in 0..k /\ n - 1 \in 0..k /\ r <= n - 1 /\ r # k /\ n # 1
      BY <1>1, <1>3, <2>3
    <3>2. Grid * c[r] >= pick
      BY <1>2, <1>6, <3>1
    <3>3. Grid * c[r] <= Grid * c[n - 1] /\ Grid * c[n - 1] < pick
      BY <1>8, <1>10, <3>1
    <3>4. Grid * c[r] \in Nat /\ Grid * c[n - 1] \in Nat
      BY <1>7, <3>1
    <3> HIDE DEF R
    <3> QED BY <3>2, <3>3, <3>4
  <2> QED BY <1>3, <2>2, <2>3
<1> QED BY <1>9, <1>10 DEF r

(* How many points that is.                                                *)
LEMMA PointsOf ==
  ASSUME NEW c, NEW cum, NEW k, NEW w, IsTotal(c, cum, k, w), NEW n \in 1..k
  PROVE  Cardinality({pick \in Picks(cum) : Search(cum, pick) = n}) - Grid * w[n] \in -1..1
<1> DEFINE x == Grid * c[n - 1]
           y == Grid * c[n]
           t == Grid * c[k]
           points == {pick \in Picks(cum) : Search(cum, pick) = n}
           lo == IF n = 1 THEN 0 ELSE x + 1
           hi == IF n = k \/ t - 1 < y THEN t - 1 ELSE y
<1>1. k \in Nat \ {0} /\ Len(cum) = k /\ k \in 0..k /\ n \in 0..k /\ n - 1 \in 0..k /\ n \in 0..k
  BY DEF IsTotal
<1>2. /\ c[n - 1] \in Nat /\ c[n] \in Nat /\ c[k] \in Nat /\ w[n] \in Nat
      /\ c[n] = c[n - 1] + w[n] /\ c[n] <= c[k] /\ cum[k] = c[k] /\ c[0] = 0
  BY <1>1 DEF IsTotal
<1>3. Grid \in Nat
  BY SelectionAssumption
<1>4. /\ x \in Nat /\ y \in Nat /\ t \in Nat /\ y <= t
      /\ y = x + Grid * w[n] /\ Grid * w[n] \in Nat
  <2>1. \A a, b \in Nat : a <= b => Grid * a <= Grid * b
    BY <1>3
  <2>2. \A a, b \in Nat : Grid * (a + b) = Grid * a + Grid * b /\ Grid * a \in Nat
    BY <1>3
  <2> QED BY <1>2, <2>1, <2>2
<1>5. (n = 1 => x = 0) /\ (n = k => y = t)
  <2>1. n = 1 => c[n - 1] = 0
    BY <1>2
  <2>2. Grid * 0 = 0
    BY <1>3
  <2> QED BY <2>1, <2>2
<1>6. Picks(cum) = 0..(t - 1)
  BY <1>1, <1>2 DEF Picks
<1>7. \A pick \in Int : Search(cum, pick) = n <=> /\ n = k \/ y >= pick
                                                  /\ n = 1 \/ x < pick
  BY SearchEnds
<1> HIDE DEF x, y, t
<1>8. points = lo..hi
  <2>1. \A pick \in Int : pick \in points <=> pick \in 0..(t - 1) /\ Search(cum, pick) = n
    BY <1>6
  <2>2. \A pick \in Int : pick \in points <=> pick \in lo..hi
    BY <1>1, <1>4, <1>7, <2>1
  <2>3. points \subseteq Int /\ lo..hi \subseteq Int
    BY <1>6
  <2> HIDE DEF points, lo, hi
  <2> QED BY <2>2, <2>3
<1>9. lo \in Int /\ hi \in Int
  BY <1>4
<1> DEFINE size == Cardinality(points)
<1>10. size = IF lo > hi THEN 0 ELSE hi - lo + 1
  <2> HIDE DEF lo, hi, points
  <2> QED BY <1>8, <1>9, FS_Interval
<1> HIDE DEF size
<1> DEFINE gw == Grid * w[n]
<1>11. gw \in Nat /\ y = x + gw
  BY <1>4
<1> HIDE DEF gw
<1>12. size - gw \in -1..1
  <2>1. lo = IF n = 1 THEN x ELSE x + 1
    BY <1>5
  <2>2. hi = IF n = k \/ t - 1 < y THEN t - 1 ELSE y
    OBVIOUS
  <2>3. /\ x \in Nat /\ y \in Nat /\ t \in Nat /\ y <= t /\ y = x + gw /\ gw \in Nat
    BY <1>4, <1>11
  <2>4. n = k => y = t
    BY <1>5
  <2> HIDE DEF lo, hi
  <2>5. lo \in {x, x + 1} /\ (n = 1 => lo = 0 /\ x = 0) /\ (n # 1 => lo = x + 1)
    BY <1>5, <2>1, <2>3
  <2>6. hi = (IF y = t THEN t - 1 ELSE y)
    BY <2>2, <2>3, <2>4
  <2>7. n # 1 => size \in {gw, gw - 1}
    BY <1>10, <2>3, <2>5, <2>6
  <2>8. n = 1 => size \in {gw, gw + 1}
    BY <1>10, <2>3, <2>5, <2>6
  <2> QED BY <2>3, <2>7, <2>8
<1> QED BY <1>12 DEF size, gw

(* The points that answer a request with an ad of the best priority.       *)
LEMMA ShareOf ==
  ASSUME NEW s, Indexes(s), NEW q, q.country \in Code, q.device \in Code, NEW ex,
         NEW i \in topPriority(s, {j \in DOMAIN s.ads \ ex : Fits(s.ads[j], q)})
  PROVE  Cardinality({pick \in Points(s, q, ex) : Answered(s, q, ex, pick) = i})
           - Grid * Weight(s.ads[i]) \in -1..1
<1> DEFINE fit == {j \in DOMAIN s.ads \ ex : Fits(s.ads[j], q)}
           top == topPriority(s, fit)
           cum == cumWeight(s, top)
           k == Cardinality(top)
<1>1. Found(s, q, ex) = fit
  BY CandidatesFit
<1>2. fit \subseteq DOMAIN s.ads /\ top \subseteq fit /\ i \in top
  BY DEF topPriority
<1> HIDE DEF fit
<1>3. Drawable(s, fit)
  BY <1>2 DEF Drawable
<1>4. /\ Points(s, q, ex) = Picks(cum)
      /\ \A pick : Answered(s, q, ex, pick) =
                     IF k = 1 THEN CHOOSE j \in top : TRUE ELSE Ascending(top)[Search(cum, pick)]
  BY <1>1, <1>3 DEF Points, Answered, Drawable
<1> HIDE DEF top
<1>5. top \in SUBSET Int /\ (\A j \in top : s.ads[j] \in Row)
  BY <1>2, AdsAreRows
<1>6. IsFiniteSet(top) /\ k \in Nat /\ k # 0
  BY <1>2, AdsAreRows, FS_Subset, FS_CardinalityType, FS_EmptySet
<1>7. PICK c : IsTotal(c, cum, k, Weights(s, top))
  BY <1>5, <1>6, CumWeightTotals
<1>8. PICK n \in 1..k : \A m \in 1..k : Ascending(top)[m] = i <=> m = n
  BY <1>2, <1>5, <1>6, AscendingRanks
<1>9. Weights(s, top)[n] = Weight(s.ads[i])
  BY <1>8 DEF Weights
<1>10. DOMAIN cum = 1..k /\ Len(cum) = k
  BY <1>6, CumDomain
<1> HIDE DEF cum
<1>11. \A pick : Answered(s, q, ex, pick) = i <=> Search(cum, pick) = n
  <2> SUFFICES ASSUME NEW pick PROVE Answered(s, q, ex, pick) = i <=> Search(cum, pick) = n
    OBVIOUS
  <2>1. Search(cum, pick) \in 1..k
    BY <1>6, <1>10, SearchFinds
  <2>2. CASE k = 1
    <3>1. \A j \in top : j = i
      BY <1>2, <1>6, <2>2, FS_Singleton
    <3>2. Search(cum, pick) = n
      BY <1>8, <2>1, <2>2
    <3> QED BY <1>2, <1>4, <2>2, <3>1, <3>2
  <2>3. CASE k # 1
    BY <1>4, <1>8, <2>1, <2>3
  <2> QED BY <2>2, <2>3
<1>12. {pick \in Points(s, q, ex) : Answered(s, q, ex, pick) = i}
         = {pick \in Picks(cum) : Search(cum, pick) = n}
  BY <1>4, <1>11
<1> HIDE DEF k
<1>13. Cardinality({pick \in Picks(cum) : Search(cum, pick) = n}) - Grid * Weights(s, top)[n] \in -1..1
  BY <1>7, PointsOf
<1> QED BY <1>9, <1>12, <1>13

LEMMA SharesFair == AnswerInv => FairShare
<1> DEFINE q == Derive(query)
           fit == {i \in DOMAIN held.ads \ excluded : Fits(held.ads[i], q)}
<1> SUFFICES ASSUME AnswerInv, Inside(query), NEW i \in topPriority(held, EligibleAds) PROVE
      Cardinality({pick \in Points(held, q, excluded) : Answered(held, q, excluded, pick) = i})
        - Grid * Weight(held.ads[i]) \in -1..1
  BY DEF FairShare
<1>1. query \in Query /\ Indexes(held) /\ q.country \in Code /\ q.device \in Code
  BY SelectionAssumption, LoadedIndexes, DerivedCodes DEF AnswerInv
<1>2. \A j \in DOMAIN held.ads : held.ads[j] \in Row
  BY <1>1, AdsAreRows
<1>3. fit = EligibleAds
  BY <1>1, <1>2, FitsEligible DEF EligibleAds
<1>4. i \in topPriority(held, fit)
  BY <1>3
<1> HIDE DEF q
<1> QED BY <1>1, <1>4, ShareOf

(* A request that finds several ads of the best priority is answered with  *)
(* each in proportion to the pacing weight of its row, up to one point of  *)
(* the draw, for any load and width of a word, any exclusions, weights and *)
(* resolution of rand.Float64 (selection/select.go, the candidates and the *)
(* weighted pick; loader.go, pacingWeight).                                *)
THEOREM DrawIsFair == Spec => []FairShare
BY InitAnswer, NextAnswer, SharesFair, PTL DEF Spec

=============================================================================
