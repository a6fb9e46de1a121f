--------------------------- MODULE DrainerProofs ---------------------------
(***************************************************************************)
(* What holds of Drainer for every set of workers, ads and events, any     *)
(* finite set of hits, and any number of days and failures.                *)
(*                                                                         *)
(* The argument is local to a key: `Placed` says how its counter, the      *)
(* workers' memories, its column and its losses share the hits out, one    *)
(* lemma per movement of hits keeps `Placed`, and each action moves the    *)
(* hits of the keys it touches by one of these movements.                  *)
(***************************************************************************)
EXTENDS Drainer, FiniteSetTheorems, TLAPS

Memory(k) == [w \in Worker |-> tick[w].delta[k]]

(* Of the hits f fired under a key: c are in Redis, m[w] in w's memory, b  *)
(* in the column, whose number is s, and l are lost.                       *)
Placed(c, m, b, l, f, s) ==
  /\ \A h : h \in f <=> (h \in c \/ (\E w \in Worker : h \in m[w]) \/ h \in b \/ h \in l)
  /\ \A h \in c : h \notin b /\ h \notin l /\ \A w \in Worker : h \notin m[w]
  /\ \A h \in b : h \notin l /\ \A w \in Worker : h \notin m[w]
  /\ \A h \in l : \A w \in Worker : h \notin m[w]
  /\ \A v, w \in Worker : v # w => m[v] \cap m[w] = {}
  /\ s = Cardinality(b)

PlacedAt(k) == Placed(counter[k], Memory(k), booked[k], lost[k], fired[k], stats[k])

(* Sets of hits are finite.                                                *)
LEMMA HitsFinite ==
  ASSUME NEW S \in SUBSET Hit
  PROVE  IsFiniteSet(S) /\ Cardinality(S) \in Nat
BY DrainerAssumption, FS_Subset, FS_CardinalityType DEF DrainerAssumption

(* The invariant, key by key.                                              *)
LEMMA AccountedByKey ==
  TypeOK => (Accounted <=> \A k \in Key : PlacedAt(k))
<1> SUFFICES ASSUME TypeOK, NEW k \in Key
             PROVE  /\ (/\ fired[k] = counter[k] \cup InMemory(k) \cup booked[k] \cup lost[k]
                        /\ counter[k] \cap (InMemory(k) \cup booked[k] \cup lost[k]) = {}
                        /\ booked[k] \cap (InMemory(k) \cup lost[k]) = {}
                        /\ lost[k] \cap InMemory(k) = {}
                        /\ \A v, w \in Worker :
                             v # w => tick[v].delta[k] \cap tick[w].delta[k] = {}
                        /\ stats[k] = Cardinality(booked[k]))
                       <=> PlacedAt(k)
  BY DEF Accounted
<1> DEFINE m == Memory(k)
<1>1. \A h : h \in InMemory(k) <=> \E w \in Worker : h \in m[w]
  BY DEF InMemory, Memory
<1>2. \A w \in Worker : m[w] = tick[w].delta[k]
  BY DEF Memory
<1>3. PlacedAt(k) <=> Placed(counter[k], m, booked[k], lost[k], fired[k], stats[k])
  BY DEF PlacedAt
<1> HIDE DEF m
<1> QED BY <1>1, <1>2, <1>3 DEF Placed

-----------------------------------------------------------------------------
(* A hit is counted in Redis.                                              *)
LEMMA PlacedFire ==
  ASSUME NEW c, NEW m, NEW b, NEW l, NEW f, NEW s, NEW h,
         Placed(c, m, b, l, f, s), h \notin f
  PROVE  Placed(c \cup {h}, m, b, l, f \cup {h}, s)
BY DEF Placed

(* GETDEL moves the counter into the memory of w.                          *)
Takes(n, m, w, c) ==
  n[w] = m[w] \cup c /\ \A v \in Worker : v # w => n[v] = m[v]

LEMMA PlacedRead ==
  ASSUME NEW c, NEW m, NEW b, NEW l, NEW f, NEW s, NEW w \in Worker, NEW n,
         Placed(c, m, b, l, f, s), Takes(n, m, w, c)
  PROVE  Placed({}, n, b, l, f, s)
<1>0. n[w] = m[w] \cup c /\ \A v \in Worker : v # w => n[v] = m[v]
  BY DEF Takes
<1>1. \A h : (h \in c \/ \E v \in Worker : h \in m[v]) <=> \E v \in Worker : h \in n[v]
  <2>1. ASSUME NEW h, NEW v \in Worker, h \in m[v] PROVE h \in n[v]
    <3>1. CASE v = w BY <1>0, <2>1, <3>1
    <3>2. CASE v # w BY <1>0, <2>1, <3>2
    <3> QED BY <3>1, <3>2
  <2>2. ASSUME NEW h, NEW v \in Worker, h \in n[v]
        PROVE  h \in c \/ h \in m[v]
    <3>1. CASE v = w BY <1>0, <2>2, <3>1
    <3>2. CASE v # w BY <1>0, <2>2, <3>2
    <3> QED BY <3>1, <3>2
  <2> QED BY <1>0, <2>1, <2>2
<1>2. \A h \in b \cup l : \A v \in Worker : h \notin n[v]
  <2> SUFFICES ASSUME NEW h \in b \cup l, NEW v \in Worker PROVE h \notin n[v]
    OBVIOUS
  <2>1. h \notin m[v] /\ h \notin c BY DEF Placed
  <2>2. CASE v = w BY <1>0, <2>1, <2>2
  <2>3. CASE v # w BY <1>0, <2>1, <2>3
  <2> QED BY <2>2, <2>3
<1>3. \A u, v \in Worker : u # v => n[u] \cap n[v] = {}
  <2> SUFFICES ASSUME NEW u \in Worker, NEW v \in Worker, u # v
               PROVE  n[u] \cap n[v] = {}
    OBVIOUS
  <2>1. m[u] \cap m[v] = {} /\ c \cap m[u] = {} /\ c \cap m[v] = {} BY DEF Placed
  <2>2. CASE u = w BY <1>0, <2>1, <2>2
  <2>3. CASE v = w BY <1>0, <2>1, <2>3
  <2>4. CASE u # w /\ v # w BY <1>0, <2>1, <2>4
  <2> QED BY <2>2, <2>3, <2>4
<1> QED BY <1>1, <1>2, <1>3 DEF Placed

(* GETDEL was executed and its reply never arrived.                        *)
LEMMA PlacedReadLost ==
  ASSUME NEW c, NEW m, NEW b, NEW l, NEW f, NEW s,
         Placed(c, m, b, l, f, s)
  PROVE  Placed({}, m, b, l \cup c, f, s)
BY DEF Placed

(* The memory of w is added to the column.                                 *)
LEMMA PlacedBook ==
  ASSUME NEW c, NEW m, NEW b \in SUBSET Hit, NEW l, NEW f, NEW s, NEW w \in Worker,
         NEW n, m[w] \in SUBSET Hit,
         Placed(c, m, b, l, f, s),
         n[w] = {}, \A v \in Worker : v # w => n[v] = m[v]
  PROVE  Placed(c, n, b \cup m[w], l, f, s + Cardinality(m[w]))
<1>1. \A v \in Worker : n[v] \subseteq m[v]
  <2> SUFFICES ASSUME NEW v \in Worker PROVE n[v] \subseteq m[v]
    OBVIOUS
  <2>1. CASE v = w BY <2>1
  <2>2. CASE v # w BY <2>2
  <2> QED BY <2>1, <2>2
<1>2. \A h : (\E v \in Worker : h \in m[v]) <=> (h \in m[w] \/ \E v \in Worker : h \in n[v])
  <2>1. ASSUME NEW h, NEW v \in Worker, h \in m[v] PROVE h \in m[w] \/ h \in n[v]
    <3>1. CASE v = w BY <2>1, <3>1
    <3>2. CASE v # w BY <2>1, <3>2
    <3> QED BY <3>1, <3>2
  <2> QED BY <2>1, <1>1
<1>3. \A h \in m[w] : \A v \in Worker : h \notin n[v]
  <2> SUFFICES ASSUME NEW h \in m[w], NEW v \in Worker PROVE h \notin n[v]
    OBVIOUS
  <2>1. CASE v = w BY <2>1
  <2>2. CASE v # w
    <3>1. m[w] \cap m[v] = {} BY <2>2 DEF Placed
    <3> QED BY <3>1, <1>1
  <2> QED BY <2>1, <2>2
<1>4. b \cap m[w] = {}
  BY DEF Placed
<1>5. Cardinality(b \cup m[w]) = s + Cardinality(m[w])
  <2>1. IsFiniteSet(b) /\ IsFiniteSet(m[w]) BY HitsFinite
  <2>2. Cardinality(b \cup m[w]) =
          Cardinality(b) + Cardinality(m[w]) - Cardinality(b \cap m[w])
    BY <2>1, FS_Union
  <2>3. Cardinality(b \cap m[w]) = 0 BY <1>4, FS_EmptySet
  <2>4. Cardinality(b) \in Nat /\ Cardinality(m[w]) \in Nat BY HitsFinite
  <2>5. s = Cardinality(b) BY DEF Placed
  <2> QED BY <2>2, <2>3, <2>4, <2>5
<1>6. \A u, v \in Worker : u # v => n[u] \cap n[v] = {}
  BY <1>1 DEF Placed
<1> DEFINE d == m[w]
<1>7. /\ \A h : (\E v \in Worker : h \in m[v]) <=> (h \in d \/ \E v \in Worker : h \in n[v])
      /\ \A h \in d : \A v \in Worker : h \notin n[v]
      /\ \A h \in d : h \notin c /\ h \notin l
      /\ Cardinality(b \cup d) = s + Cardinality(d)
  BY <1>2, <1>3, <1>5 DEF Placed
<1> HIDE DEF d
<1>8. Placed(c, n, b \cup d, l, f, s + Cardinality(d))
  BY <1>1, <1>6, <1>7 DEF Placed
<1> QED BY <1>8 DEF d

(* The memory of w is dropped.                                             *)
LEMMA PlacedDrop ==
  ASSUME NEW c, NEW m, NEW b, NEW l, NEW f, NEW s, NEW w \in Worker, NEW n,
         Placed(c, m, b, l, f, s),
         n[w] = {}, \A v \in Worker : v # w => n[v] = m[v]
  PROVE  Placed(c, n, b, l \cup m[w], f, s)
<1>1. \A v \in Worker : n[v] \subseteq m[v]
  <2> SUFFICES ASSUME NEW v \in Worker PROVE n[v] \subseteq m[v]
    OBVIOUS
  <2>1. CASE v = w BY <2>1
  <2>2. CASE v # w BY <2>2
  <2> QED BY <2>1, <2>2
<1>2. \A h : (\E v \in Worker : h \in m[v]) <=> (h \in m[w] \/ \E v \in Worker : h \in n[v])
  <2>1. ASSUME NEW h, NEW v \in Worker, h \in m[v] PROVE h \in m[w] \/ h \in n[v]
    <3>1. CASE v = w BY <2>1, <3>1
    <3>2. CASE v # w BY <2>1, <3>2
    <3> QED BY <3>1, <3>2
  <2> QED BY <2>1, <1>1
<1>3. \A h \in m[w] : \A v \in Worker : h \notin n[v]
  <2> SUFFICES ASSUME NEW h \in m[w], NEW v \in Worker PROVE h \notin n[v]
    OBVIOUS
  <2>1. CASE v = w BY <2>1
  <2>2. CASE v # w
    <3>1. m[w] \cap m[v] = {} BY <2>2 DEF Placed
    <3> QED BY <3>1, <1>1
  <2> QED BY <2>1, <2>2
<1>4. \A u, v \in Worker : u # v => n[u] \cap n[v] = {}
  BY <1>1 DEF Placed
<1> DEFINE d == m[w]
<1>5. /\ \A h : (\E v \in Worker : h \in m[v]) <=> (h \in d \/ \E v \in Worker : h \in n[v])
      /\ \A h \in d : \A v \in Worker : h \notin n[v]
      /\ \A h \in d : h \notin c /\ h \notin b
  BY <1>2, <1>3 DEF Placed
<1> HIDE DEF d
<1>6. Placed(c, n, b, l \cup d, f, s)
  BY <1>1, <1>4, <1>5 DEF Placed
<1> QED BY <1>6 DEF d

-----------------------------------------------------------------------------
(***************************************************************************)
(* Types                                                                   *)
(***************************************************************************)
LEMMA InitTyped == Init => TypeOK
BY DrainerAssumption DEF Init, TypeOK, Idle, Tick, NoDelta, Day, DrainerAssumption

LEMMA IdleTyped == Idle \in Tick
BY DrainerAssumption DEF Idle, Tick, NoDelta, Day, DrainerAssumption

LEMMA DeltaTyped ==
  ASSUME TypeOK, NEW w \in Worker
  PROVE  /\ tick[w] \in Tick
         /\ \A k \in Key : /\ tick[w].delta[k] \in SUBSET Hit
                            /\ Cardinality(tick[w].delta[k]) \in Nat
BY HitsFinite DEF TypeOK, Tick

LEMMA WithoutRowTyped ==
  ASSUME TypeOK, NEW w \in Worker, NEW row
  PROVE  WithoutRow(w, row) \in [Key -> SUBSET Hit]
BY DeltaTyped DEF WithoutRow

LEMMA AddRowTyped ==
  ASSUME TypeOK, NEW w \in Worker, NEW row, AddRow(w, row)
  PROVE  stats' \in [Key -> Nat] /\ booked' \in [Key -> SUBSET Hit]
<1>1. \A k \in Key : stats[k] \in Nat /\ booked[k] \in SUBSET Hit
  BY DEF TypeOK
<1>2. \A k \in Key : stats[k] + Cardinality(tick[w].delta[k]) \in Nat
  BY <1>1, DeltaTyped
<1> QED BY <1>1, <1>2, DeltaTyped DEF AddRow

LEMMA StepTyped == TypeOK /\ [Next]_vars => TypeOK'
<1> SUFFICES ASSUME TypeOK, [Next]_vars PROVE TypeOK'
  OBVIOUS
<1> USE DEF TypeOK
<1>1. ASSUME NEW h \in Hit, Increment(h) PROVE TypeOK'
  BY <1>1 DEF Increment
<1>2. ASSUME NEW a \in Ad, Toggle(a) PROVE TypeOK'
  BY <1>2 DEF Toggle
<1>3. CASE Midnight
  BY <1>3, DrainerAssumption DEF Midnight, Day, DrainerAssumption
<1>4. CASE Morning
  BY <1>4 DEF Morning
<1>5. ASSUME NEW w \in Worker, Work(w) \/ CutShort(w) PROVE TypeOK'
  <2>0. tick[w] \in Tick BY DeltaTyped
  <2>1. CASE NothingActive(w)
    BY <2>1 DEF NothingActive
  <2>2. CASE Load(w)
    BY <2>0, <2>2 DEF Load, Tick
  <2>3. CASE Begin(w)
    <3>1. tick[w].ads \X Event \X datesToDrain \in SUBSET Key
      <4>1. tick[w].ads \in SUBSET Ad BY <2>0 DEF Tick
      <4>2. datesToDrain \in SUBSET Day BY DEF datesToDrain
      <4> QED BY <4>1, <4>2 DEF Key
    <3> QED BY <2>0, <2>3, <3>1 DEF Begin, Tick
  <2>4. ASSUME NEW k \in Key, GetDel(w, k) PROVE TypeOK'
    <3>1. tick[w].delta[k] \cup counter[k] \in SUBSET Hit BY DeltaTyped
    <3> QED BY <2>0, <2>4, <3>1 DEF GetDel, Tick
  <2>5. ASSUME NEW k \in Key, GetDelFailed(w, k) PROVE TypeOK'
    <3>1. failures' \in Nat BY <2>5 DEF GetDelFailed, Fail
    <3>2. tick' \in [Worker -> Tick] BY <2>0, <2>5 DEF GetDelFailed, Tick
    <3>3. counter' \in [Key -> SUBSET Hit] /\ lost' \in [Key -> SUBSET Hit]
      BY <2>5 DEF GetDelFailed
    <3> QED BY <2>5, <3>1, <3>2, <3>3 DEF GetDelFailed
  <2>6. CASE Drained(w)
    BY <2>0, <2>6 DEF Drained, Tick
  <2>7. ASSUME NEW row \in Row, Upsert(w, row) PROVE TypeOK'
    <3>1. tick' \in [Worker -> Tick]
      BY <2>0, <2>7, WithoutRowTyped DEF Upsert, Tick
    <3>2. stats' \in [Key -> Nat] /\ booked' \in [Key -> SUBSET Hit]
      BY <2>7, AddRowTyped DEF Upsert
    <3> QED BY <2>7, <3>1, <3>2 DEF Upsert
  <2>8. ASSUME NEW row \in Row, UpsertFailed(w, row) PROVE TypeOK'
    <3>1. failures' \in Nat BY <2>8 DEF UpsertFailed, Fail
    <3>2. tick' \in [Worker -> Tick] BY <2>8, IdleTyped DEF UpsertFailed
    <3>3. stats' \in [Key -> Nat] /\ booked' \in [Key -> SUBSET Hit]
      BY <2>8, AddRowTyped DEF UpsertFailed
    <3>4. lost' \in [Key -> SUBSET Hit]
      BY <2>8, DeltaTyped, WithoutRowTyped DEF UpsertFailed
    <3> QED BY <2>8, <3>1, <3>2, <3>3, <3>4 DEF UpsertFailed
  <2>9. CASE Finish(w)
    BY <2>9, IdleTyped DEF Finish
  <2>10. CASE CutShort(w)
    <3>1. failures' \in Nat BY <2>10 DEF CutShort, Fail
    <3>2. lost' \in [Key -> SUBSET Hit] BY <2>10, DeltaTyped DEF CutShort
    <3> QED BY <2>10, <3>1, <3>2, IdleTyped DEF CutShort
  <2> QED BY <1>5, <2>1, <2>2, <2>3, <2>4, <2>5, <2>6, <2>7, <2>8, <2>9, <2>10
          DEF Work
<1>6. CASE UNCHANGED vars
  BY <1>6 DEF vars
<1> QED BY <1>1, <1>2, <1>3, <1>4, <1>5, <1>6 DEF Next

(* Type correctness of the tick and of its counters.                       *)
THEOREM DrainTypeCorrect == Spec => []TypeOK
BY InitTyped, StepTyped, PTL DEF Spec

-----------------------------------------------------------------------------
(***************************************************************************)
(* No hit is in two places                                                 *)
(***************************************************************************)
LEMMA InitAccounted == Init => Accounted
<1> SUFFICES ASSUME Init, NEW k \in Key PROVE PlacedAt(k)
  BY InitTyped, AccountedByKey
<1>1. /\ counter[k] = {} /\ booked[k] = {} /\ lost[k] = {} /\ fired[k] = {}
      /\ stats[k] = 0 /\ \A w \in Worker : Memory(k)[w] = {}
  BY DEF Init, NoDelta, Idle, Memory
<1>2. Cardinality({}) = 0
  BY FS_EmptySet
<1> QED BY <1>1, <1>2 DEF PlacedAt, Placed

(* A step that moves no hit.                                               *)
LEMMA NothingMoves ==
  ASSUME NEW k \in Key, PlacedAt(k),
         UNCHANGED <<counter, stats, fired, booked, lost>>,
         Memory(k)' = Memory(k)
  PROVE  PlacedAt(k)'
BY DEF PlacedAt, Placed

LEMMA IdleHoldsNothing == \A k \in Key : Idle.delta[k] = {}
BY DEF Idle, NoDelta

LEMMA AccountedByKeyNext ==
  TypeOK' => (Accounted' <=> \A k \in Key : PlacedAt(k)')
<1>1. (TypeOK => (Accounted <=> \A k \in Key : PlacedAt(k)))'
  BY AccountedByKey, PTL
<1> QED BY <1>1

LEMMA StepAccounted == TypeOK /\ Accounted /\ [Next]_vars => Accounted'
<1> SUFFICES ASSUME TypeOK, TypeOK', Accounted, [Next]_vars, NEW k \in Key
             PROVE  PlacedAt(k)'
  BY StepTyped, AccountedByKeyNext
<1>0. PlacedAt(k)
  BY AccountedByKey
<1>1. ASSUME NEW h \in Hit, Increment(h) PROVE PlacedAt(k)'
  <2>1. h \notin fired[k] /\ Memory(k)' = Memory(k)
    BY <1>1 DEF Increment, Memory
  <2>2. UNCHANGED <<booked, lost, stats>>
    BY <1>1 DEF Increment
  <2>3. \/ counter'[k] = counter[k] /\ fired'[k] = fired[k]
        \/ counter'[k] = counter[k] \cup {h} /\ fired'[k] = fired[k] \cup {h}
    BY <1>1 DEF Increment, TypeOK
  <2>4. Placed(counter[k] \cup {h}, Memory(k), booked[k], lost[k], fired[k] \cup {h},
               stats[k])
    BY <1>0, <2>1, PlacedFire DEF PlacedAt
  <2> QED BY <1>0, <2>1, <2>2, <2>3, <2>4 DEF PlacedAt
<1>2. CASE (\E a \in Ad : Toggle(a)) \/ Midnight \/ Morning
  BY <1>0, <1>2, NothingMoves DEF Toggle, Midnight, Morning, Memory
<1>3. ASSUME NEW w \in Worker, Work(w) \/ CutShort(w) PROVE PlacedAt(k)'
  <2>0. tick[w] \in Tick BY DeltaTyped
  <2>1. CASE NothingActive(w)
    BY <1>0, <2>1, NothingMoves DEF NothingActive, Memory
  <2>2. CASE Load(w) \/ Begin(w) \/ Drained(w)
    <3>1. UNCHANGED <<counter, stats, fired, booked, lost>>
      BY <2>2 DEF Load, Begin, Drained
    <3>2. \A v \in Worker : tick'[v].delta = tick[v].delta
      <4>1. CASE Load(w) BY <2>0, <4>1 DEF Load, TypeOK, Tick
      <4>2. CASE Begin(w) BY <2>0, <4>2 DEF Begin, TypeOK, Tick
      <4>3. CASE Drained(w) BY <2>0, <4>3 DEF Drained, TypeOK, Tick
      <4> QED BY <2>2, <4>1, <4>2, <4>3
    <3> QED BY <1>0, <3>1, <3>2, NothingMoves DEF Memory
  <2>3. ASSUME NEW j \in Key, GetDel(w, j) PROVE PlacedAt(k)'
    <3>1. UNCHANGED <<stats, fired, booked, lost>>
      BY <2>3 DEF GetDel
    <3>2. \A v \in Worker : v # w => Memory(k)'[v] = Memory(k)[v]
      BY <2>3 DEF GetDel, Memory, TypeOK
    <3>3. CASE k = j
      <4>1. counter'[k] = {}
        BY <2>3, <3>3 DEF GetDel, TypeOK
      <4>2. Memory(k)'[w] = Memory(k)[w] \cup counter[k]
        BY <2>0, <2>3, <3>3 DEF GetDel, Memory, TypeOK, Tick
      <4> DEFINE n == Memory(k)'
      <4>3. Takes(n, Memory(k), w, counter[k])
        BY <3>2, <4>2 DEF Takes
      <4> HIDE DEF n
      <4>4. Placed({}, n, booked[k], lost[k], fired[k], stats[k])
        BY <1>0, <4>3, PlacedRead DEF PlacedAt
      <4> QED BY <3>1, <4>1, <4>4 DEF PlacedAt, n
    <3>4. CASE k # j
      <4>1. counter'[k] = counter[k]
        BY <2>3, <3>4 DEF GetDel, TypeOK
      <4>2. \A v \in Worker : tick'[v].delta[k] = tick[v].delta[k]
        BY <2>0, <2>3, <3>4 DEF GetDel, TypeOK, Tick
      <4>3. Memory(k)' = Memory(k)
        BY <4>2 DEF Memory
      <4> QED BY <1>0, <3>1, <4>1, <4>3 DEF PlacedAt
    <3> QED BY <3>3, <3>4
  <2>4. ASSUME NEW j \in Key, GetDelFailed(w, j) PROVE PlacedAt(k)'
    <3>1. UNCHANGED <<stats, fired, booked>>
      BY <2>4 DEF GetDelFailed
    <3>2. \A v \in Worker : tick'[v].delta = tick[v].delta
      BY <2>0, <2>4 DEF GetDelFailed, TypeOK, Tick
    <3>3. Memory(k)' = Memory(k)
      BY <3>2 DEF Memory
    <3>4. \/ counter'[k] = counter[k] /\ lost'[k] = lost[k]
          \/ counter'[k] = {} /\ lost'[k] = lost[k] \cup counter[k]
      BY <2>4 DEF GetDelFailed, TypeOK
    <3>5. Placed({}, Memory(k), booked[k], lost[k] \cup counter[k], fired[k], stats[k])
      BY <1>0, PlacedReadLost DEF PlacedAt
    <3> QED BY <1>0, <3>1, <3>3, <3>4, <3>5 DEF PlacedAt
  <2>6. /\ booked[k] \in SUBSET Hit /\ tick[w].delta[k] \in SUBSET Hit
        /\ lost \in [Key -> SUBSET Hit]
    BY DeltaTyped DEF TypeOK
  <2>7. ASSUME NEW row \in Row, Upsert(w, row) PROVE PlacedAt(k)'
    <3>1. UNCHANGED <<counter, fired, lost>> /\ AddRow(w, row)
      BY <2>7 DEF Upsert
    <3> DEFINE t == [tick[w] EXCEPT !.delta = WithoutRow(w, row)]
    <3>2. tick' = [tick EXCEPT ![w] = t]
      BY <2>7 DEF Upsert, TypeOK
    <3>3. t.delta[k] = WithoutRow(w, row)[k]
      BY <2>0 DEF Tick
    <3> HIDE DEF t
    <3>4. /\ Memory(k)'[w] = t.delta[k]
          /\ \A v \in Worker : v # w => Memory(k)'[v] = Memory(k)[v]
          /\ Memory(k)[w] = tick[w].delta[k]
          /\ t.delta[k] = tick[w].delta[k] => Memory(k)' = Memory(k)
      <4>1. tick'[w] = t /\ \A v \in Worker : v # w => tick'[v] = tick[v]
        BY <3>2 DEF TypeOK
      <4> QED BY <4>1 DEF Memory
    <3>5. CASE k \in KeysOf(row)
      <4>1. /\ stats'[k] = stats[k] + Cardinality(tick[w].delta[k])
            /\ booked'[k] = booked[k] \cup tick[w].delta[k]
            /\ t.delta[k] = {}
        BY <3>1, <3>3, <3>5 DEF AddRow, WithoutRow
      <4> DEFINE n == Memory(k)'
      <4>2. n[w] = {} /\ \A v \in Worker : v # w => n[v] = Memory(k)[v]
        BY <3>4, <4>1
      <4> HIDE DEF n
      <4>3. Placed(counter[k], n, booked[k] \cup Memory(k)[w], lost[k], fired[k],
                   stats[k] + Cardinality(Memory(k)[w]))
        BY <1>0, <2>6, <3>4, <4>2, PlacedBook DEF PlacedAt
      <4> QED BY <3>1, <3>4, <4>1, <4>3 DEF PlacedAt, n
    <3>6. CASE k \notin KeysOf(row)
      <4>1. /\ stats'[k] = stats[k] /\ booked'[k] = booked[k]
            /\ t.delta[k] = tick[w].delta[k]
        BY <3>1, <3>3, <3>6 DEF AddRow, WithoutRow
      <4> QED BY <1>0, <3>1, <3>4, <4>1 DEF PlacedAt
    <3> QED BY <3>5, <3>6
  <2>8. ASSUME tick' = [tick EXCEPT ![w] = Idle], UNCHANGED <<counter, fired>>,
               stats'[k] = stats[k], booked'[k] = booked[k],
               lost'[k] = lost[k] \cup tick[w].delta[k]
        PROVE  PlacedAt(k)'
    <3>1. /\ Memory(k)'[w] = {}
          /\ \A v \in Worker : v # w => Memory(k)'[v] = Memory(k)[v]
          /\ Memory(k)[w] = tick[w].delta[k]
      <4>1. tick'[w] = Idle /\ \A v \in Worker : v # w => tick'[v] = tick[v]
        BY <2>8 DEF TypeOK
      <4> QED BY <4>1, IdleHoldsNothing DEF Memory
    <3>2. Placed(counter[k], Memory(k)', booked[k], lost[k] \cup Memory(k)[w], fired[k],
                 stats[k])
      BY <1>0, <3>1, PlacedDrop DEF PlacedAt
    <3> QED BY <2>8, <3>1, <3>2 DEF PlacedAt
  <2>9. ASSUME tick' = [tick EXCEPT ![w] = Idle], UNCHANGED <<counter, fired>>,
               stats'[k] = stats[k] + Cardinality(tick[w].delta[k]),
               booked'[k] = booked[k] \cup tick[w].delta[k], lost'[k] = lost[k]
        PROVE  PlacedAt(k)'
    <3>1. /\ Memory(k)'[w] = {}
          /\ \A v \in Worker : v # w => Memory(k)'[v] = Memory(k)[v]
          /\ Memory(k)[w] = tick[w].delta[k]
      <4>1. tick'[w] = Idle /\ \A v \in Worker : v # w => tick'[v] = tick[v]
        BY <2>9 DEF TypeOK
      <4> QED BY <4>1, IdleHoldsNothing DEF Memory
    <3>2. Placed(counter[k], Memory(k)', booked[k] \cup Memory(k)[w], lost[k], fired[k],
                 stats[k] + Cardinality(Memory(k)[w]))
      BY <1>0, <2>6, <3>1, PlacedBook DEF PlacedAt
    <3> QED BY <2>9, <3>1, <3>2 DEF PlacedAt
  <2>10. ASSUME NEW row \in Row, UpsertFailed(w, row) PROVE PlacedAt(k)'
    <3>1. tick' = [tick EXCEPT ![w] = Idle] /\ UNCHANGED <<counter, fired>>
      BY <2>10 DEF UpsertFailed
    <3>2. CASE stats'[k] = stats[k] /\ booked'[k] = booked[k]
               /\ lost'[k] = lost[k] \cup tick[w].delta[k]
      BY <2>8, <3>1, <3>2
    <3>3. CASE AddRow(w, row) /\ k \in KeysOf(row)
               /\ lost'[k] = lost[k] \cup WithoutRow(w, row)[k]
      <4>1. /\ stats'[k] = stats[k] + Cardinality(tick[w].delta[k])
            /\ booked'[k] = booked[k] \cup tick[w].delta[k]
            /\ lost'[k] = lost[k]
        BY <2>6, <3>3 DEF AddRow, WithoutRow
      <4> QED BY <2>9, <3>1, <4>1
    <3>4. CASE AddRow(w, row) /\ k \notin KeysOf(row)
               /\ lost'[k] = lost[k] \cup WithoutRow(w, row)[k]
      BY <3>2, <3>4 DEF AddRow, WithoutRow
    <3> QED BY <2>10, <3>2, <3>3, <3>4 DEF UpsertFailed
  <2>11. CASE Finish(w)
    <3>1. tick' = [tick EXCEPT ![w] = Idle] /\ UNCHANGED <<counter, stats, fired, booked, lost>>
      BY <2>11 DEF Finish
    <3>2. tick[w].delta[k] = {}
      <4>1. PICK row \in Row : k \in KeysOf(row)
        <5>1. PICK a \in Ad, e \in Event, d \in Day : k = <<a, e, d>> BY DEF Key
        <5>2. <<a, d>> \in Row BY <5>1 DEF Row
        <5>3. k \in KeysOf(<<a, d>>) BY <5>1 DEF KeysOf
        <5> QED BY <5>2, <5>3
      <4> QED BY <2>11, <4>1 DEF Finish, Rows
    <3> QED BY <2>8, <3>1, <3>2
  <2>12. CASE CutShort(w)
    BY <2>8, <2>12 DEF CutShort
  <2> QED BY <1>3, <2>1, <2>2, <2>3, <2>4, <2>7, <2>10, <2>11, <2>12 DEF Work
<1>4. CASE UNCHANGED vars
  BY <1>0, <1>4, NothingMoves DEF vars, Memory
<1> QED BY <1>1, <1>2, <1>3, <1>4 DEF Next

(* Every hit is in one place, with any interleaving of ticks, resends,     *)
(* failures and crashes: GETDEL counts at most once.                       *)
THEOREM EachHitInOnePlace == Spec => []Accounted
BY InitTyped, InitAccounted, StepTyped, StepAccounted, PTL DEF Spec

LEMMA AccountedBounds == TypeOK /\ Accounted => NeverOvercounted
<1> SUFFICES ASSUME TypeOK, Accounted, NEW k \in Key
             PROVE  stats[k] <= Cardinality(fired[k])
  BY DEF NeverOvercounted
<1>1. /\ stats[k] = Cardinality(booked[k]) /\ booked[k] \subseteq fired[k]
      /\ fired[k] \in SUBSET Hit
  BY DEF Accounted, TypeOK
<1> QED BY <1>1, HitsFinite, FS_Subset

(* daily_stats never shows more than /track recorded.                      *)
THEOREM NeverOvercounts == Spec => []NeverOvercounted
BY DrainTypeCorrect, EachHitInOnePlace, AccountedBounds, PTL

-----------------------------------------------------------------------------
(***************************************************************************)
(* Refinement                                                              *)
(***************************************************************************)
(* Adding a row is the ledger's Book, for the hits of the row.             *)
LEMMA AddRowBooks ==
  ASSUME TypeOK, Accounted, NEW w \in Worker, NEW row, AddRow(w, row), UNCHANGED fired
  PROVE  LedgerView!Book
<1>1. ASSUME NEW k \in Key
      PROVE  /\ booked[k] \subseteq booked'[k] /\ booked'[k] \subseteq fired[k]
             /\ stats'[k] = stats[k] + Cardinality(booked'[k] \ booked[k])
  <2> DEFINE d == tick[w].delta[k]
  <2>1. d \subseteq fired[k] /\ booked[k] \subseteq fired[k] /\ booked[k] \cap d = {}
    BY DEF Accounted, InMemory
  <2>2. CASE k \in KeysOf(row)
    <3>1. booked'[k] = booked[k] \cup d /\ stats'[k] = stats[k] + Cardinality(d)
      BY <2>2 DEF AddRow
    <3>2. booked'[k] \ booked[k] = d
      BY <2>1, <3>1
    <3> QED BY <2>1, <3>1, <3>2
  <2>3. CASE k \notin KeysOf(row)
    <3>1. booked'[k] = booked[k] /\ stats'[k] = stats[k] /\ stats[k] \in Nat
      BY <2>3 DEF AddRow, TypeOK
    <3>2. Cardinality(booked'[k] \ booked[k]) = 0
      <4>1. booked'[k] \ booked[k] = {} BY <3>1
      <4> QED BY <4>1, FS_EmptySet
    <3> QED BY <2>1, <3>1, <3>2
  <2> QED BY <2>2, <2>3
<1>2. DOMAIN booked' = Key /\ DOMAIN stats' = Key
  BY DEF AddRow
<1> QED BY <1>1, <1>2 DEF LedgerView!Book

LEMMA StepImplementsLedger ==
  TypeOK /\ Accounted /\ [Next]_vars => [LedgerView!Next]_(LedgerView!vars)
<1> SUFFICES ASSUME TypeOK, Accounted, [Next]_vars
             PROVE  LedgerView!Next \/ UNCHANGED <<fired, booked, stats>>
  BY DEF LedgerView!vars
<1>1. ASSUME NEW h \in Hit, Increment(h) PROVE LedgerView!Fire
  <2>1. PICK k \in Key : fired' = [fired EXCEPT ![k] = @ \cup {h}]
    BY <1>1 DEF Increment
  <2> QED BY <1>1, <2>1 DEF Increment, LedgerView!Fire
<1>2. CASE (\E a \in Ad : Toggle(a)) \/ Midnight \/ Morning
  BY <1>2 DEF Toggle, Midnight, Morning
<1>3. ASSUME NEW w \in Worker, Work(w) \/ CutShort(w)
      PROVE  LedgerView!Book \/ UNCHANGED <<fired, booked, stats>>
  <2>1. CASE \E row \in Row : Upsert(w, row)
    BY <2>1, AddRowBooks DEF Upsert
  <2>2. CASE \E row \in Row : UpsertFailed(w, row)
    BY <2>2, AddRowBooks DEF UpsertFailed
  <2>3. CASE NothingActive(w) \/ Load(w) \/ Begin(w) \/ Drained(w) \/ Finish(w)
             \/ CutShort(w)
    BY <2>3 DEF NothingActive, Load, Begin, Drained, Finish, CutShort
  <2>4. CASE \E k \in Key : GetDel(w, k) \/ GetDelFailed(w, k)
    BY <2>4 DEF GetDel, GetDelFailed
  <2> QED BY <1>3, <2>1, <2>2, <2>3, <2>4 DEF Work
<1> QED BY <1>1, <1>2, <1>3 DEF Next, vars, LedgerView!Next

(* The drain implements the ledger: its columns only grow, by exactly the  *)
(* hits they had not accounted for, each of which was recorded under the   *)
(* same ad, event and day.                                                 *)
THEOREM DrainImplementsLedger == Spec => ImplementsLedger
<1>1. Init => LedgerView!Init
  BY DEF Init, NoDelta, LedgerView!Init
<1> QED BY <1>1, DrainTypeCorrect, EachHitInOnePlace, StepImplementsLedger, PTL
        DEF Spec, ImplementsLedger, LedgerView!Spec

-----------------------------------------------------------------------------
(***************************************************************************)
(* Why looking back one day is enough.  A clean tick of today that began   *)
(* after the last INCR of yesterday has emptied, or has still to read,     *)
(* every key of yesterday of an ad that never left `active`; when it       *)
(* finishes the day may end, and yesterday is then out of reach but empty. *)
(***************************************************************************)
Sweeps(t) == t.pc \in {"drain", "upsert"} /\ t.clean /\ t.day = today

Covers(t) ==
  /\ t.day <= today
  /\ t.pc = "loaded" => steady \subseteq t.ads
  /\ t.pc = "upsert" => t.todo = {}
  /\ Sweeps(t) => phase # "midnight"
  /\ Sweeps(t) => \A k \in Key : (k[1] \in steady /\ k[3] = today - 1) =>
                                    k \in t.todo \/ counter[k] = {}

YesterdayDrained ==
  phase = "ticked" => \A k \in Key : (k[1] \in steady /\ k[3] < today) => counter[k] = {}

SteadyInv ==
  /\ steady \subseteq active
  /\ \A w \in Worker : Covers(tick[w])
  /\ SteadyDrained
  /\ YesterdayDrained

LEMMA KeyParts ==
  /\ \A k \in Key : k[1] \in Ad /\ k[2] \in Event /\ k[3] \in Day
  /\ \A k \in Key : k = <<k[1], k[2], k[3]>>
  /\ Day \subseteq Int
  /\ \A d \in Day : 0 <= d
BY DrainerAssumption DEF Key, Day

(* A step of one worker that counts nothing and keeps the date.            *)
LEMMA WorkerKeepsSteady ==
  ASSUME TypeOK, SteadyInv, NEW w \in Worker,
         UNCHANGED <<today, active, steady>>, phase' = phase \/ YesterdayDrained',
         phase = "midnight" <=> phase' = "midnight",
         \A v \in Worker : v # w => tick'[v] = tick[v],
         \A k \in Key : counter'[k] \subseteq counter[k],
         Covers(tick[w])'
  PROVE  SteadyInv'
<1>1. ASSUME NEW v \in Worker, v # w PROVE Covers(tick[v])'
  <2>1. tick'[v] = tick[v] /\ Covers(tick[v])
    BY <1>1 DEF SteadyInv
  <2> QED BY <2>1 DEF Covers, Sweeps
<1>2. SteadyDrained'
  BY DEF SteadyInv, SteadyDrained
<1>3. YesterdayDrained'
  BY DEF SteadyInv, YesterdayDrained
<1>4. steady' \subseteq active'
  BY DEF SteadyInv
<1> QED BY <1>1, <1>2, <1>3, <1>4 DEF SteadyInv

LEMMA StepSteady == TypeOK /\ SteadyInv /\ [Next]_vars => SteadyInv'
<1> SUFFICES ASSUME TypeOK, SteadyInv, [Next]_vars PROVE SteadyInv'
  OBVIOUS
<1>0. /\ today \in Int /\ counter \in [Key -> SUBSET Hit] /\ tick \in [Worker -> Tick]
      /\ steady \subseteq Ad
  BY KeyParts DEF TypeOK
<1>1. ASSUME NEW h \in Hit, Increment(h) PROVE SteadyInv'
  <2>1. PICK a \in Ad, e \in Event,
             d \in IF phase = "midnight" THEN {today, today - 1} ELSE {today} :
               /\ <<a, e, d>> \in Key
               /\ counter' = [counter EXCEPT ![<<a, e, d>>] = @ \cup {h}]
    BY <1>1 DEF Increment
  <2>2. UNCHANGED <<today, phase, active, steady, tick>>
    BY <1>1 DEF Increment
  <2>3. \A k \in Key : k[3] < today - 1 => counter'[k] = counter[k]
    BY <1>0, <2>1, KeyParts
  <2>4. phase # "midnight" => \A k \in Key : k[3] < today => counter'[k] = counter[k]
    BY <1>0, <2>1, KeyParts
  <2>5. ASSUME NEW v \in Worker PROVE Covers(tick[v])'
    <3>1. Covers(tick[v]) /\ tick'[v] = tick[v]
      BY <2>2 DEF SteadyInv
    <3> QED BY <1>0, <2>2, <2>4, <3>1 DEF Covers, Sweeps
  <2>6. SteadyDrained'
    BY <2>2, <2>3 DEF SteadyInv, SteadyDrained
  <2>7. YesterdayDrained'
    BY <2>2, <2>4 DEF SteadyInv, YesterdayDrained
  <2> QED BY <2>2, <2>5, <2>6, <2>7 DEF SteadyInv
<1>2. ASSUME NEW a \in Ad, Toggle(a) PROVE SteadyInv'
  <2>1. UNCHANGED <<today, phase, counter, tick>> /\ steady' \subseteq steady
        /\ steady' \subseteq active'
    BY <1>2 DEF Toggle
  <2>2. ASSUME NEW v \in Worker PROVE Covers(tick[v])'
    <3>1. Covers(tick[v]) /\ tick'[v] = tick[v]
      BY <2>1 DEF SteadyInv
    <3> QED BY <2>1, <3>1 DEF Covers, Sweeps
  <2>3. SteadyDrained' /\ YesterdayDrained'
    BY <2>1 DEF SteadyInv, SteadyDrained, YesterdayDrained
  <2> QED BY <2>1, <2>2, <2>3 DEF SteadyInv
<1>3. CASE Midnight
  <2>1. /\ phase = "ticked" /\ today' = today + 1 /\ phase' = "midnight"
        /\ UNCHANGED <<active, steady, counter, tick>>
    BY <1>3 DEF Midnight
  <2>2. ASSUME NEW v \in Worker PROVE Covers(tick[v])'
    <3>1. Covers(tick[v]) /\ tick'[v] = tick[v] /\ tick[v].day \in Int
      BY <1>0, <2>1, KeyParts DEF SteadyInv, Tick
    <3>2. tick[v].day <= today
      BY <3>1 DEF Covers
    <3> QED BY <1>0, <2>1, <3>1, <3>2 DEF Covers, Sweeps
  <2>3. SteadyDrained'
    <3>1. \A k \in Key : k[3] < today' - 1 => k[3] < today
      BY <1>0, <2>1, KeyParts
    <3> QED BY <2>1, <3>1 DEF SteadyInv, SteadyDrained, YesterdayDrained
  <2>4. YesterdayDrained'
    BY <2>1 DEF YesterdayDrained
  <2> QED BY <2>1, <2>2, <2>3, <2>4 DEF SteadyInv
<1>4. CASE Morning
  <2>1. /\ phase = "midnight" /\ phase' = "day"
        /\ UNCHANGED <<today, active, steady, counter, tick>>
    BY <1>4 DEF Morning
  <2>2. ASSUME NEW v \in Worker PROVE Covers(tick[v])'
    <3>1. Covers(tick[v]) /\ tick'[v] = tick[v]
      BY <2>1 DEF SteadyInv
    <3> QED BY <2>1, <3>1 DEF Covers, Sweeps
  <2>3. SteadyDrained' /\ YesterdayDrained'
    BY <2>1 DEF SteadyInv, SteadyDrained, YesterdayDrained
  <2> QED BY <2>1, <2>2, <2>3 DEF SteadyInv
<1>5. ASSUME NEW w \in Worker, Work(w) \/ CutShort(w) PROVE SteadyInv'
  <2>0. tick[w] \in Tick /\ Covers(tick[w])
    BY <1>0 DEF SteadyInv
  <2>1. CASE NothingActive(w)
    <3>1. /\ steady = {} /\ tick' = tick /\ counter' = counter
          /\ UNCHANGED <<today, active, steady>>
          /\ phase = "midnight" <=> phase' = "midnight"
      BY <2>1 DEF NothingActive, SteadyInv
    <3>2. YesterdayDrained'
      BY <3>1 DEF YesterdayDrained
    <3>3. Covers(tick[w])'
      BY <2>0, <3>1 DEF Covers, Sweeps
    <3> QED BY <3>1, <3>2, <3>3, WorkerKeepsSteady
  <2>2. CASE Load(w)
    <3>1. /\ tick' = [tick EXCEPT ![w].pc = "loaded", ![w].ads = active]
          /\ UNCHANGED <<today, phase, active, steady, counter>>
      BY <2>2 DEF Load
    <3>2. /\ tick'[w].pc = "loaded" /\ tick'[w].ads = active /\ tick'[w].day = tick[w].day
          /\ \A v \in Worker : v # w => tick'[v] = tick[v]
      BY <1>0, <2>0, <3>1 DEF Tick
    <3>3. Covers(tick[w])'
      BY <2>0, <3>1, <3>2 DEF Covers, Sweeps, SteadyInv
    <3> QED BY <3>1, <3>2, <3>3, WorkerKeepsSteady
  <2>3. CASE Begin(w)
    <3> DEFINE todo == tick[w].ads \X Event \X datesToDrain
               clean == phase # "midnight"
    <3>1. /\ tick' = [tick EXCEPT ![w].pc = "drain", ![w].day = today,
                                  ![w].todo = todo, ![w].clean = clean]
          /\ tick[w].pc = "loaded"
          /\ UNCHANGED <<today, phase, active, steady, counter>>
      BY <2>3 DEF Begin
    <3>2. \A k \in Key : (k[1] \in steady /\ k[3] = today - 1) => k \in todo
      BY <2>0, <3>1, KeyParts DEF Covers, datesToDrain
    <3>0. todo \in SUBSET Key
      <4>1. tick[w].ads \in SUBSET Ad BY <2>0 DEF Tick
      <4>2. datesToDrain \in SUBSET Day BY DEF datesToDrain
      <4> QED BY <4>1, <4>2 DEF Key
    <3> HIDE DEF todo, clean
    <3>3. /\ tick'[w].pc = "drain" /\ tick'[w].day = today /\ tick'[w].todo = todo
          /\ tick'[w].clean = clean
          /\ \A v \in Worker : v # w => tick'[v] = tick[v]
      <4> DEFINE t1 == [tick EXCEPT ![w].pc = "drain"]
                 t2 == [t1 EXCEPT ![w].day = today]
                 t3 == [t2 EXCEPT ![w].todo = todo]
      <4>1. tick' = [t3 EXCEPT ![w].clean = clean]
        BY <3>1
      <4>2. /\ t1 \in [Worker -> Tick] /\ t1[w].pc = "drain"
            /\ \A v \in Worker : v # w => t1[v] = tick[v]
        BY <1>0, <2>0 DEF Tick
      <4> HIDE DEF t1
      <4>3. /\ t2 \in [Worker -> Tick] /\ t2[w].pc = "drain" /\ t2[w].day = today
            /\ \A v \in Worker : v # w => t2[v] = tick[v]
        <5>1. today \in Day
          BY DEF TypeOK
        <5> QED BY <4>2, <5>1 DEF Tick
      <4> HIDE DEF t2
      <4>4. /\ t3 \in [Worker -> Tick] /\ t3[w].pc = "drain" /\ t3[w].day = today
            /\ t3[w].todo = todo /\ \A v \in Worker : v # w => t3[v] = tick[v]
        BY <3>0, <4>3 DEF Tick
      <4> HIDE DEF t3
      <4> QED BY <4>1, <4>4 DEF Tick
    <3>4. UNCHANGED <<today, phase, active, steady, counter>>
      BY <3>1
    <3>5. tick'[w].clean => phase' # "midnight"
      BY <3>3, <3>4 DEF clean
    <3>6. /\ tick'[w].pc = "drain" /\ tick'[w].day = today /\ tick'[w].todo = todo
      BY <3>3
    <3>7. Covers(tick[w])'
      BY <1>0, <3>2, <3>4, <3>5, <3>6 DEF Covers, Sweeps
    <3>8. /\ \A v \in Worker : v # w => tick'[v] = tick[v]
          /\ phase = "midnight" <=> phase' = "midnight"
          /\ \A k \in Key : counter'[k] \subseteq counter[k]
      BY <3>3, <3>4
    <3> QED BY <3>4, <3>7, <3>8, WorkerKeepsSteady
  <2>4. ASSUME NEW k \in Key, GetDel(w, k) PROVE SteadyInv'
    <3>1. /\ tick[w].pc = "drain" /\ UNCHANGED <<today, phase, active, steady>>
          /\ counter' = [counter EXCEPT ![k] = {}]
          /\ tick' = [tick EXCEPT ![w].todo = @ \ {k}, ![w].delta[k] = @ \cup counter[k]]
      BY <2>4 DEF GetDel
    <3>2. /\ tick'[w].pc = "drain" /\ tick'[w].day = tick[w].day
          /\ tick'[w].clean = tick[w].clean
          /\ tick'[w].todo = tick[w].todo \ {k}
          /\ \A v \in Worker : v # w => tick'[v] = tick[v]
      BY <1>0, <2>0, <3>1 DEF Tick
    <3>3. /\ counter'[k] = {} /\ \A j \in Key : j # k => counter'[j] = counter[j]
          /\ \A j \in Key : counter'[j] \subseteq counter[j]
      BY <1>0, <3>1
    <3>4. Covers(tick[w])'
      BY <2>0, <3>1, <3>2, <3>3 DEF Covers, Sweeps
    <3> QED BY <3>1, <3>2, <3>3, <3>4, WorkerKeepsSteady
  <2>5. ASSUME NEW k \in Key, GetDelFailed(w, k) PROVE SteadyInv'
    <3>1. /\ tick[w].pc = "drain" /\ UNCHANGED <<today, phase, active, steady>>
          /\ tick' = [tick EXCEPT ![w].todo = @ \ {k}, ![w].clean = FALSE]
      BY <2>5 DEF GetDelFailed
    <3>2. /\ tick'[w].pc = "drain" /\ tick'[w].day = tick[w].day
          /\ tick'[w].clean = FALSE
          /\ \A v \in Worker : v # w => tick'[v] = tick[v]
      BY <1>0, <2>0, <3>1 DEF Tick
    <3>3. \A j \in Key : counter'[j] \subseteq counter[j]
      BY <1>0, <2>5 DEF GetDelFailed
    <3>4. Covers(tick[w])'
      BY <2>0, <3>1, <3>2 DEF Covers, Sweeps
    <3> QED BY <3>1, <3>2, <3>3, <3>4, WorkerKeepsSteady
  <2>6. CASE Drained(w)
    <3>1. /\ tick[w].pc = "drain" /\ tick[w].todo = {}
          /\ UNCHANGED <<today, phase, active, steady, counter>>
          /\ tick' = [tick EXCEPT ![w].pc = "upsert"]
      BY <2>6 DEF Drained
    <3>2. /\ tick'[w].pc = "upsert" /\ tick'[w].day = tick[w].day
          /\ tick'[w].clean = tick[w].clean /\ tick'[w].todo = {}
          /\ \A v \in Worker : v # w => tick'[v] = tick[v]
      BY <1>0, <2>0, <3>1 DEF Tick
    <3>3. Covers(tick[w])'
      BY <2>0, <3>1, <3>2 DEF Covers, Sweeps
    <3> QED BY <3>1, <3>2, <3>3, WorkerKeepsSteady
  <2>7. ASSUME NEW row \in Row, Upsert(w, row) PROVE SteadyInv'
    <3>1. /\ tick[w].pc = "upsert"
          /\ UNCHANGED <<today, phase, active, steady, counter>>
          /\ tick' = [tick EXCEPT ![w].delta = WithoutRow(w, row)]
      BY <2>7 DEF Upsert
    <3>2. /\ tick'[w].pc = "upsert" /\ tick'[w].day = tick[w].day
          /\ tick'[w].clean = tick[w].clean /\ tick'[w].todo = tick[w].todo
          /\ \A v \in Worker : v # w => tick'[v] = tick[v]
      BY <1>0, <2>0, <3>1 DEF Tick
    <3>3. Covers(tick[w])'
      BY <2>0, <3>1, <3>2 DEF Covers, Sweeps
    <3> QED BY <3>1, <3>2, <3>3, WorkerKeepsSteady
  <2>8. ASSUME tick' = [tick EXCEPT ![w] = Idle],
               UNCHANGED <<today, active, steady, counter>>,
               phase' = phase \/ YesterdayDrained',
               phase = "midnight" <=> phase' = "midnight"
        PROVE  SteadyInv'
    <3>1. tick'[w] = Idle /\ \A v \in Worker : v # w => tick'[v] = tick[v]
      BY <1>0, <2>8
    <3>2. Idle.pc = "idle" /\ Idle.day = 0
      BY DEF Idle
    <3>3. 0 <= today
      BY KeyParts DEF TypeOK
    <3>4. Covers(tick[w])'
      BY <2>8, <3>1, <3>2, <3>3 DEF Covers, Sweeps
    <3> QED BY <2>8, <3>1, <3>4, WorkerKeepsSteady
  <2>9. ASSUME NEW row \in Row, UpsertFailed(w, row) PROVE SteadyInv'
    BY <2>8, <2>9 DEF UpsertFailed
  <2>10. CASE CutShort(w)
    BY <2>8, <2>10 DEF CutShort
  <2>11. CASE Finish(w)
    <3>1. /\ tick[w].pc = "upsert" /\ tick' = [tick EXCEPT ![w] = Idle]
          /\ UNCHANGED <<today, active, steady, counter>>
          /\ phase' = IF tick[w].clean /\ tick[w].day = today THEN "ticked" ELSE phase
      BY <2>11 DEF Finish
    <3>2. CASE tick[w].clean /\ tick[w].day = today
      <4>1. /\ phase # "midnight"
            /\ \A k \in Key : (k[1] \in steady /\ k[3] = today - 1) => counter[k] = {}
        BY <2>0, <3>1, <3>2 DEF Covers, Sweeps
      <4>2. \A k \in Key : (k[1] \in steady /\ k[3] < today - 1) => counter[k] = {}
        BY DEF SteadyInv, SteadyDrained
      <4>3. \A k \in Key : k[3] < today => k[3] = today - 1 \/ k[3] < today - 1
        BY <1>0, KeyParts
      <4>4. YesterdayDrained'
        BY <3>1, <4>1, <4>2, <4>3 DEF YesterdayDrained
      <4> QED BY <2>8, <3>1, <3>2, <4>1, <4>4
    <3>3. CASE ~(tick[w].clean /\ tick[w].day = today)
      BY <2>8, <3>1, <3>3
    <3> QED BY <3>2, <3>3
  <2> QED BY <1>5, <2>1, <2>2, <2>3, <2>4, <2>5, <2>6, <2>7, <2>9, <2>10, <2>11
          DEF Work
<1>6. CASE UNCHANGED vars
  BY <1>6 DEF vars, SteadyInv, Covers, Sweeps, SteadyDrained, YesterdayDrained
<1> QED BY <1>1, <1>2, <1>3, <1>4, <1>5, <1>6 DEF Next

(* An ad that stays active leaves nothing behind in Redis: with one clean  *)
(* tick a day, any number of workers, and reloads, failures and midnights  *)
(* anywhere, its counters of days the worker no longer reads are empty     *)
(* (worker/drainer.go, datesToDrain).                                      *)
THEOREM SteadyAdsDrained == Spec => []SteadyDrained
<1>1. Init => SteadyInv
  BY DEF Init, SteadyInv, Covers, Sweeps, Idle, SteadyDrained, YesterdayDrained, NoDelta
<1>2. SteadyInv => SteadyDrained
  BY DEF SteadyInv
<1> QED BY <1>1, <1>2, InitTyped, StepTyped, StepSteady, PTL DEF Spec

=============================================================================
