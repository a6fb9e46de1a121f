-------------------------- MODULE WorkerLockProofs --------------------------
(***************************************************************************)
(* Mutual exclusion of ticks, for any number of workers and any timings    *)
(* with TickTimeout + Delay < LockTTL, until a client sends a release that *)
(* it gave up on again.                                                    *)
(***************************************************************************)
EXTENDS WorkerLock, TLAPS

Releases == {m \in late : m.op = "release"}
Holding(w) == pc[w] \in {"tick", "release"} /\ Live(w)

(* A tick that can still act, or release, owns the key and ends before it. *)
Owns == \A w \in Worker : Holding(w) => owner = Id(w) /\ ttl > left[w] + Delay

(* A release in flight finds the key it was sent for: it cannot outlive    *)
(* that key, its worker is not in a tick, and it is alone.                 *)
ReleasesHitOwnKey ==
  /\ \A m \in Releases :
       /\ owner = m.id /\ ttl > m.left
       /\ \A w \in Worker : Holding(w) => Id(w) # m.id
  /\ \A m, n \in Releases : m = n

Excluding == Owns /\ ReleasesHitOwnKey

LockInv == TypeOK /\ (NoResend => Excluding)

LEMMA IdType ==
  ASSUME TypeOK, NEW w \in Worker
  PROVE  Id(w) \in Worker \X Nat /\ Id(w) # NoOwner
BY LockAssumption DEF Id, TypeOK

LEMMA IdInjective ==
  ASSUME NEW v \in Worker, NEW w \in Worker, Id(v) = Id(w)
  PROVE  v = w
BY DEF Id

LEMMA CommandType ==
  ASSUME TypeOK, NEW w \in Worker, NEW op \in {"setnx", "release"}
  PROVE  [op |-> op, id |-> Id(w), left |-> Delay] \in Command
BY IdType, LockAssumption DEF Command

LEMMA LeftBehindType ==
  ASSUME TypeOK, NEW w \in Worker, NEW op \in {"setnx", "release"},
         LeftBehind(op, Id(w))
  PROVE  late' \in SUBSET Command
<1>1. late \in SUBSET Command
  BY DEF TypeOK
<1>2. late' = late \/ late' = late \cup {[op |-> op, id |-> Id(w), left |-> Delay]}
  BY DEF LeftBehind
<1> DEFINE m == [op |-> op, id |-> Id(w), left |-> Delay]
<1>3. m \in Command
  BY CommandType
<1> HIDE DEF m
<1>4. late' = late \/ late' = late \cup {m}
  BY <1>2 DEF m
<1> QED BY <1>1, <1>3, <1>4

LEMMA InitLock == Init => LockInv
BY LockAssumption DEF Init, LockInv, TypeOK, Excluding, Owns, ReleasesHitOwnKey, Releases, Holding

LEMMA NextType ==
  ASSUME TypeOK, [Next]_vars
  PROVE  TypeOK'
<1>1. ASSUME NEW w \in Worker, StartTick(w) PROVE TypeOK'
  BY <1>1, LockAssumption DEF StartTick, TypeOK
<1>2. ASSUME NEW w \in Worker, Acquire(w) PROVE TypeOK'
  BY <1>2, LockAssumption, IdType DEF Acquire, SetNX, TypeOK
<1>3. ASSUME NEW w \in Worker, Locked(w) PROVE TypeOK'
  BY <1>3 DEF Locked, TypeOK
<1>4. ASSUME NEW w \in Worker, AcquireFailed(w) PROVE TypeOK'
  <2>1. owner' \in (Worker \X Nat) \cup {NoOwner} /\ ttl' \in 0..LockTTL
    BY <1>4, LockAssumption, IdType DEF AcquireFailed, SetNX, TypeOK
  <2>2. late' \in SUBSET Command
    BY <1>4, LeftBehindType DEF AcquireFailed, TypeOK
  <2> QED BY <1>4, <2>1, <2>2 DEF AcquireFailed, TypeOK
<1>5. ASSUME NEW w \in Worker, TickReturns(w) PROVE TypeOK'
  BY <1>5 DEF TickReturns, TypeOK
<1>6. ASSUME NEW w \in Worker, Release(w) PROVE TypeOK'
  BY <1>6, LockAssumption DEF Release, CompareAndDelete, TypeOK
<1>7. ASSUME NEW w \in Worker, ReleaseResent(w) PROVE TypeOK'
  BY <1>7, LeftBehindType DEF ReleaseResent, TypeOK
<1>8. ASSUME NEW w \in Worker, ReleaseFailed(w) PROVE TypeOK'
  <2>1. late' \in SUBSET Command
    BY <1>8, LeftBehindType DEF ReleaseFailed, TypeOK
  <2> QED BY <1>8, <2>1 DEF ReleaseFailed, TypeOK
<1>9. ASSUME NEW w \in Worker, Exit(w) \/ Terminate(w) \/ Crash(w) \/ Restart(w)
      PROVE  TypeOK'
  BY <1>9, LockAssumption DEF Exit, Terminate, Crash, Restart, TypeOK
<1>10. ASSUME NEW m \in late, Land(m) PROVE TypeOK'
  <2>1. m.id \in Worker \X Nat
    BY DEF TypeOK, Command
  <2>2. owner' \in (Worker \X Nat) \cup {NoOwner} /\ ttl' \in 0..LockTTL
    BY <1>10, <2>1, LockAssumption DEF Land, CompareAndDelete, SetNX, TypeOK
  <2> QED BY <1>10, <2>2 DEF Land, TypeOK
<1>11. CASE Elapse
  <2>1. \A n \in Nat : Dec(n) \in Nat /\ Dec(n) <= n
    BY DEF Dec
  <2>2. ttl' \in 0..LockTTL /\ left' \in [Worker -> 0..TickTimeout]
    BY <1>11, <2>1, LockAssumption DEF Elapse, TypeOK
  <2>3. ASSUME NEW m \in late PROVE [m EXCEPT !.left = Dec(@)] \in Command
    <3>1. m \in Command /\ m.left \in 0..Delay
      BY DEF TypeOK, Command
    <3>2. Dec(m.left) \in 0..Delay
      BY <2>1, <3>1, LockAssumption
    <3> QED BY <3>1, <3>2 DEF Command
  <2>4. late' \in SUBSET Command
    BY <1>11, <2>3 DEF Elapse
  <2>5. owner' \in (Worker \X Nat) \cup {NoOwner}
    BY <1>11 DEF Elapse, TypeOK
  <2> QED BY <1>11, <2>2, <2>4, <2>5 DEF Elapse, TypeOK
<1>12. CASE UNCHANGED vars
  BY <1>12 DEF vars, TypeOK
<1> QED
  BY <1>1, <1>2, <1>3, <1>4, <1>5, <1>6, <1>7, <1>8, <1>9, <1>10, <1>11, <1>12
  DEF Next, Run

(* While the key is unset nobody holds it and no release is in flight.     *)
LEMMA FreeMeansQuiet ==
  ASSUME TypeOK, Excluding, owner = NoOwner
  PROVE  Releases = {} /\ \A w \in Worker : ~Holding(w)
<1>1. \A m \in Releases : m.id \in Worker \X Nat
  BY DEF TypeOK, Command, Releases
<1>2. NoOwner \notin Worker \X Nat
  BY LockAssumption
<1>3. \A w \in Worker : Id(w) # NoOwner
  BY IdType
<1> QED BY <1>1, <1>2, <1>3 DEF Excluding, ReleasesHitOwnKey, Owns, Holding

(* A step that frees nobody's key and adds no release: no new holder, no   *)
(* new release, the same key.                                              *)
LEMMA QuietStep ==
  ASSUME TypeOK, Excluding, UNCHANGED <<owner, ttl>>,
         Releases' \subseteq Releases,
         \A w \in Worker : Holding(w)' => Holding(w) /\ Id(w)' = Id(w) /\ left'[w] = left[w]
  PROVE  Excluding'
<1>1. Owns'
  BY DEF Excluding, Owns, Holding
<1>2. ReleasesHitOwnKey'
  BY DEF Excluding, ReleasesHitOwnKey
<1> QED BY <1>1, <1>2 DEF Excluding

(* Without a resend every step keeps the key with its holder.              *)
LEMMA NextLock ==
  ASSUME TypeOK, Excluding, NoResend', [Next]_vars
  PROVE  Excluding'
<1> USE DEF Excluding
<1>0. /\ pc \in [Worker -> {"idle", "acquire", "tick", "release", "down"}]
      /\ left \in [Worker -> 0..TickTimeout] /\ life \in [Worker -> Nat]
      /\ \A w \in Worker : left[w] \in Nat
  BY LockAssumption DEF TypeOK
<1>1. ASSUME NEW w \in Worker, StartTick(w)
      PROVE  Excluding'
  <2>1. \A v \in Worker : Holding(v)' => Holding(v) /\ Id(v)' = Id(v) /\ left'[v] = left[v]
    BY <1>0, <1>1 DEF StartTick, Holding, Live, Id
  <2> QED BY <1>1, <2>1, QuietStep DEF StartTick, Releases
<1>2. ASSUME NEW w \in Worker, Acquire(w)
      PROVE  Excluding'
  <2>1. Releases' = {} /\ \A v \in Worker : ~Holding(v)
    BY <1>2, FreeMeansQuiet DEF Acquire, SetNX, Releases
  <2>2. \A v \in Worker : Holding(v)' => v = w
    BY <1>0, <1>2, <2>1 DEF Acquire, Holding, Live
  <2>3. owner' = Id(w)' /\ ttl' = LockTTL /\ left'[w] <= TickTimeout /\ left'[w] \in Nat
    BY <1>0, <1>2, LockAssumption DEF Acquire, SetNX, Id, TypeOK
  <2>4. Owns'
    BY <2>2, <2>3, LockAssumption DEF Owns, Holding
  <2> QED BY <2>1, <2>4 DEF ReleasesHitOwnKey
<1>3. ASSUME NEW w \in Worker,
             \/ Locked(w) \/ TickReturns(w) \/ Exit(w) \/ Terminate(w) \/ Crash(w)
             \/ Restart(w)
      PROVE  Excluding'
  <2>1. \A v \in Worker : Holding(v)' => Holding(v) /\ Id(v)' = Id(v) /\ left'[v] = left[v]
    BY <1>0, <1>3 DEF Locked, TickReturns, Exit, Terminate, Crash, Restart, Holding, Live, Id
  <2>2. Releases' = Releases /\ UNCHANGED <<owner, ttl>>
    BY <1>3 DEF Locked, TickReturns, Exit, Terminate, Crash, Restart, Releases
  <2> QED BY <2>1, <2>2, QuietStep
<1>4. ASSUME NEW w \in Worker, AcquireFailed(w)
      PROVE  Excluding'
  <2>1. \A v \in Worker : Holding(v)' => Holding(v) /\ Id(v)' = Id(v) /\ left'[v] = left[v]
    BY <1>0, <1>4 DEF AcquireFailed, Holding, Live, Id
  <2>2. Releases' = Releases
    BY <1>4 DEF AcquireFailed, LeftBehind, Releases
  <2>3. CASE UNCHANGED <<owner, ttl>>
    BY <2>1, <2>2, <2>3, QuietStep
  <2>4. CASE SetNX(Id(w))
    <3>1. Releases' = {} /\ \A v \in Worker : ~Holding(v)'
      BY <2>1, <2>2, <2>4, FreeMeansQuiet DEF SetNX
    <3> QED BY <3>1 DEF Owns, ReleasesHitOwnKey, Holding
  <2> QED BY <1>4, <2>3, <2>4 DEF AcquireFailed
<1>5. ASSUME NEW w \in Worker, Release(w)
      PROVE  Excluding'
  <2>1. Holding(w) /\ owner = Id(w)
    BY <1>5 DEF Release, Holding, Owns
  <2>2. \A v \in Worker : Holding(v) => v = w
    BY <2>1, IdInjective DEF Owns, Holding
  <2>3. \A v \in Worker : ~Holding(v)'
    BY <1>0, <1>5, <2>2 DEF Release, Holding, Live
  <2>4. Releases = {}
    BY <2>1 DEF ReleasesHitOwnKey
  <2>5. Releases' = {}
    BY <1>5, <2>4 DEF Release, Releases
  <2> QED BY <2>3, <2>5 DEF Owns, ReleasesHitOwnKey, Holding
<1>6. ASSUME NEW w \in Worker, ReleaseResent(w)
      PROVE  FALSE
  BY <1>6 DEF ReleaseResent, NoResend, TypeOK
<1>7. ASSUME NEW w \in Worker, ReleaseFailed(w)
      PROVE  Excluding'
  <2>1. \A v \in Worker : Holding(v)' => Holding(v) /\ Id(v)' = Id(v) /\ left'[v] = left[v]
    BY <1>0, <1>7 DEF ReleaseFailed, Holding, Live, Id
  <2>2. CASE late' = late
    BY <1>7, <2>1, <2>2, QuietStep DEF ReleaseFailed, Releases
  <2>3. CASE late' # late
    <3> DEFINE m == [op |-> "release", id |-> Id(w), left |-> Delay]
    <3>1. Live(w) /\ late' = late \cup {m}
      BY <1>7, <2>3 DEF ReleaseFailed, LeftBehind
    <3>2. Holding(w) /\ owner = Id(w) /\ ttl > left[w] + Delay
      BY <1>7, <3>1 DEF ReleaseFailed, Holding, Owns
    <3>3. Releases = {}
      BY <3>2 DEF ReleasesHitOwnKey
    <3>4. Releases' = {m}
      BY <3>1, <3>3 DEF Releases
    <3>5. owner' = m.id /\ ttl' > m.left
      BY <1>0, <1>7, <3>2, LockAssumption DEF ReleaseFailed, TypeOK
    <3>6. \A v \in Worker : Holding(v)' => Id(v)' # m.id
      <4>1. SUFFICES ASSUME NEW v \in Worker, Holding(v)', Id(v)' = m.id PROVE FALSE
        OBVIOUS
      <4>2. v = w
        BY <2>1, <4>1, IdInjective
      <4> QED BY <1>0, <1>7, <4>1, <4>2 DEF ReleaseFailed, Holding
    <3>7. Owns'
      BY <1>7, <2>1 DEF ReleaseFailed, Owns, Holding
    <3> HIDE DEF m
    <3> QED BY <3>4, <3>5, <3>6, <3>7 DEF ReleasesHitOwnKey
  <2> QED BY <2>2, <2>3
<1>8. ASSUME NEW m \in late, Land(m)
      PROVE  Excluding'
  <2>1. /\ \A v \in Worker : Holding(v)' <=> Holding(v)
        /\ \A v \in Worker : Id(v)' = Id(v) /\ left'[v] = left[v]
        /\ Releases' \subseteq Releases
    BY <1>8 DEF Land, Holding, Live, Id, Releases
  <2>2. CASE UNCHANGED <<owner, ttl>>
    BY <2>1, <2>2, QuietStep
  <2>3. CASE SetNX(m.id)
    <3>1. Releases' = {} /\ \A v \in Worker : ~Holding(v)'
      BY <2>1, <2>3, FreeMeansQuiet DEF SetNX
    <3> QED BY <3>1 DEF Owns, ReleasesHitOwnKey, Holding
  <2>4. CASE m.op = "release"
    <3>1. m \in Releases /\ Releases' = {}
      BY <1>8, <2>4 DEF Land, Releases, ReleasesHitOwnKey
    <3>2. \A v \in Worker : ~Holding(v)
      BY <3>1 DEF ReleasesHitOwnKey, Owns, Holding
    <3> QED BY <2>1, <3>1, <3>2 DEF Owns, ReleasesHitOwnKey, Holding
  <2> QED BY <1>8, <2>2, <2>3, <2>4 DEF Land
<1>9. CASE Elapse
  <2>0. ttl \in Nat /\ \A m \in late : m.left \in Nat /\ m \in Command
    BY LockAssumption DEF TypeOK, Command
  <2>1. \A v \in Worker : Holding(v)' => Holding(v) /\ Id(v)' = Id(v) /\ left'[v] = left[v] - 1
    BY <1>0, <1>9 DEF Elapse, Dec, Holding, Live, Id
  <2>2. ASSUME NEW v \in Worker, Holding(v)'
        PROVE  owner' = Id(v)' /\ ttl' > left'[v] + Delay
    <3>1. owner = Id(v) /\ ttl > left[v] + Delay /\ left[v] > 0
      BY <2>1, <2>2 DEF Owns, Holding, Live
    <3>2. ttl > 1 /\ ttl' = ttl - 1 /\ owner' = owner
      BY <1>0, <1>9, <2>0, <3>1, LockAssumption DEF Elapse, Dec
    <3> QED BY <1>0, <2>0, <2>1, <2>2, <3>1, <3>2, LockAssumption
  <2>3. ASSUME NEW n \in Releases'
        PROVE  \E m \in Releases : /\ n = [m EXCEPT !.left = Dec(@)]
                                   /\ m.left > 0 /\ n.id = m.id /\ n.left = m.left - 1
    <3>1. PICK m \in late : m.left > 0 /\ n = [m EXCEPT !.left = Dec(@)]
      BY <1>9 DEF Elapse, Releases
    <3>2. m \in Command
      BY <2>0
    <3>3. n.op = m.op /\ n.id = m.id /\ n.left = Dec(m.left)
      BY <3>1, <3>2 DEF Command
    <3> QED BY <2>0, <3>1, <3>3 DEF Releases, Dec
  <2>4. ASSUME NEW n \in Releases'
        PROVE  /\ owner' = n.id /\ ttl' > n.left
               /\ \A w \in Worker : Holding(w)' => Id(w)' # n.id
    <3>1. PICK m \in Releases : m.left > 0 /\ n.id = m.id /\ n.left = m.left - 1
      BY <2>3
    <3>2. owner = m.id /\ ttl > m.left /\ m.left \in Nat
      BY <2>0, <3>1 DEF ReleasesHitOwnKey, Releases
    <3>3. ttl > 1 /\ ttl' = ttl - 1 /\ owner' = owner
      BY <1>9, <2>0, <3>1, <3>2 DEF Elapse, Dec
    <3>4. \A w \in Worker : Holding(w)' => Id(w)' # n.id
      BY <2>1, <3>1 DEF ReleasesHitOwnKey
    <3> QED BY <2>0, <3>1, <3>2, <3>3, <3>4
  <2>5. \A n, k \in Releases' : n = k
    BY <2>3 DEF ReleasesHitOwnKey
  <2>6. Owns'
    BY <2>2 DEF Owns, Holding
  <2> QED BY <2>4, <2>5, <2>6 DEF ReleasesHitOwnKey
<1>10. CASE UNCHANGED vars
  BY <1>10, QuietStep DEF vars, Releases, Holding, Live, Id
<1> QED BY <1>1, <1>2, <1>3, <1>4, <1>5, <1>6, <1>7, <1>8, <1>9, <1>10 DEF Next, Run

(* Type correctness of the lock, with or without resends.                  *)
THEOREM LockTypeCorrect == Spec => []TypeOK
<1>1. Init => TypeOK
  BY InitLock DEF LockInv
<1>2. TypeOK /\ [Next]_vars => TypeOK'
  BY NextType
<1> QED BY <1>1, <1>2, PTL DEF Spec

LEMMA ResendsStay ==
  ASSUME TypeOK, [Next]_vars, NoResend'
  PROVE  NoResend
<1>1. resends \in Nat /\ resends' = 0
  BY DEF TypeOK, NoResend
<1>2. resends' = resends \/ resends' = resends + 1
  BY DEF Next, Run, StartTick, Acquire, Locked, AcquireFailed, TickReturns, Release,
         ReleaseResent, ReleaseFailed, Exit, Terminate, Crash, Restart, Land, Elapse, vars
<1> QED BY <1>1, <1>2 DEF NoResend

(* Until a client sends a release again, only one replica's tick can act   *)
(* at a time, and it owns the key while it does: the 45 s context ends     *)
(* before the 60 s key, whatever crashes, is lost, or lands late.          *)
THEOREM TicksExclude == Spec => [](MutualExclusion /\ WorkersOwnLock)
<1>1. LockInv /\ [Next]_vars => LockInv'
  BY NextType, NextLock, ResendsStay DEF LockInv
<1>2. LockInv => MutualExclusion /\ WorkersOwnLock
  BY IdInjective DEF LockInv, Excluding, Owns, Holding, MutualExclusion, OneTickAtATime,
                     WorkersOwnLock, Working
<1> QED BY InitLock, <1>1, <1>2, PTL DEF Spec

=============================================================================
