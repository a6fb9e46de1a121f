-------------------------- MODULE RateLimiterProofs -------------------------
(***************************************************************************)
(* What the limiter admits and how its approximate count drifts, for any   *)
(* number of source IPs and requests, any burst, rate, cap and ages.       *)
(***************************************************************************)
EXTENDS RateLimiter, FiniteSetTheorems, TLAPS

(* A bucket was last spent from in the past.                               *)
Clocks == \A r \in Request : bucket[r].last <= now

Types == TypeOK /\ Clocks

(* v names a bucket that was made for k.                                   *)
Makes(v, k) ==
  /\ v \in Request /\ req[v].key = k
  /\ req[v].pc \in {"inc", "take", "spend", "allowed", "limited"}

(* Buckets are stored under, and spent from for, the key they were made    *)
(* for, and a request is admitted at most once, when it is answered.       *)
Owns ==
  /\ \A k \in Key : k \in Stored => Makes(bag[k], k)
  /\ \A r \in Request :
       /\ req[r].pc \in {"inc", "take", "spend"} => Makes(req[r].mine, req[r].key)
       /\ admitted[r] # Never => req[r].pc = "allowed" /\ admitted[r] <= now

(* The requests of k on their way to a bucket that is no longer stored.    *)
Orphans(k) ==
  {r \in Request : /\ req[r].key = k /\ req[r].pc \in {"inc", "take", "spend"}
                   /\ req[r].mine # bag[k]}

(* What the bucket of k, or the one its next request makes, has to give.   *)
Avail(k) == IF k \in Stored THEN Tokens(bag[k]) ELSE Burst

Strays == \A k \in Key : Cardinality(Orphans(k)) <= forgiven[k]

(* Whatever the interval that ends now: what was admitted in it, what the  *)
(* bucket still has and the requests still out on deleted buckets stay     *)
(* within the burst, the rate and what was forgiven.                       *)
Balance ==
  \A k \in Key : \A from \in 0..now :
    Cardinality(Of(k, from, now)) + Avail(k) + Cardinality(Orphans(k))
      <= Burst + Rate * (now - from) + forgiven[k]

RateInv == Types /\ Owns /\ Strays /\ Balance /\ RateHeld

(* Who is about to delete a bucket chose it by a stamp that was old.       *)
Looked ==
  /\ \A r \in Request : /\ req[r].at <= now
                        /\ req[r].pc = "delete" => req[r].stamp < req[r].at - EvictAge
  /\ sweep.pc # "idle" => sweep.cutoff <= now - IdleAge
  /\ sweep.pc = "delete" => sweep.stamp < sweep.cutoff

Using == {"inc", "take", "spend"}
Answered == {"allowed", "limited"}

-----------------------------------------------------------------------------
(***************************************************************************)
(* Types.                                                                  *)
(***************************************************************************)
LEMMA TokensType ==
  ASSUME Types, NEW v \in Request
  PROVE  Tokens(v) \in Nat /\ Tokens(v) <= Burst
<1> USE LimiterAssumption
<1>1. /\ bucket[v].tokens \in Nat
      /\ bucket[v].last \in Nat /\ now \in Nat
      /\ bucket[v].last <= now
  BY DEF Types, TypeOK, Clocks, Bucket, Time
<1> DEFINE age == now - bucket[v].last
<1>2. age \in Nat
  BY <1>1
<1>3. Rate * age \in Nat
  <2> HIDE DEF age
  <2> QED BY <1>2
<1> QED BY <1>1, <1>3 DEF Tokens, Least

LEMMA LimiterInit == Init => Types
<1> SUFFICES ASSUME Init PROVE Types
  OBVIOUS
<1> USE LimiterAssumption
<1>1. 0 \in Time
  BY DEF Time
<1> QED BY <1>1 DEF Init, Types, TypeOK, Clocks, Bucket, Call, Pass, Never

(* An answered request leaves a bucket that has at most its burst.         *)
LEMMA SpendTypes ==
  ASSUME Types, NEW r \in Request, NEW v \in Request, Spend(r, v), now' = now
  PROVE  /\ bucket' \in [Request -> Bucket]
         /\ req' \in [Request -> Call]
         /\ admitted' \in [Request -> Time \cup {Never}]
         /\ \A q \in Request : bucket'[q].tokens <= Burst /\ bucket'[q].last <= now
<1> USE LimiterAssumption
<1>1. Tokens(v) \in Nat /\ Tokens(v) <= Burst
  BY TokensType
<1>2. now \in Time /\ now <= now /\ now \in Nat
  BY DEF Types, TypeOK, Time
<1>3. CASE Tokens(v) >= 1
  <2> DEFINE b == [bucket[v] EXCEPT !.tokens = Tokens(v) - 1, !.last = now]
  <2>1. /\ admitted' = [admitted EXCEPT ![r] = now]
        /\ req' = [req EXCEPT ![r].pc = "allowed"]
        /\ bucket' = [bucket EXCEPT ![v] = b]
    BY <1>3 DEF Spend, Types, TypeOK
  <2>2. Tokens(v) - 1 \in Nat /\ Tokens(v) - 1 <= Burst
    BY <1>1, <1>3
  <2>3. b \in Bucket /\ b.tokens <= Burst /\ b.last <= now
    BY <1>2, <2>2 DEF Types, TypeOK, Bucket
  <2> HIDE DEF b
  <2> QED BY <2>1, <2>3, <1>2 DEF Types, TypeOK, Clocks, Call
<1>4. CASE ~(Tokens(v) >= 1)
  BY <1>4 DEF Spend, Types, TypeOK, Clocks, Call
<1> QED BY <1>3, <1>4

(* A touch moves a stamp, and nothing that is spent.                       *)
LEMMA TouchTypes ==
  ASSUME Types, Owns, NEW r \in Request, Touch(r)
  PROVE  /\ Types'
         /\ \A q \in Request : /\ bucket'[q].tokens = bucket[q].tokens
                               /\ bucket'[q].last = bucket[q].last
<1>1. PICK v \in Request : v = req[r].mine
  BY DEF Touch, Owns, Makes
<1>2. req[r].at \in Time /\ req[r] \in Call /\ bucket[v] \in Bucket
  BY DEF Types, TypeOK, Call
<1> DEFINE b == [bucket[v] EXCEPT !.seen = req[r].at]
<1>3. bucket' = [bucket EXCEPT ![v] = b]
  BY <1>1 DEF Touch, Types, TypeOK
<1>4. b \in Bucket /\ b.tokens = bucket[v].tokens /\ b.last = bucket[v].last
  BY <1>2 DEF Bucket
<1> HIDE DEF b
<1>5. /\ bucket' \in [Request -> Bucket]
      /\ \A q \in Request : /\ bucket'[q].tokens = bucket[q].tokens
                            /\ bucket'[q].last = bucket[q].last
  BY <1>3, <1>4 DEF Types, TypeOK
<1>6. req' \in [Request -> Call]
  BY <1>2 DEF Touch, Types, TypeOK, Call
<1> QED BY <1>5, <1>6 DEF Touch, Types, TypeOK, Clocks

(* What a deletion excuses covers what the bucket lacked, if the stamp it  *)
(* was chosen by was old enough.                                           *)
LEMMA LostType ==
  ASSUME Types, NEW v \in Request, NEW stamp \in Time, NEW age \in Nat
  PROVE  /\ Lost(v, stamp, age) \in Nat
         /\ stamp < now - age => Burst - Tokens(v) <= Lost(v, stamp, age)
<1> USE LimiterAssumption
<1>1. /\ bucket[v].tokens \in Nat
      /\ bucket[v].last \in Nat /\ now \in Nat /\ stamp \in Nat
      /\ Tokens(v) \in Nat /\ Tokens(v) <= Burst
  BY TokensType DEF Types, TypeOK, Bucket, Time
<1>2. CASE bucket[v].last > stamp
  BY <1>1, <1>2 DEF Lost
<1>3. CASE ~(bucket[v].last > stamp)
  <2> DEFINE refill == Rate * age
             idle == now - bucket[v].last
             gain == Rate * idle
  <2>1. refill \in Nat
    OBVIOUS
  <2>2. Lost(v, stamp, age) = Burst - Least(Burst, refill)
    BY <1>3 DEF Lost
  <2>3. ASSUME stamp < now - age PROVE gain \in Nat /\ refill <= gain
    <3>1. idle \in Nat /\ age <= idle
      BY <1>1, <1>3, <2>3
    <3> HIDE DEF idle
    <3> QED BY <3>1
  <2>4. Tokens(v) = Least(Burst, bucket[v].tokens + gain)
    BY DEF Tokens
  <2> HIDE DEF refill, gain
  <2> QED BY <1>1, <2>1, <2>2, <2>3, <2>4 DEF Least
<1> QED BY <1>2, <1>3

(* What Delete forgives is a number.                                       *)
LEMMA DeleteTypes ==
  ASSUME Types, NEW k \in Key, NEW stamp \in Time, NEW age \in Nat,
         Delete(k, stamp, age)
  PROVE  /\ bag' \in [Key -> Request \cup {NoBucket}]
         /\ misses' \in Nat
         /\ forgiven' \in [Key -> Nat]
<1> USE LimiterAssumption
<1>1. ASSUME k \in Stored
      PROVE  Lost(bag[k], stamp, age) \in Nat /\ Cardinality(Holders(bag[k])) \in Nat
  <2>1. bag[k] \in Request
    BY <1>1 DEF Stored, Types, TypeOK
  <2>2. Holders(bag[k]) \in SUBSET Request
    BY DEF Holders
  <2>3. IsFiniteSet(Holders(bag[k]))
    BY <2>2, FS_Subset
  <2> QED BY <2>1, <2>3, LostType, FS_CardinalityType
<1>2. /\ bag' \in [Key -> Request \cup {NoBucket}]
      /\ misses' \in Nat
  BY DEF Delete, Types, TypeOK
<1>3. forgiven' \in [Key -> Nat]
  <2>1. CASE k \in Stored
    <3> DEFINE more == Lost(bag[k], stamp, age)
               held == Cardinality(Holders(bag[k]))
    <3>1. more \in Nat /\ held \in Nat
      BY <1>1, <2>1
    <3>2. forgiven' = [forgiven EXCEPT ![k] = @ + more + held]
      BY <2>1 DEF Delete
    <3> HIDE DEF more, held
    <3> QED BY <3>1, <3>2 DEF Types, TypeOK
  <2>2. CASE k \notin Stored
    BY <2>2 DEF Delete, Types, TypeOK
  <2> QED BY <2>1, <2>2
<1> QED BY <1>2, <1>3

(***************************************************************************)
(* The steps of a request that only read, or count: it comes no closer to  *)
(* a bucket, or it comes to the one stored under its key, or it has its    *)
(* bucket and goes on to spend from it.                                    *)
(***************************************************************************)
Quiet(g, h) ==
  \/ g.pc \notin Using \cup Answered /\ h.pc \notin Using \cup Answered
  \/ /\ g.pc \notin Using \cup Answered /\ h.pc \in {"take", "spend"}
     /\ h.key = g.key /\ g.key \in Stored /\ h.mine = bag[g.key]
  \/ /\ g.pc \in {"inc", "take"} /\ h.pc = "spend"
     /\ h.key = g.key /\ h.mine = g.mine

Reads(r) ==
  \/ \E k \in Key : Arrive(r, k) \/ Visit(r, k)
  \/ Load(r) \/ Check(r) \/ RangeEnds(r) \/ Evicted(r) \/ Counted(r)
  \/ Store(r) /\ req[r].key \in Stored

LEMMA ReadsQuietly ==
  ASSUME Types, NEW r \in Request, Reads(r)
  PROVE  \E h \in Call : req' = [req EXCEPT ![r] = h] /\ Quiet(req[r], h) /\ h.pc # "dec"
<1> DEFINE g == req[r]
<1>1. g \in Call /\ req \in [Request -> Call]
  BY DEF Types, TypeOK
<1>2. now \in Time
  BY DEF Types, TypeOK
<1>3. ASSUME NEW k \in Key, Arrive(r, k)
      PROVE  \E h \in Call : req' = [req EXCEPT ![r] = h] /\ Quiet(g, h) /\ h.pc # "dec"
  <2> DEFINE h == [g EXCEPT !.pc = "load", !.key = k, !.at = now]
  <2>1. h \in Call /\ h.pc = "load"
    BY <1>1, <1>2 DEF Call
  <2>2. req' = [req EXCEPT ![r] = h]
    BY <1>1, <1>3 DEF Arrive, Call
  <2>3. g.pc = "idle"
    BY <1>3 DEF Arrive
  <2> QED BY <2>1, <2>2, <2>3 DEF Quiet, Using, Answered
<1>4. ASSUME NEW k \in Key, Visit(r, k)
      PROVE  \E h \in Call : req' = [req EXCEPT ![r] = h] /\ Quiet(g, h) /\ h.pc # "dec"
  <2> DEFINE h1 == [g EXCEPT !.pc = "delete", !.victim = k, !.todo = {},
                             !.stamp = bucket[bag[k]].seen]
             h2 == [g EXCEPT !.todo = @ \ {k}]
  <2>1. h1.pc = "delete" /\ h2 \in Call /\ h2.pc = "range" /\ g.pc = "range"
    BY <1>1, <1>4 DEF Visit, Call
  <2>2. \/ k \in Stored /\ req' = [req EXCEPT ![r] = h1]
        \/ req' = [req EXCEPT ![r] = h2]
    BY <1>1, <1>4 DEF Visit, Call
  <2>3. k \in Stored => h1 \in Call
    <3>1. k \in Stored => bucket[bag[k]].seen \in Time
      BY DEF Stored, Types, TypeOK, Bucket
    <3> QED BY <1>1, <3>1 DEF Call
  <2> HIDE DEF h1, h2
  <2> QED BY <2>1, <2>2, <2>3 DEF Quiet, Using, Answered
<1>5. CASE Load(r)
  <2> DEFINE h1 == [g EXCEPT !.pc = "take", !.mine = bag[g.key]]
             h2 == [g EXCEPT !.pc = "check"]
  <2>1. g.key \in Key /\ bag[g.key] \in Request \cup {NoBucket}
    BY DEF Types, TypeOK, Call
  <2>2. /\ h1 \in Call /\ h1.pc = "take" /\ h1.key = g.key /\ h1.mine = bag[g.key]
        /\ h2 \in Call /\ h2.pc = "check"
        /\ g.pc = "load"
    BY <1>1, <1>5, <2>1 DEF Load, Call
  <2>3. \/ g.key \in Stored /\ req' = [req EXCEPT ![r] = h1]
        \/ req' = [req EXCEPT ![r] = h2]
    BY <1>1, <1>5 DEF Load, Call
  <2> HIDE DEF h1, h2
  <2> QED BY <2>2, <2>3 DEF Quiet, Using, Answered
<1>6. CASE Check(r)
  <2> DEFINE h1 == [g EXCEPT !.pc = "range", !.todo = Key]
             h2 == [g EXCEPT !.pc = "store"]
  <2>1. h1 \in Call /\ h1.pc = "range" /\ h2 \in Call /\ h2.pc = "store" /\ g.pc = "check"
    BY <1>1, <1>6 DEF Check, Call
  <2>2. req' = [req EXCEPT ![r] = h1] \/ req' = [req EXCEPT ![r] = h2]
    BY <1>1, <1>6 DEF Check, Call
  <2> HIDE DEF h1, h2
  <2> QED BY <2>1, <2>2 DEF Quiet, Using, Answered
<1>7. CASE RangeEnds(r) \/ Evicted(r)
  <2> DEFINE h == [g EXCEPT !.pc = "store"]
  <2>1. h \in Call /\ h.pc = "store" /\ g.pc \in {"range", "dec"}
    BY <1>1, <1>7 DEF RangeEnds, Evicted, Call
  <2>2. req' = [req EXCEPT ![r] = h]
    BY <1>1, <1>7 DEF RangeEnds, Evicted, Call
  <2> HIDE DEF h
  <2> QED BY <2>1, <2>2 DEF Quiet, Using, Answered
<1>8. CASE Counted(r)
  <2> DEFINE h == [g EXCEPT !.pc = "spend"]
  <2>1. h \in Call /\ h.pc = "spend" /\ h.key = g.key /\ h.mine = g.mine /\ g.pc = "inc"
    BY <1>1, <1>8 DEF Counted, Call
  <2>2. req' = [req EXCEPT ![r] = h]
    BY <1>1, <1>8 DEF Counted, Call
  <2> HIDE DEF h
  <2> QED BY <2>1, <2>2 DEF Quiet
<1>9. CASE Store(r) /\ g.key \in Stored
  <2> DEFINE h == [g EXCEPT !.pc = "spend", !.mine = bag[g.key]]
  <2>1. g.key \in Key /\ bag[g.key] \in Request \cup {NoBucket}
    BY DEF Types, TypeOK, Call
  <2>2. h \in Call /\ h.pc = "spend" /\ h.key = g.key /\ h.mine = bag[g.key] /\ g.pc = "store"
    BY <1>1, <1>9, <2>1 DEF Store, Call
  <2>3. req' = [req EXCEPT ![r] = h]
    BY <1>1, <1>9 DEF Store, Call
  <2> HIDE DEF h
  <2> QED BY <1>9, <2>2, <2>3 DEF Quiet, Using, Answered
<1> QED BY <1>3, <1>4, <1>5, <1>6, <1>7, <1>8, <1>9 DEF Reads

LEMMA RequestTypes ==
  ASSUME Types, Owns, NEW r \in Request, Allow(r) \/ (\E k \in Key : Arrive(r, k))
  PROVE  Types'
<1> USE LimiterAssumption
<1>1. /\ req[r].key \in Key /\ req[r].victim \in Key /\ req[r].at \in Time
      /\ req[r].mine \in Request \cup {NoBucket}
      /\ now \in Time /\ now \in Nat
  BY DEF Types, TypeOK, Call, Time
<1>2. CASE Take(r)
  <2>1. req[r].mine \in Request
    BY <1>2 DEF Take, Owns, Makes
  <2>3. Spend(r, req[r].mine)
    BY <1>2 DEF Take
  <2>4. UNCHANGED <<now, bag, approxSize, sweep, misses, forgiven, sweeps>>
    BY <1>2 DEF Take
  <2>5. /\ bucket' \in [Request -> Bucket]
        /\ req' \in [Request -> Call]
        /\ admitted' \in [Request -> Time \cup {Never}]
        /\ \A q \in Request : bucket'[q].tokens <= Burst /\ bucket'[q].last <= now
    BY <2>1, <2>3, <2>4, SpendTypes
  <2> QED BY <2>4, <2>5 DEF Types, TypeOK, Clocks
<1>3. CASE Evict(r)
  <2>1. /\ bag' \in [Key -> Request \cup {NoBucket}]
        /\ misses' \in Nat
        /\ forgiven' \in [Key -> Nat]
    <3>1. Delete(req[r].victim, req[r].stamp, EvictAge)
      BY <1>3 DEF Evict
    <3>2. req[r].stamp \in Time /\ EvictAge \in Nat
      BY DEF Types, TypeOK, Call
    <3> QED BY <1>1, <3>1, <3>2, DeleteTypes
  <2>2. req' \in [Request -> Call]
    BY <1>3 DEF Evict, Types, TypeOK, Call
  <2> QED BY <1>3, <2>1, <2>2 DEF Evict, Types, TypeOK, Clocks
<1>4. CASE Store(r) /\ req[r].key \notin Stored
  <2> DEFINE k == req[r].key
  <2>1. /\ bag' = [bag EXCEPT ![k] = r]
        /\ bucket' = [bucket EXCEPT ![r] = Made(r)]
        /\ req' = [req EXCEPT ![r] = [@ EXCEPT !.pc = "inc", !.mine = r]]
        /\ UNCHANGED <<now, approxSize, sweep, admitted, misses, forgiven, sweeps>>
    BY <1>4 DEF Store, Types, TypeOK, Call
  <2>2. Made(r) \in Bucket /\ Made(r).tokens <= Burst /\ Made(r).last <= now
    BY <1>1 DEF Made, Bucket
  <2>3. bag' \in [Key -> Request \cup {NoBucket}]
    BY <2>1 DEF Types, TypeOK
  <2>4. /\ bucket' \in [Request -> Bucket]
        /\ \A q \in Request : bucket'[q].tokens <= Burst /\ bucket'[q].last <= now
    BY <2>1, <2>2 DEF Types, TypeOK, Clocks
  <2>5. req' \in [Request -> Call]
    <3>1. req[r] \in Call
      BY DEF Types, TypeOK
    <3>2. [req[r] EXCEPT !.pc = "inc", !.mine = r] \in Call
      BY <3>1 DEF Call
    <3> QED BY <2>1, <3>2 DEF Types, TypeOK
  <2> QED BY <2>1, <2>3, <2>4, <2>5 DEF Types, TypeOK, Clocks
<1>5. CASE Reads(r)
  <2>1. UNCHANGED <<now, bag, bucket, sweep, admitted, misses, forgiven, sweeps>>
    BY <1>5 DEF Reads, Arrive, Visit, Load, Check, RangeEnds, Evicted, Counted, Store
  <2>2. approxSize' \in Int
    <3>1. approxSize \in Int
      BY DEF Types, TypeOK
    <3>2. approxSize' \in {approxSize, approxSize - 1, approxSize + 1}
      BY <1>5 DEF Reads, Arrive, Visit, Load, Check, RangeEnds, Evicted, Counted, Store
    <3> QED BY <3>1, <3>2
  <2>3. req' \in [Request -> Call]
    BY <1>5, ReadsQuietly DEF Types, TypeOK
  <2> QED BY <2>1, <2>2, <2>3 DEF Types, TypeOK, Clocks
<1>6. CASE Touch(r)
  BY <1>6, TouchTypes
<1> QED BY <1>2, <1>3, <1>4, <1>5, <1>6 DEF Allow, Reads

LEMMA SweepTypes ==
  ASSUME Types, Run \/ Advance \/ UNCHANGED vars
  PROVE  Types'
<1> USE LimiterAssumption
<1>1. CASE SweepDelete
  <2>1. sweep.victim \in Key
    BY DEF Types, TypeOK, Pass
  <2>2. /\ bag' \in [Key -> Request \cup {NoBucket}]
        /\ misses' \in Nat
        /\ forgiven' \in [Key -> Nat]
    <3>1. Delete(sweep.victim, sweep.stamp, IdleAge)
      BY <1>1 DEF SweepDelete
    <3>2. sweep.stamp \in Time /\ IdleAge \in Nat
      BY DEF Types, TypeOK, Pass
    <3> QED BY <2>1, <3>1, <3>2, DeleteTypes
  <2> QED BY <1>1, <2>2 DEF SweepDelete, Types, TypeOK, Clocks, Pass
<1>2. CASE SweepStart \/ (\E k \in Key : SweepVisit(k)) \/ SweepDeleted \/ SweepEnds
  <2>1. UNCHANGED <<now, bag, bucket, req, admitted, misses, forgiven>>
    BY <1>2 DEF SweepStart, SweepVisit, SweepDeleted, SweepEnds
  <2>2. now - IdleAge \in Int
    BY DEF Types, TypeOK, Time
  <2>3. sweep' \in Pass
    <3>1. sweep \in Pass
      BY DEF Types, TypeOK
    <3>2. CASE SweepStart
      <4> DEFINE cut == now - IdleAge
      <4>1. sweep' = [sweep EXCEPT !.pc = "range", !.cutoff = cut, !.todo = Key]
        BY <3>2 DEF SweepStart
      <4> HIDE DEF cut
      <4> QED BY <2>2, <3>1, <4>1 DEF Pass, cut
    <3>3. CASE \E k \in Key : SweepVisit(k)
      <4>1. PICK k \in Key : SweepVisit(k)
        BY <3>3
      <4> DEFINE seen == bucket[bag[k]].seen
      <4>2. \/ /\ k \in Stored
               /\ sweep' = [sweep EXCEPT !.pc = "delete", !.victim = k, !.todo = @ \ {k},
                                        !.stamp = seen]
            \/ sweep' = [sweep EXCEPT !.todo = @ \ {k}]
        BY <4>1 DEF SweepVisit
      <4>3. k \in Stored => seen \in Time
        BY DEF Stored, Types, TypeOK, Bucket
      <4> HIDE DEF seen
      <4> QED BY <3>1, <4>2, <4>3 DEF Pass
    <3>4. CASE SweepDeleted \/ SweepEnds
      <4>1. \/ sweep' = [sweep EXCEPT !.pc = "range"]
            \/ sweep' = [sweep EXCEPT !.pc = "idle"]
        BY <3>4 DEF SweepDeleted, SweepEnds
      <4> QED BY <3>1, <4>1 DEF Pass
    <3> QED BY <1>2, <3>2, <3>3, <3>4
  <2>4. approxSize' \in Int /\ sweeps' \in Nat
    <3>1. approxSize \in Int /\ sweeps \in Nat
      BY DEF Types, TypeOK
    <3>2. approxSize' \in {approxSize, approxSize - 1} /\ sweeps' \in {sweeps, sweeps + 1}
      BY <1>2 DEF SweepStart, SweepVisit, SweepDeleted, SweepEnds
    <3> QED BY <3>1, <3>2
  <2> QED BY <2>1, <2>3, <2>4 DEF Types, TypeOK, Clocks
<1>3. CASE Advance
  <2>1. now' \in Time /\ now' \in Nat /\ now \in Nat /\ now' = now + 1
    BY <1>3 DEF Advance, Types, TypeOK, Time
  <2>2. \A q \in Request : bucket[q].last \in Nat
    BY DEF Types, TypeOK, Bucket, Time
  <2>3. \A q \in Request : bucket[q].last <= now'
    BY <2>1, <2>2 DEF Types, Clocks
  <2> QED BY <1>3, <2>1, <2>3 DEF Advance, Types, TypeOK, Clocks
<1>4. CASE UNCHANGED vars
  BY <1>4 DEF vars, Types, TypeOK, Clocks
<1> QED BY <1>1, <1>2, <1>3, <1>4 DEF Run

-----------------------------------------------------------------------------
(***************************************************************************)
(* The balance, one kind of step at a time.                                *)
(***************************************************************************)
LEMMA SetsFinite ==
  ASSUME NEW k, NEW from, NEW to
  PROVE  /\ IsFiniteSet(Of(k, from, to)) /\ Cardinality(Of(k, from, to)) \in Nat
         /\ IsFiniteSet(Orphans(k)) /\ Cardinality(Orphans(k)) \in Nat
<1>1. Of(k, from, to) \in SUBSET Request /\ Orphans(k) \in SUBSET Request
  BY DEF Of, Orphans
<1> QED BY <1>1, LimiterAssumption, FS_Subset, FS_CardinalityType

LEMMA AvailType ==
  ASSUME Types, NEW k \in Key
  PROVE  Avail(k) \in Nat /\ Avail(k) <= Burst
<1>1. CASE k \in Stored
  <2>1. bag[k] \in Request
    BY <1>1 DEF Stored, Types, TypeOK
  <2> QED BY <1>1, <2>1, TokensType DEF Avail
<1>2. CASE k \notin Stored
  BY <1>2, LimiterAssumption DEF Avail
<1> QED BY <1>1, <1>2

LEMMA BoundType ==
  ASSUME Types, NEW k \in Key, NEW from \in 0..now, NEW to \in 0..now
  PROVE  (Burst + Rate * (to - from) + forgiven[k]) \in Int
<1> USE LimiterAssumption
<1>1. now \in Nat /\ from \in Int /\ to \in Int /\ forgiven[k] \in Nat
  BY DEF Types, TypeOK, Time
<1> DEFINE len == to - from
<1>2. len \in Int
  BY <1>1
<1>3. Rate * len \in Int
  <2> HIDE DEF len
  <2> QED BY <1>2
<1> QED BY <1>1, <1>3

LEMMA QuietStep ==
  ASSUME RateInv, Types', UNCHANGED <<now, bag, admitted, forgiven>>,
         \A q \in Request : bucket'[q].tokens = bucket[q].tokens /\ bucket'[q].last = bucket[q].last,
         \A q \in Request : req'[q] = req[q] \/ Quiet(req[q], req'[q])
  PROVE  RateInv'
<1> USE DEF Using, Answered
<1>1. \A v, k : Makes(v, k) => Makes(v, k)'
  BY DEF Makes, Quiet
<1>2. Stored' = Stored
  BY DEF Stored
<1>3. Owns'
  <2>1. \A k \in Key : k \in Stored => Makes(bag[k], k)'
    BY <1>1 DEF RateInv, Owns, Makes
  <2>2. ASSUME NEW r \in Request, req'[r].pc \in Using
        PROVE  Makes(req[r].mine, req[r].key)'
    <3>1. CASE req'[r] = req[r] \/ (req[r].pc \in Using /\ Quiet(req[r], req'[r]))
      BY <1>1, <2>2, <3>1 DEF RateInv, Owns, Quiet, Makes
    <3>2. CASE /\ req[r].pc \notin Using \cup Answered /\ req'[r].pc \in {"take", "spend"}
               /\ req'[r].key = req[r].key /\ req[r].key \in Stored
               /\ req'[r].mine = bag[req[r].key]
      <4>1. req[r].key \in Key
        BY DEF RateInv, Types, TypeOK, Call
      <4> QED BY <1>1, <3>2, <4>1 DEF RateInv, Owns, Makes
    <3> QED BY <2>2, <3>1, <3>2 DEF Quiet
  <2>3. \A r \in Request :
          admitted[r] # Never => req'[r].pc = "allowed" /\ admitted[r] <= now
    BY DEF RateInv, Owns, Quiet
  <2> QED BY <1>2, <2>1, <2>2, <2>3 DEF Owns
<1>4. \A k \in Key : Orphans(k)' = Orphans(k)
  BY DEF Orphans, Quiet
<1>5. ASSUME NEW k, NEW from \in 0..now, NEW to PROVE Of(k, from, to)' = Of(k, from, to)
  <2>1. \A r \in Request : admitted[r] \in from..to => req[r].pc = "allowed"
    BY DEF RateInv, Owns, Never
  <2> QED BY <2>1 DEF Of, Quiet
<1>6. ASSUME NEW k \in Key PROVE Avail(k)' = Avail(k)
  <2>1. k \in Stored => bag[k] \in Request
    BY DEF Stored, RateInv, Types, TypeOK
  <2> QED BY <1>2, <2>1 DEF Avail, Tokens
<1>7. Strays'
  BY <1>4 DEF RateInv, Strays
<1>8. Balance'
  BY <1>4, <1>5, <1>6 DEF RateInv, Balance
<1>9. RateHeld'
  BY <1>5 DEF RateInv, RateHeld
<1> QED BY <1>3, <1>7, <1>8, <1>9 DEF RateInv

(* Only the place of a request in an eviction changes beside the bag.      *)
LEMMA DeleteStep ==
  ASSUME RateInv, Types', NEW k \in Key, NEW stamp \in Time, NEW age \in Nat,
         stamp < now - age, Delete(k, stamp, age), UNCHANGED <<now, bucket, admitted>>,
         \A q \in Request :
           req'[q] = req[q] \/ (/\ req[q].pc \notin Using \cup Answered
                                /\ req'[q].pc \notin Using \cup Answered)
  PROVE  RateInv'
<1> USE LimiterAssumption DEF Using, Answered
<1>1. \A v, j : Makes(v, j) => Makes(v, j)'
  BY DEF Makes
<1>2. /\ \A j \in Key : bag'[j] = IF j = k THEN NoBucket ELSE bag[j]
      /\ Stored' = Stored \ {k}
  BY DEF Delete, RateInv, Types, TypeOK, Stored
<1>3. Owns'
  <2>1. \A j \in Key : j \in Stored' => Makes(bag[j], j)'
    BY <1>2 DEF RateInv, Owns, Makes
  <2>2. \A r \in Request : req'[r].pc \in Using => Makes(req[r].mine, req[r].key)'
    BY DEF RateInv, Owns, Makes
  <2>3. \A r \in Request :
          admitted[r] # Never => req'[r].pc = "allowed" /\ admitted[r] <= now
    BY DEF RateInv, Owns
  <2> QED BY <2>1, <2>2, <2>3 DEF Owns
<1>4. ASSUME NEW j, NEW from \in 0..now, NEW to PROVE Of(j, from, to)' = Of(j, from, to)
  <2>1. \A r \in Request : admitted[r] \in from..to => req[r].pc = "allowed"
    BY DEF RateInv, Owns, Never
  <2> QED BY <2>1 DEF Of
<1>5. \A j \in Key : j # k => Orphans(j)' = Orphans(j)
  BY <1>2 DEF Orphans
<1>6. \A j \in Key : j # k => Avail(j)' = Avail(j)
  BY <1>2 DEF Avail, Tokens
<1>7. CASE k \notin Stored
  <2>1. bag[k] = NoBucket
    BY <1>7 DEF Stored
  <2>2. Orphans(k)' = Orphans(k) /\ Avail(k)' = Avail(k)
    BY <1>2, <1>7, <2>1 DEF Orphans, Avail
  <2>3. forgiven' = forgiven
    BY <1>7 DEF Delete
  <2>4. Strays' /\ Balance' /\ RateHeld'
    BY <1>4, <1>5, <1>6, <2>2, <2>3 DEF RateInv, Strays, Balance, RateHeld
  <2> QED BY <1>3, <2>4 DEF RateInv
<1>8. CASE k \in Stored
  <2> DEFINE more == Lost(bag[k], stamp, age)
             held == Cardinality(Holders(bag[k]))
             o == Cardinality(Orphans(k))
             oo == Cardinality(Orphans(k)')
  <2>1. bag[k] \in Request
    BY <1>8 DEF Stored, RateInv, Types, TypeOK
  <2>2. more \in Nat /\ Burst - Tokens(bag[k]) <= more
    BY <2>1, LostType DEF RateInv
  <2>3. IsFiniteSet(Holders(bag[k])) /\ held \in Nat /\ o \in Nat /\ oo \in Nat
    <3>1. Holders(bag[k]) \in SUBSET Request /\ Orphans(k)' \in SUBSET Request
      BY DEF Holders, Orphans
    <3> QED BY <3>1, SetsFinite, FS_Subset, FS_CardinalityType
  <2>4. oo <= o + held
    <3>1. Orphans(k)' \subseteq Orphans(k) \cup Holders(bag[k])
      BY <1>2 DEF Orphans, Holders
    <3>2. /\ IsFiniteSet(Orphans(k) \cup Holders(bag[k]))
          /\ Cardinality(Orphans(k) \cup Holders(bag[k])) <= o + held
      <4>1. /\ IsFiniteSet(Orphans(k) \cup Holders(bag[k]))
            /\ Cardinality(Orphans(k) \cup Holders(bag[k]))
                 = o + held - Cardinality(Orphans(k) \cap Holders(bag[k]))
        BY <2>3, SetsFinite, FS_Union
      <4>2. Cardinality(Orphans(k) \cap Holders(bag[k])) \in Nat
        BY <2>3, SetsFinite, FS_Intersection, FS_CardinalityType
      <4> QED BY <2>3, <4>1, <4>2
    <3>3. oo <= Cardinality(Orphans(k) \cup Holders(bag[k]))
      BY <3>1, <3>2, FS_Subset
    <3>4. Cardinality(Orphans(k) \cup Holders(bag[k])) \in Nat
      BY <3>2, FS_CardinalityType
    <3> HIDE DEF oo, o, held
    <3> QED BY <2>3, <3>2, <3>3, <3>4
  <2>5. /\ \A j \in Key : forgiven'[j] = IF j = k THEN forgiven[k] + more + held
                                                  ELSE forgiven[j]
        /\ \A j \in Key : forgiven[j] \in Nat
    <3>1. forgiven' = [forgiven EXCEPT ![k] = @ + more + held]
      BY <1>8 DEF Delete
    <3> HIDE DEF more, held
    <3> QED BY <3>1 DEF RateInv, Types, TypeOK
  <2>6. Avail(k)' <= Avail(k) + more /\ Avail(k)' \in Nat
    <3>1. Avail(k)' = Burst
      BY <1>2 DEF Avail
    <3>2. Avail(k) = Tokens(bag[k]) /\ Tokens(bag[k]) \in Nat
      BY <1>8, <2>1, TokensType DEF Avail, RateInv
    <3> HIDE DEF more
    <3> QED BY <2>2, <3>1, <3>2
  <2>7. Strays'
    <3>1. o <= forgiven[k]
      BY DEF RateInv, Strays
    <3>2. oo <= forgiven'[k]
      <4> HIDE DEF more, held, o, oo
      <4> QED BY <2>2, <2>3, <2>4, <2>5, <3>1
    <3>3. \A j \in Key : j # k => Cardinality(Orphans(j)') <= forgiven'[j]
      BY <1>5, <2>5 DEF RateInv, Strays
    <3> QED BY <3>2, <3>3 DEF Strays
  <2>8. Balance'
    <3> SUFFICES ASSUME NEW j \in Key, NEW from \in 0..now
                 PROVE  Cardinality(Of(j, from, now)') + Avail(j)' + Cardinality(Orphans(j)')
                          <= Burst + Rate * (now - from) + forgiven'[j]
      BY DEF Balance
    <3>1. Of(j, from, now)' = Of(j, from, now)
      BY <1>4
    <3>2. CASE j # k
      BY <1>5, <1>6, <2>5, <3>1, <3>2 DEF RateInv, Balance
    <3>3. CASE j = k
      <4> DEFINE n == Cardinality(Of(k, from, now))
                 len == Rate * (now - from)
      <4>1. n + Avail(k) + o <= Burst + len + forgiven[k]
        BY DEF RateInv, Balance
      <4>2. n \in Nat /\ Avail(k) \in Nat
        BY SetsFinite, AvailType DEF RateInv
      <4>3. len \in Int
        <5>1. now \in Nat
          BY DEF RateInv, Types, TypeOK, Time
        <5> DEFINE d == now - from
        <5>2. d \in Int
          BY <5>1
        <5> HIDE DEF d
        <5>3. Rate * d \in Int
          BY <5>2
        <5> QED BY <5>3 DEF d
      <4>4. n + Avail(k)' + oo <= Burst + len + forgiven'[k]
        <5> HIDE DEF n, len, o, oo, more, held
        <5> QED BY <2>2, <2>3, <2>4, <2>5, <2>6, <4>1, <4>2, <4>3
      <4> QED BY <3>1, <3>3, <4>4
    <3> QED BY <3>2, <3>3
  <2>9. RateHeld'
    <3> SUFFICES ASSUME NEW j \in Key, NEW from \in 0..now, NEW to \in 0..now, from <= to
                 PROVE  Cardinality(Of(j, from, to)') <= Burst + Rate * (to - from) + forgiven'[j]
      BY DEF RateHeld
    <3> DEFINE n == Cardinality(Of(j, from, to))
               len == Rate * (to - from)
    <3>1. n <= Burst + len + forgiven[j]
      BY DEF RateInv, RateHeld
    <3>2. n \in Nat
      BY SetsFinite
    <3>3. len \in Int
      <4> DEFINE d == to - from
      <4>1. d \in Int
        BY DEF RateInv, Types, TypeOK, Time
      <4> HIDE DEF d
      <4>2. Rate * d \in Int
        BY <4>1
      <4> QED BY <4>2 DEF d
    <3>4. forgiven'[j] \in Nat /\ forgiven[j] <= forgiven'[j]
      <4> HIDE DEF more, held
      <4> QED BY <2>2, <2>3, <2>5
    <3>5. n <= Burst + len + forgiven'[j]
      <4> HIDE DEF n, len
      <4> QED BY <2>5, <3>1, <3>2, <3>3, <3>4
    <3> QED BY <1>4, <3>5
  <2> QED BY <1>3, <2>7, <2>8, <2>9 DEF RateInv
<1> QED BY <1>7, <1>8

(* The new bucket is full, like the one there was not.                     *)
LEMMA StoreStep ==
  ASSUME RateInv, Types', NEW r \in Request, req[r].pc = "store", req[r].key \notin Stored,
         bag' = [bag EXCEPT ![req[r].key] = r],
         bucket' = [bucket EXCEPT ![r] = Made(r)],
         req' = [req EXCEPT ![r] = [@ EXCEPT !.pc = "inc", !.mine = r]],
         UNCHANGED <<now, admitted, forgiven>>
  PROVE  RateInv'
<1> USE LimiterAssumption DEF Using, Answered
<1> DEFINE k0 == req[r].key
<1>1. /\ k0 \in Key
      /\ \A q \in Request : q # r => req'[q] = req[q]
      /\ req'[r].pc = "inc" /\ req'[r].mine = r /\ req'[r].key = k0
  BY DEF RateInv, Types, TypeOK, Call
<1>2. /\ \A k \in Key : bag'[k] = IF k = k0 THEN r ELSE bag[k]
      /\ Stored' = Stored \cup {k0}
      /\ bag[k0] = NoBucket
  BY <1>1 DEF RateInv, Types, TypeOK, Stored
<1>3. \A v, k : Makes(v, k) => v # r /\ Makes(v, k)'
  BY <1>1 DEF Makes
<1>4. Makes(r, k0)'
  BY <1>1 DEF Makes
<1>5. Owns'
  <2>1. \A k \in Key : k \in Stored' => Makes(bag[k], k)'
    BY <1>2, <1>3, <1>4 DEF RateInv, Owns, Makes
  <2>2. ASSUME NEW q \in Request, req'[q].pc \in Using PROVE Makes(req[q].mine, req[q].key)'
    <3>1. CASE q = r
      BY <1>1, <1>4, <3>1 DEF Makes
    <3>2. CASE q # r
      BY <1>1, <1>3, <2>2, <3>2 DEF RateInv, Owns, Makes
    <3> QED BY <3>1, <3>2
  <2>3. \A q \in Request :
          admitted[q] # Never => req'[q].pc = "allowed" /\ admitted[q] <= now
    BY <1>1 DEF RateInv, Owns
  <2> QED BY <2>1, <2>2, <2>3 DEF Owns
<1>6. ASSUME NEW k \in Key PROVE Orphans(k)' = Orphans(k)
  <2>1. \A q \in Request : req[q].pc \in Using => req[q].mine # r /\ req[q].mine # NoBucket
    BY <1>3 DEF RateInv, Owns, Makes
  <2>2. \A q \in Request : q # r =>
          (req'[q].pc \in Using /\ req'[q].key = k /\ req'[q].mine # bag'[k]
             <=> req[q].pc \in Using /\ req[q].key = k /\ req[q].mine # bag[k])
    BY <1>1, <1>2, <2>1
  <2>3. r \notin Orphans(k) /\ r \notin Orphans(k)'
    BY <1>1, <1>2 DEF Orphans
  <2> QED BY <2>2, <2>3 DEF Orphans
<1>7. ASSUME NEW k, NEW from \in 0..now, NEW to PROVE Of(k, from, to)' = Of(k, from, to)
  <2>1. \A q \in Request : admitted[q] \in from..to => req[q].pc = "allowed"
    BY DEF RateInv, Owns, Never
  <2> QED BY <1>1, <2>1 DEF Of
<1>8. ASSUME NEW k \in Key PROVE Avail(k)' = Avail(k)
  <2>1. CASE k = k0
    <3>1. bucket'[r] = Made(r) /\ Made(r).tokens = Burst /\ Made(r).last = now
      BY DEF Made, RateInv, Types, TypeOK
    <3>2. Tokens(r)' = Least(Burst, Burst + Rate * (now - now))
      BY <3>1 DEF Tokens, Least
    <3>3. now - now = 0
      BY DEF RateInv, Types, TypeOK, Time
    <3>4. Tokens(r)' = Burst
      BY <3>2, <3>3 DEF Least
    <3>5. Avail(k)' = Burst
      BY <1>2, <2>1, <3>4 DEF Avail, Tokens
    <3> QED BY <2>1, <3>5 DEF Avail
  <2>2. CASE k # k0
    <3>1. k \in Stored => bag[k] \in Request /\ bag[k] # r
      BY <1>3 DEF RateInv, Owns, Makes
    <3>2. k \in Stored => bucket'[bag[k]] = bucket[bag[k]]
      BY <3>1 DEF RateInv, Types, TypeOK
    <3> QED BY <1>2, <2>2, <3>2 DEF Avail, Tokens
  <2> QED BY <2>1, <2>2
<1>9. Strays'
  BY <1>6 DEF RateInv, Strays
<1>10. Balance'
  BY <1>6, <1>7, <1>8 DEF RateInv, Balance
<1>11. RateHeld'
  BY <1>7 DEF RateInv, RateHeld
<1> QED BY <1>5, <1>9, <1>10, <1>11 DEF RateInv

LEMMA LimitedStep ==
  ASSUME RateInv, Types', NEW r \in Request, req[r].pc = "spend",
         req' = [req EXCEPT ![r].pc = "limited"],
         UNCHANGED <<now, bag, bucket, admitted, forgiven>>
  PROVE  RateInv'
<1> USE LimiterAssumption DEF Using, Answered
<1>1. /\ \A q \in Request : q # r => req'[q] = req[q]
      /\ req'[r].pc = "limited" /\ req'[r].key = req[r].key
  BY DEF RateInv, Types, TypeOK, Call
<1>3. \A v, k : Makes(v, k) => Makes(v, k)'
  BY <1>1 DEF Makes
<1>4. Stored' = Stored
  BY DEF Stored
<1>5. Owns'
  <2>1. \A k \in Key : k \in Stored => Makes(bag[k], k)'
    BY <1>3 DEF RateInv, Owns, Makes
  <2>2. \A q \in Request : req'[q].pc \in Using => Makes(req[q].mine, req[q].key)'
    BY <1>1, <1>3 DEF RateInv, Owns, Makes
  <2>3. \A q \in Request :
          admitted[q] # Never => req'[q].pc = "allowed" /\ admitted[q] <= now
    BY <1>1 DEF RateInv, Owns
  <2> QED BY <1>4, <2>1, <2>2, <2>3 DEF Owns
<1>6. \A k \in Key : Orphans(k)' \subseteq Orphans(k)
  BY <1>1 DEF Orphans
<1>7. \A k \in Key : Cardinality(Orphans(k)') <= Cardinality(Orphans(k))
                     /\ Cardinality(Orphans(k)') \in Nat /\ Cardinality(Orphans(k)) \in Nat
  <2>1. \A k \in Key : Orphans(k)' \in SUBSET Orphans(k) /\ IsFiniteSet(Orphans(k))
    BY <1>6, SetsFinite
  <2> QED BY <2>1, FS_Subset, FS_CardinalityType
<1>8. \A k, from, to : Of(k, from, to)' = Of(k, from, to)
  BY <1>1 DEF Of
<1>9. ASSUME NEW k \in Key PROVE Avail(k)' = Avail(k)
  BY <1>4 DEF Avail, Tokens
<1>10. Strays'
  <2>1. \A k \in Key : forgiven[k] \in Nat /\ Cardinality(Orphans(k)) <= forgiven[k]
    BY DEF RateInv, Types, TypeOK, Strays
  <2>2. ASSUME NEW k \in Key PROVE Cardinality(Orphans(k)') <= forgiven'[k]
    <3> DEFINE o == Cardinality(Orphans(k))
               oo == Cardinality(Orphans(k)')
    <3>1. oo <= o /\ o <= forgiven[k] /\ o \in Nat /\ oo \in Nat /\ forgiven[k] \in Nat
      BY <1>7, <2>1
    <3>2. oo <= forgiven[k]
      <4> HIDE DEF o, oo
      <4> QED BY <3>1
    <3> QED BY <3>2
  <2> QED BY <2>2 DEF Strays
<1>11. Balance'
  <2> SUFFICES ASSUME NEW k \in Key, NEW from \in 0..now
               PROVE  Cardinality(Of(k, from, now)') + Avail(k)' + Cardinality(Orphans(k)')
                        <= Burst + Rate * (now - from) + forgiven[k]
    BY DEF Balance
  <2> DEFINE n == Cardinality(Of(k, from, now))
             o == Cardinality(Orphans(k))
             oo == Cardinality(Orphans(k)')
             a == Avail(k)
             b == Burst + Rate * (now - from) + forgiven[k]
  <2>1. n + a + o <= b
    BY DEF RateInv, Balance
  <2>2. n \in Nat /\ a \in Nat /\ o \in Nat /\ oo \in Nat /\ oo <= o
    BY <1>7, SetsFinite, AvailType DEF RateInv
  <2>3. b \in Int
    <3>1. now \in 0..now
      BY DEF RateInv, Types, TypeOK, Time
    <3> QED BY <3>1, BoundType DEF RateInv
  <2>4. n + a + oo <= b
    <3> HIDE DEF n, a, o, oo, b
    <3> QED BY <2>1, <2>2, <2>3
  <2> QED BY <1>8, <1>9, <2>4
<1>12. RateHeld'
  BY <1>8 DEF RateInv, RateHeld
<1> QED BY <1>5, <1>10, <1>11, <1>12 DEF RateInv

(* One more admitted, and one token less in the bucket that is stored, or  *)
(* one request less on its way to another.                                 *)
LEMMA AllowedStep ==
  ASSUME RateInv, Types', NEW r \in Request, req[r].pc = "spend",
         Tokens(req[r].mine) >= 1,
         NEW b, b.tokens = Tokens(req[r].mine) - 1, b.last = now,
         bucket' = [bucket EXCEPT ![req[r].mine] = b],
         req' = [req EXCEPT ![r].pc = "allowed"],
         admitted' = [admitted EXCEPT ![r] = now],
         UNCHANGED <<now, bag, forgiven>>
  PROVE  RateInv'
<1> USE LimiterAssumption DEF Using, Answered
<1> DEFINE k0 == req[r].key
<1>0. PICK v0 \in Request : v0 = req[r].mine
  BY DEF RateInv, Owns, Makes
<1>1. /\ \A q \in Request : q # r => req'[q] = req[q] /\ admitted'[q] = admitted[q]
      /\ req'[r].pc = "allowed" /\ req'[r].key = k0 /\ req'[r].mine = v0
      /\ admitted'[r] = now
      /\ k0 \in Key
      /\ now \in Nat
  BY <1>0 DEF RateInv, Types, TypeOK, Call, Time
<1>2. Makes(v0, k0)
  BY <1>0 DEF RateInv, Owns, Makes
<1>3. \A v, k : Makes(v, k) => Makes(v, k)'
  BY <1>1 DEF Makes
<1>4. Stored' = Stored
  BY DEF Stored
<1>5. admitted[r] = Never
  BY DEF RateInv, Owns
<1>6. Owns'
  <2>1. \A k \in Key : k \in Stored => Makes(bag[k], k)'
    BY <1>3 DEF RateInv, Owns, Makes
  <2>2. \A q \in Request : req'[q].pc \in Using => Makes(req[q].mine, req[q].key)'
    BY <1>1, <1>3 DEF RateInv, Owns, Makes
  <2>3. \A q \in Request :
          admitted'[q] # Never => req'[q].pc = "allowed" /\ admitted'[q] <= now
    BY <1>1 DEF RateInv, Owns
  <2> QED BY <1>4, <2>1, <2>2, <2>3 DEF Owns
<1>7. ASSUME NEW k \in Key PROVE Orphans(k)' = Orphans(k) \ {r}
  BY <1>1 DEF Orphans
<1>8. ASSUME NEW k \in Key, NEW from \in 0..now, NEW to \in 0..now
      PROVE  Of(k, from, to)' = IF k = k0 /\ to = now THEN Of(k, from, to) \cup {r}
                                                      ELSE Of(k, from, to)
  <2>1. now \in from..to <=> to = now
    BY <1>1
  <2>2. r \notin Of(k, from, to)
    BY <1>5 DEF Of, Never
  <2>3. \A q \in Request : q # r => (q \in Of(k, from, to)' <=> q \in Of(k, from, to))
    BY <1>1 DEF Of
  <2>4. r \in Of(k, from, to)' <=> k = k0 /\ to = now
    BY <1>1, <2>1 DEF Of
  <2>5. Of(k, from, to) \subseteq Request /\ Of(k, from, to)' \subseteq Request
    BY DEF Of
  <2> QED BY <2>2, <2>3, <2>4, <2>5
<1>9. ASSUME NEW k \in Key
      PROVE  Avail(k)' = IF bag[k] = v0 THEN Avail(k) - 1 ELSE Avail(k)
  <2>1. CASE bag[k] = v0
    <3>1. k \in Stored
      BY <1>2, <2>1 DEF Stored
    <3> DEFINE t == Tokens(v0)
    <3>2. t \in Nat /\ t <= Burst
      BY <1>2, TokensType DEF RateInv
    <3>3. bucket'[v0].tokens = t - 1 /\ bucket'[v0].last = now
      BY <1>0 DEF RateInv, Types, TypeOK
    <3>4. Tokens(v0)' = Least(Burst, (t - 1) + Rate * (now - now))
      <4> HIDE DEF t
      <4> QED BY <3>3 DEF Tokens, Least
    <3>5. Tokens(v0)' = t - 1
      <4> HIDE DEF t
      <4>1. now - now = 0
        BY <1>1
      <4>2. Rate * (now - now) = 0
        BY <4>1
      <4> QED BY <3>2, <3>4, <4>2 DEF Least
    <3> QED BY <1>4, <2>1, <3>1, <3>5 DEF Avail
  <2>2. CASE bag[k] # v0
    <3>1. k \in Stored => bag[k] \in Request
      BY DEF Stored, RateInv, Types, TypeOK
    <3>2. k \in Stored => bucket'[bag[k]] = bucket[bag[k]]
      BY <1>0, <2>2, <3>1 DEF RateInv, Types, TypeOK
    <3> QED BY <1>4, <2>2, <3>2 DEF Avail, Tokens
  <2> QED BY <2>1, <2>2
<1>10. \A k \in Key : bag[k] = v0 => k = k0
  BY <1>2 DEF RateInv, Owns, Makes, Stored
<1>11. ASSUME NEW k \in Key
       PROVE  Cardinality(Orphans(k)') =
                IF k = k0 /\ bag[k] # v0 THEN Cardinality(Orphans(k)) - 1
                                         ELSE Cardinality(Orphans(k))
  <2>1. r \in Orphans(k) <=> k = k0 /\ bag[k] # v0
    BY <1>0 DEF Orphans
  <2>2. Cardinality(Orphans(k) \ {r}) =
          IF r \in Orphans(k) THEN Cardinality(Orphans(k)) - 1 ELSE Cardinality(Orphans(k))
    BY SetsFinite, FS_RemoveElement
  <2> QED BY <1>7, <2>1, <2>2
<1>12. Strays'
  <2> SUFFICES ASSUME NEW k \in Key PROVE Cardinality(Orphans(k)') <= forgiven[k]
    BY DEF Strays
  <2> DEFINE o == Cardinality(Orphans(k))
             oo == Cardinality(Orphans(k)')
  <2>1. o <= forgiven[k] /\ o \in Nat /\ forgiven[k] \in Nat
    BY SetsFinite DEF RateInv, Types, TypeOK, Strays
  <2>2. oo = o \/ oo = o - 1
    BY <1>11
  <2> HIDE DEF o, oo
  <2>3. oo <= forgiven[k]
    BY <2>1, <2>2
  <2> QED BY <2>3 DEF oo
<1>13. ASSUME NEW k \in Key, NEW from \in 0..now
       PROVE  LET nn == Cardinality(Of(k, from, now)')
                  bound  == Burst + Rate * (now - from) + forgiven[k]
              IN  nn + Avail(k)' + Cardinality(Orphans(k)') <= bound /\ nn <= bound
  <2> DEFINE n == Cardinality(Of(k, from, now))
             nn == Cardinality(Of(k, from, now)')
             o == Cardinality(Orphans(k))
             oo == Cardinality(Orphans(k)')
             a == Avail(k)
             aa == Avail(k)'
             bound == Burst + Rate * (now - from) + forgiven[k]
  <2>1. n + a + o <= bound
    BY DEF RateInv, Balance
  <2>2. n \in Nat /\ a \in Nat /\ o \in Nat /\ oo \in Nat
    <3>1. IsFiniteSet(Orphans(k)')
      <4>1. IsFiniteSet(Orphans(k) \ {r})
        BY SetsFinite, FS_RemoveElement
      <4> QED BY <1>7, <4>1
    <3> QED BY <3>1, SetsFinite, AvailType, FS_CardinalityType DEF RateInv
  <2>3. now \in 0..now
    BY <1>1
  <2>4. bound \in Int
    BY <2>3, BoundType DEF RateInv
  <2>5. r \notin Of(k, from, now) /\ IsFiniteSet(Of(k, from, now))
    <3>1. admitted[r] \notin from..now
      BY <1>1, <1>5 DEF Never
    <3>2. r \notin Of(k, from, now)
      BY <3>1 DEF Of
    <3> QED BY <3>2, SetsFinite
  <2>6. CASE k # k0
    <3>1. nn = n /\ aa = a /\ oo = o
      BY <1>8, <1>9, <1>10, <1>11, <2>3, <2>6
    <3> HIDE DEF n, nn, o, oo, a, aa, bound
    <3>2. nn + aa + oo <= bound /\ nn <= bound
      BY <2>1, <2>2, <2>4, <3>1
    <3> QED BY <3>2 DEF nn, aa, oo, bound
  <2>7. CASE k = k0
    <3>1. nn = n + 1
      <4>1. Of(k, from, now)' = Of(k, from, now) \cup {r}
        BY <1>8, <2>3, <2>7
      <4> QED BY <2>5, <4>1, FS_AddElement
    <3>2. \/ aa = a - 1 /\ oo = o /\ a >= 1
          \/ aa = a /\ oo = o - 1
      <4>1. CASE bag[k] = v0
        <5>1. k \in Stored
          BY <1>2, <4>1 DEF Stored
        <5>2. a >= 1
          BY <1>0, <4>1, <5>1 DEF Avail
        <5> QED BY <1>9, <1>11, <4>1, <5>2
      <4>2. CASE bag[k] # v0
        BY <1>9, <1>11, <2>7, <4>2
      <4> QED BY <4>1, <4>2
    <3> HIDE DEF n, nn, o, oo, a, aa, bound
    <3>3. nn + aa + oo <= bound /\ nn <= bound
      BY <2>1, <2>2, <2>4, <3>1, <3>2
    <3> QED BY <3>3 DEF nn, aa, oo, bound
  <2> QED BY <2>6, <2>7
<1>14. Balance'
  BY <1>13 DEF Balance
<1>15. RateHeld'
  <2> SUFFICES ASSUME NEW k \in Key, NEW from \in 0..now, NEW to \in 0..now, from <= to
               PROVE  Cardinality(Of(k, from, to)') <= Burst + Rate * (to - from) + forgiven[k]
    BY DEF RateHeld
  <2>1. CASE to # now
    BY <1>8, <2>1 DEF RateInv, RateHeld
  <2>2. CASE to = now
    BY <1>13, <2>2
  <2> QED BY <2>1, <2>2
<1> QED BY <1>6, <1>12, <1>14, <1>15 DEF RateInv

(* A unit of time is worth Rate: the bucket gains no more than that.       *)
LEMMA AdvanceStep ==
  ASSUME RateInv, Types', Advance
  PROVE  RateInv'
<1> USE LimiterAssumption
<1>1. /\ now \in Nat /\ now' = now + 1
      /\ UNCHANGED <<bag, bucket, req, admitted, forgiven>>
      /\ \A k \in Key : forgiven[k] \in Nat
  BY DEF Advance, RateInv, Types, TypeOK, Time
<1>2. Stored' = Stored /\ \A k \in Key : Orphans(k)' = Orphans(k)
  BY <1>1 DEF Stored, Orphans
<1>3. \A v, k : Makes(v, k)' <=> Makes(v, k)
  BY <1>1 DEF Makes
<1>4. \A q \in Request : admitted[q] # Never => admitted[q] <= now /\ admitted[q] \in Nat
  BY DEF RateInv, Owns, Types, TypeOK, Time
<1>5. Owns'
  <2>1. \A k \in Key : k \in Stored => Makes(bag[k], k)'
    BY <1>1 DEF RateInv, Owns, Makes
  <2>2. \A q \in Request : req[q].pc \in {"inc", "take", "spend"} => Makes(req[q].mine, req[q].key)'
    BY <1>1 DEF RateInv, Owns, Makes
  <2>3. \A q \in Request : admitted[q] # Never => req[q].pc = "allowed" /\ admitted[q] <= now'
    BY <1>1, <1>4 DEF RateInv, Owns
  <2> QED BY <1>1, <1>2, <2>1, <2>2, <2>3 DEF Owns
<1>6. \A k, from, to : Of(k, from, to)' = Of(k, from, to)
  BY <1>1 DEF Of
<1>7. ASSUME NEW k \in Key
      PROVE  /\ Avail(k)' \in Nat /\ Avail(k)' <= Avail(k) + Rate
             /\ Avail(k)' <= Burst
  <2>1. CASE k \in Stored
    <3>1. bag[k] \in Request
      BY <2>1 DEF Stored, RateInv, Types, TypeOK
    <3>2. PICK v \in Request : v = bag[k]
      BY <3>1
    <3> DEFINE age == now - bucket[v].last
    <3>3. age \in Nat /\ now' - bucket'[v].last = age + 1 /\ bucket[v].tokens \in Nat
      BY <1>1 DEF RateInv, Types, TypeOK, Clocks, Bucket, Time
    <3> DEFINE gain == Rate * age
    <3>4. gain \in Nat /\ Rate * (age + 1) = gain + Rate
      <4> HIDE DEF age
      <4> QED BY <3>3
    <3>5. /\ Tokens(v) = Least(Burst, bucket[v].tokens + gain)
          /\ Tokens(v)' = Least(Burst, bucket[v].tokens + (gain + Rate))
      <4>1. Tokens(v)' = Least(Burst, bucket'[v].tokens + Rate * (now' - bucket'[v].last))
        BY DEF Tokens, Least
      <4> QED BY <1>1, <3>3, <3>4, <4>1 DEF Tokens
    <3>6. Tokens(v)' \in Nat /\ Tokens(v)' <= Tokens(v) + Rate /\ Tokens(v)' <= Burst
      <4> HIDE DEF gain
      <4> QED BY <3>3, <3>4, <3>5 DEF Least
    <3> QED BY <1>1, <1>2, <2>1, <3>2, <3>6 DEF Avail
  <2>2. CASE k \notin Stored
    BY <1>2, <2>2 DEF Avail
  <2> QED BY <2>1, <2>2
<1>8. Strays'
  BY <1>1, <1>2 DEF RateInv, Strays
<1>9. Balance'
  <2> SUFFICES ASSUME NEW k \in Key, NEW from \in 0..now'
               PROVE  Cardinality(Of(k, from, now')) + Avail(k)' + Cardinality(Orphans(k))
                        <= Burst + Rate * (now' - from) + forgiven[k]
    BY <1>1, <1>2, <1>6 DEF Balance
  <2> DEFINE o == Cardinality(Orphans(k))
             a == Avail(k)
             aa == Avail(k)'
  <2>1. o \in Nat /\ a \in Nat /\ aa \in Nat /\ aa <= a + Rate /\ aa <= Burst
    BY <1>7, SetsFinite, AvailType DEF RateInv
  <2>2. CASE from \in 0..now
    <3> DEFINE n == Cardinality(Of(k, from, now))
               len == now - from
               span == Rate * len
    <3>1. Of(k, from, now') = Of(k, from, now)
      <4>1. \A q \in Request : admitted[q] \in from..now' <=> admitted[q] \in from..now
        BY <1>1, <1>4, <2>2 DEF Never
      <4> QED BY <4>1 DEF Of
    <3>2. n + a + o <= Burst + span + forgiven[k]
      BY <2>2 DEF RateInv, Balance
    <3>3. len \in Nat /\ now' - from = len + 1
      BY <1>1, <2>2
    <3>4. span \in Nat /\ Rate * (len + 1) = span + Rate
      <4> HIDE DEF len
      <4> QED BY <3>3
    <3>5. n \in Nat
      BY SetsFinite
    <3>6. n + aa + o <= Burst + (span + Rate) + forgiven[k]
      <4> HIDE DEF n, a, aa, o, span
      <4> QED BY <1>1, <2>1, <3>2, <3>4, <3>5
    <3> QED BY <3>1, <3>3, <3>4, <3>6
  <2>3. CASE from = now'
    <3>1. Of(k, from, now') = {}
      BY <1>1, <1>4, <2>3 DEF Of, Never
    <3>2. Cardinality(Of(k, from, now')) = 0
      BY <3>1, FS_EmptySet
    <3>3. o <= forgiven[k]
      BY DEF RateInv, Strays
    <3>4. now' - from = 0 /\ Rate * (now' - from) = 0
      <4>1. now' - from = 0
        BY <1>1, <2>3
      <4> QED BY <4>1
    <3>5. 0 + aa + o <= Burst + 0 + forgiven[k]
      <4> HIDE DEF aa, o
      <4> QED BY <1>1, <2>1, <3>3
    <3> QED BY <3>2, <3>4, <3>5
  <2> QED BY <1>1, <2>2, <2>3
<1>10. RateHeld'
  <2> SUFFICES ASSUME NEW k \in Key, NEW from \in 0..now', NEW to \in 0..now', from <= to
               PROVE  Cardinality(Of(k, from, to)) <= Burst + Rate * (to - from) + forgiven[k]
    BY <1>1, <1>6 DEF RateHeld
  <2>1. CASE to \in 0..now
    BY <1>1, <2>1 DEF RateInv, RateHeld
  <2>2. CASE to = now'
    <3> DEFINE n == Cardinality(Of(k, from, now'))
               aa == Avail(k)'
               o == Cardinality(Orphans(k))
               b == Burst + Rate * (now' - from) + forgiven[k]
    <3>1. n + aa + o <= b
      BY <1>1, <1>2, <1>6, <1>9 DEF Balance
    <3>2. n \in Nat /\ aa \in Nat /\ o \in Nat
      BY <1>7, SetsFinite
    <3>3. b \in Int
      <4> DEFINE d == now' - from
      <4>1. d \in Int
        BY <1>1
      <4> HIDE DEF d
      <4>2. Rate * d \in Int
        BY <4>1
      <4> QED BY <1>1, <4>2 DEF d
    <3>4. n <= b
      <4> HIDE DEF n, aa, o, b
      <4> QED BY <3>1, <3>2, <3>3
    <3> QED BY <2>2, <3>4
  <2> QED BY <1>1, <2>1, <2>2
<1> QED BY <1>5, <1>8, <1>9, <1>10 DEF RateInv

LEMMA SpendStep ==
  ASSUME RateInv, Types', NEW r \in Request, req[r].pc = "spend",
         Spend(r, req[r].mine), UNCHANGED <<now, bag, forgiven>>
  PROVE  RateInv'
<1>1. CASE Tokens(req[r].mine) >= 1
  <2>1. PICK v \in Request : v = req[r].mine
    BY DEF RateInv, Owns, Makes
  <2> DEFINE b == [bucket[v] EXCEPT !.tokens = Tokens(v) - 1, !.last = now]
  <2>2. /\ bucket' = [bucket EXCEPT ![v] = b]
        /\ admitted' = [admitted EXCEPT ![r] = now]
        /\ req' = [req EXCEPT ![r].pc = "allowed"]
    BY <1>1, <2>1 DEF Spend, RateInv, Types, TypeOK
  <2>3. b.tokens = Tokens(v) - 1 /\ b.last = now
    BY DEF RateInv, Types, TypeOK, Bucket
  <2> HIDE DEF b
  <2> QED BY <1>1, <2>1, <2>2, <2>3, AllowedStep
<1>2. CASE ~(Tokens(req[r].mine) >= 1)
  BY <1>2, LimitedStep DEF Spend
<1> QED BY <1>1, <1>2

LEMMA NextRate ==
  ASSUME RateInv, Looked, [Next]_vars
  PROVE  RateInv'
<1> USE DEF Using, Answered
<1>1. Types'
  BY RequestTypes, SweepTypes DEF RateInv, Next
<1>2. ASSUME NEW r \in Request, Reads(r) PROVE RateInv'
  <2>1. UNCHANGED <<now, bag, bucket, admitted, forgiven>>
    BY <1>2 DEF Reads, Arrive, Visit, Load, Check, RangeEnds, Evicted, Counted, Store
  <2>2. \A q \in Request : req'[q] = req[q] \/ Quiet(req[q], req'[q])
    BY <1>2, ReadsQuietly DEF RateInv, Types, TypeOK
  <2> QED BY <1>1, <2>1, <2>2, QuietStep
<1>3. ASSUME NEW r \in Request, Take(r) PROVE RateInv'
  <2>1. req[r].pc = "spend" /\ Spend(r, req[r].mine) /\ UNCHANGED <<now, bag, forgiven>>
    BY <1>3 DEF Take
  <2> QED BY <1>1, <2>1, SpendStep
<1>4. ASSUME NEW r \in Request, Evict(r) PROVE RateInv'
  <2>1. req[r].victim \in Key /\ req[r].stamp \in Time /\ EvictAge \in Nat
    BY LimiterAssumption DEF RateInv, Types, TypeOK, Call
  <2>2. /\ Delete(req[r].victim, req[r].stamp, EvictAge)
        /\ UNCHANGED <<now, bucket, admitted>>
    BY <1>4 DEF Evict
  <2>3. \A q \in Request :
          req'[q] = req[q] \/ (/\ req[q].pc \notin Using \cup Answered
                               /\ req'[q].pc \notin Using \cup Answered)
    BY <1>4 DEF Evict, RateInv, Types, TypeOK, Call
  <2>4. req[r].stamp < now - EvictAge
    <3>1. req[r].at <= now /\ req[r].stamp < req[r].at - EvictAge
      BY <1>4 DEF Evict, Looked
    <3>2. req[r].at \in Nat /\ now \in Nat /\ req[r].stamp \in Nat
      BY DEF RateInv, Types, TypeOK, Call, Time
    <3> QED BY <2>1, <3>1, <3>2
  <2> QED BY <1>1, <2>1, <2>2, <2>3, <2>4, DeleteStep
<1>5. ASSUME NEW r \in Request, Store(r), req[r].key \notin Stored PROVE RateInv'
  <2>1. /\ req[r].pc = "store"
        /\ bag' = [bag EXCEPT ![req[r].key] = r]
        /\ bucket' = [bucket EXCEPT ![r] = Made(r)]
        /\ UNCHANGED <<now, admitted, forgiven>>
    BY <1>5 DEF Store
  <2>2. req' = [req EXCEPT ![r] = [@ EXCEPT !.pc = "inc", !.mine = r]]
    BY <1>5 DEF Store, RateInv, Types, TypeOK, Call
  <2> QED BY <1>1, <1>5, <2>1, <2>2, StoreStep
<1>6. CASE SweepDelete
  <2>1. sweep.victim \in Key /\ sweep.stamp \in Time /\ IdleAge \in Nat
    BY LimiterAssumption DEF RateInv, Types, TypeOK, Pass
  <2>2. Delete(sweep.victim, sweep.stamp, IdleAge) /\ UNCHANGED <<now, bucket, req, admitted>>
    BY <1>6 DEF SweepDelete
  <2>3. sweep.stamp < now - IdleAge
    <3>1. sweep.cutoff <= now - IdleAge /\ sweep.stamp < sweep.cutoff
      BY <1>6 DEF SweepDelete, Looked
    <3>2. sweep.cutoff \in Int /\ now \in Nat /\ sweep.stamp \in Nat
      BY DEF RateInv, Types, TypeOK, Pass, Time
    <3> QED BY <2>1, <3>1, <3>2
  <2> QED BY <1>1, <2>1, <2>2, <2>3, DeleteStep
<1>7. CASE \/ SweepStart \/ (\E k \in Key : SweepVisit(k)) \/ SweepDeleted \/ SweepEnds
           \/ UNCHANGED vars
  <2>1. UNCHANGED <<now, bag, bucket, req, admitted, forgiven>>
    BY <1>7 DEF SweepStart, SweepVisit, SweepDeleted, SweepEnds, vars
  <2> QED BY <1>1, <2>1, QuietStep
<1>8. CASE Advance
  BY <1>1, <1>8, AdvanceStep
<1>9. ASSUME NEW r \in Request, Touch(r) PROVE RateInv'
  <2>1. UNCHANGED <<now, bag, admitted, forgiven>>
    BY <1>9 DEF Touch
  <2>2. \A q \in Request : /\ bucket'[q].tokens = bucket[q].tokens
                          /\ bucket'[q].last = bucket[q].last
    BY <1>9, TouchTypes DEF RateInv
  <2>3. \A q \in Request : req'[q] = req[q] \/ Quiet(req[q], req'[q])
    BY <1>9 DEF Touch, Quiet, RateInv, Types, TypeOK, Call
  <2> QED BY <1>1, <2>1, <2>2, <2>3, QuietStep
<1> QED BY <1>2, <1>3, <1>4, <1>5, <1>6, <1>7, <1>8, <1>9 DEF Next, Allow, Run, Reads

(* Stamps are read in Visit and SweepVisit, against the cutoff.            *)
LEMMA NextLooked ==
  ASSUME Types, Looked, [Next]_vars
  PROVE  Looked'
<1> USE LimiterAssumption
<1>1. /\ now \in Nat
      /\ req \in [Request -> Call] /\ sweep \in Pass
      /\ \A q \in Request : req[q].at \in Nat
  BY DEF Types, TypeOK, Call, Time
<1>2. ASSUME NEW r \in Request, sweep' = sweep, now' = now,
             NEW h, req' = [req EXCEPT ![r] = h],
             h.at <= now, h.pc = "delete" => h.stamp < h.at - EvictAge
      PROVE  Looked'
  BY <1>1, <1>2 DEF Looked
<1>3. ASSUME NEW r \in Request, NEW k \in Key, Arrive(r, k) PROVE Looked'
  <2> DEFINE h == [req[r] EXCEPT !.pc = "load", !.key = k, !.at = now]
  <2>1. req' = [req EXCEPT ![r] = h] /\ sweep' = sweep /\ now' = now
    BY <1>1, <1>3 DEF Arrive
  <2>2. h.at = now /\ h.pc = "load"
    BY <1>1 DEF Call
  <2>3. h.at <= now
    BY <1>1, <2>2
  <2> HIDE DEF h
  <2> QED BY <1>2, <2>1, <2>2, <2>3
<1>4. ASSUME NEW r \in Request, NEW k \in Key, Visit(r, k) PROVE Looked'
  <2> DEFINE h1 == [req[r] EXCEPT !.pc = "delete", !.victim = k, !.todo = {},
                                  !.stamp = bucket[bag[k]].seen]
             h2 == [req[r] EXCEPT !.todo = @ \ {k}]
  <2>1. /\ \/ req' = [req EXCEPT ![r] = h1] /\ bucket[bag[k]].seen < req[r].at - EvictAge
           \/ req' = [req EXCEPT ![r] = h2]
        /\ sweep' = sweep /\ now' = now /\ req[r].pc = "range"
    BY <1>1, <1>4 DEF Visit
  <2>2. /\ h1.at = req[r].at /\ h1.stamp = bucket[bag[k]].seen
        /\ h2.at = req[r].at /\ h2.pc = req[r].pc
    BY <1>1 DEF Call
  <2>3. req[r].at <= now
    BY DEF Looked
  <2> HIDE DEF h1, h2
  <2> QED BY <1>2, <2>1, <2>2, <2>3
<1>5. ASSUME NEW r \in Request, Allow(r), ~(\E k \in Key : Visit(r, k)) PROVE Looked'
  <2>1. /\ sweep' = sweep /\ now' = now
        /\ \A q \in Request : req'[q].at = req[q].at
        /\ \A q \in Request : req'[q].pc = "delete" => req'[q] = req[q]
    BY <1>1, <1>5 DEF Allow, Load, Touch, Take, Spend, Check, RangeEnds, Evict, Evicted,
                      Store, Counted, Call
  <2> QED BY <2>1 DEF Looked
<1>6. CASE Run
  <2>1. now' = now /\ req' = req
    BY <1>6 DEF Run, SweepStart, SweepVisit, SweepDelete, SweepDeleted, SweepEnds
  <2>2. CASE SweepStart
    <3> DEFINE cut == now - IdleAge
    <3>1. sweep' = [sweep EXCEPT !.pc = "range", !.cutoff = cut, !.todo = Key]
      BY <2>2 DEF SweepStart
    <3>2. cut \in Int
      BY <1>1
    <3>3. sweep'.pc = "range" /\ sweep'.cutoff = cut
      <4> HIDE DEF cut
      <4> QED BY <1>1, <3>1 DEF Pass
    <3> QED BY <1>1, <2>1, <3>2, <3>3 DEF Looked
  <2>3. ASSUME NEW k \in Key, SweepVisit(k) PROVE Looked'
    <3>1. /\ sweep.pc = "range" /\ sweep'.cutoff = sweep.cutoff
          /\ \/ sweep'.pc = "delete" /\ sweep'.stamp < sweep.cutoff
             \/ sweep'.pc = sweep.pc
      BY <1>1, <2>3 DEF SweepVisit, Pass
    <3> QED BY <2>1, <3>1 DEF Looked
  <2>4. CASE SweepDelete \/ SweepDeleted \/ SweepEnds
    <3>1. /\ sweep.pc # "idle" /\ sweep'.pc # "delete"
          /\ sweep'.cutoff = sweep.cutoff
      BY <1>1, <2>4 DEF SweepDelete, SweepDeleted, SweepEnds, Pass
    <3> QED BY <2>1, <3>1 DEF Looked
  <2> QED BY <1>6, <2>2, <2>3, <2>4 DEF Run
<1>7. CASE Advance
  <2>1. now' = now + 1 /\ req' = req /\ sweep' = sweep
    BY <1>7 DEF Advance
  <2>2. sweep.cutoff \in Int
    BY <1>1 DEF Pass
  <2>3. \A q \in Request : req[q].at <= now'
    BY <1>1, <2>1 DEF Looked
  <2>4. sweep.pc # "idle" => sweep.cutoff <= now' - IdleAge
    BY <1>1, <2>1, <2>2 DEF Looked
  <2> QED BY <2>1, <2>3, <2>4 DEF Looked
<1>8. CASE UNCHANGED vars
  BY <1>8 DEF vars, Looked
<1> QED BY <1>3, <1>4, <1>5, <1>6, <1>7, <1>8 DEF Next

LEMMA InitRate == Init => RateInv /\ Looked
<1> SUFFICES ASSUME Init PROVE RateInv /\ Looked
  OBVIOUS
<1> USE LimiterAssumption
<1>1. Types
  BY LimiterInit
<1>2. now = 0 /\ 0..now = {0}
  BY DEF Init
<1>3. Stored = {} /\ \A r \in Request : req[r].pc = "idle" /\ admitted[r] = Never
  BY DEF Init, Stored
<1>4. Owns
  BY <1>3 DEF Owns
<1>5. \A k : Orphans(k) = {}
  BY <1>3 DEF Orphans
<1>6. \A k : Of(k, 0, 0) = {}
  BY <1>3 DEF Of, Never
<1>7. \A k \in Key : forgiven[k] = 0 /\ Avail(k) = Burst
  BY <1>3 DEF Init, Avail
<1>8. Cardinality({}) = 0
  BY FS_EmptySet
<1>9. Strays
  BY <1>5, <1>7, <1>8 DEF Strays
<1>10. Rate * (0 - 0) = 0
  OBVIOUS
<1>11. Balance
  BY <1>2, <1>5, <1>6, <1>7, <1>8, <1>10 DEF Balance
<1>12. RateHeld
  BY <1>2, <1>6, <1>7, <1>8, <1>10 DEF RateHeld
<1>13. Looked
  BY DEF Init, Looked
<1> QED BY <1>1, <1>4, <1>9, <1>11, <1>12, <1>13 DEF RateInv

LEMMA RateInduction == Spec => [](RateInv /\ Looked)
<1>1. RateInv /\ Looked /\ [Next]_vars => (RateInv /\ Looked)'
  BY NextRate, NextLooked DEF RateInv
<1> QED BY <1>1, InitRate, PTL DEF Spec

(* Type correctness of the limiter; no bucket ever holds more than the     *)
(* burst.                                                                  *)
THEOREM LimiterTypeCorrect == Spec => []TypeOK
<1>1. RateInv => TypeOK
  BY DEF RateInv, Types
<1> QED BY <1>1, RateInduction, PTL

(* The rate limit: in any interval a source IP is admitted its burst, its  *)
(* rate times the length, and what evictions of buckets in use forgave.    *)
THEOREM RateSafe == Spec => []RateHeld
<1>1. RateInv => RateHeld
  BY DEF RateInv
<1> QED BY <1>1, RateInduction, PTL

-----------------------------------------------------------------------------
(***************************************************************************)
(* The approximate count.  One request moves at a time: a count of the     *)
(* requests at a place changes by what that one leaves and enters.         *)
(***************************************************************************)
One(b) == IF b THEN 1 ELSE 0

LEMMA AtMoves ==
  ASSUME NEW r \in Request, NEW p,
         \A q \in Request : q # r => req'[q].pc = req[q].pc
  PROVE  /\ At(p) \in Nat
         /\ At(p)' = At(p) + (One(req'[r].pc = p) - One(req[r].pc = p))
<1> DEFINE R  == {q \in Request : req[q].pc = p}
           RR == {q \in Request : req'[q].pc = p}
           Rest == R \ {r}
<1>1. IsFiniteSet(R) /\ Cardinality(R) \in Nat
  BY LimiterAssumption, FS_Subset, FS_CardinalityType
<1>2. IsFiniteSet(Rest) /\ Cardinality(Rest) = Cardinality(R) - One(req[r].pc = p)
  <2>1. r \in R <=> req[r].pc = p
    OBVIOUS
  <2> HIDE DEF R
  <2>2. IsFiniteSet(R \ {r})
        /\ Cardinality(R \ {r}) = IF r \in R THEN Cardinality(R) - 1 ELSE Cardinality(R)
    BY <1>1, FS_RemoveElement
  <2> QED BY <1>1, <2>1, <2>2 DEF One
<1>3. RR = IF req'[r].pc = p THEN Rest \cup {r} ELSE Rest
  OBVIOUS
<1>4. Cardinality(Rest \cup {r}) = Cardinality(Rest) + 1
  BY <1>2, FS_AddElement
<1>5. At(p) = Cardinality(R) /\ At(p)' = Cardinality(RR)
  BY DEF At
<1>6. Cardinality(Rest) \in Nat
  BY <1>2, FS_CardinalityType
<1>7. Cardinality(RR) = Cardinality(Rest) + One(req'[r].pc = p)
  <2>1. CASE req'[r].pc = p
    <3>1. RR = Rest \cup {r}
      BY <1>3, <2>1
    <3> HIDE DEF RR, Rest
    <3> QED BY <1>4, <2>1, <3>1 DEF One
  <2>2. CASE req'[r].pc # p
    <3>1. RR = Rest
      BY <1>3, <2>2
    <3> HIDE DEF RR, Rest
    <3> QED BY <1>6, <2>2, <3>1 DEF One
  <2> QED BY <2>1, <2>2
<1> DEFINE m == Cardinality(R)
           mm == Cardinality(RR)
           l == Cardinality(Rest)
<1> HIDE DEF m, mm, l
<1>8. mm = m + (One(req'[r].pc = p) - One(req[r].pc = p))
  <2>1. l = m - One(req[r].pc = p) /\ mm = l + One(req'[r].pc = p) /\ m \in Nat
    BY <1>1, <1>2, <1>7 DEF m, mm, l
  <2> QED BY <2>1 DEF One
<1> QED BY <1>1, <1>5, <1>8 DEF m, mm

LEMMA StoredFinite == IsFiniteSet(Stored) /\ Cardinality(Stored) \in Nat
<1>1. Stored \in SUBSET Key
  BY DEF Stored
<1> QED BY <1>1, LimiterAssumption, FS_Subset, FS_CardinalityType

(* Delete takes an entry away, or notes that there was none.               *)
LEMMA DeleteCounts ==
  ASSUME Types, NEW k \in Key, NEW stamp, NEW age, Delete(k, stamp, age)
  PROVE  Cardinality(Stored') - misses' = Cardinality(Stored) - misses - 1
<1>1. Stored' = Stored \ {k}
  BY DEF Delete, Types, TypeOK, Stored
<1>2. Cardinality(Stored \ {k}) =
        IF k \in Stored THEN Cardinality(Stored) - 1 ELSE Cardinality(Stored)
  BY StoredFinite, FS_RemoveElement
<1>3. misses' = IF k \in Stored THEN misses ELSE misses + 1
  BY DEF Delete
<1>4. misses \in Nat
  BY DEF Types, TypeOK
<1> DEFINE c == Cardinality(Stored)
           cc == Cardinality(Stored')
<1>5. c \in Nat /\ cc = IF k \in Stored THEN c - 1 ELSE c
  BY <1>1, <1>2, StoredFinite
<1> HIDE DEF c, cc
<1>6. cc - misses' = c - misses - 1
  BY <1>3, <1>4, <1>5
<1> QED BY <1>6 DEF c, cc

(* The count after a step, from what the step did to each of its terms.    *)
LEMMA Accounted ==
  ASSUME Types, SizeAccounted, NEW r \in Request,
         \A q \in Request : q # r => req'[q].pc = req[q].pc,
         NEW d \in Int, approxSize' = approxSize + d,
         NEW e \in Int, Cardinality(Stored') - misses' = Cardinality(Stored) - misses + e,
         Cardinality(Stored') \in Nat, misses' \in Nat,
         d = e - (One(req'[r].pc = "inc") - One(req[r].pc = "inc"))
               + (One(req'[r].pc = "dec") - One(req[r].pc = "dec"))
               + One(sweep'.pc = "dec") - One(sweep.pc = "dec")
  PROVE  SizeAccounted'
<1>1. /\ At("inc") \in Nat /\ At("dec") \in Nat
      /\ At("inc")' = At("inc") + (One(req'[r].pc = "inc") - One(req[r].pc = "inc"))
      /\ At("dec")' = At("dec") + (One(req'[r].pc = "dec") - One(req[r].pc = "dec"))
  BY AtMoves
<1>2. approxSize = Cardinality(Stored) - At("inc") + At("dec") + One(sweep.pc = "dec") - misses
  BY DEF SizeAccounted, One
<1>3. approxSize \in Int /\ misses \in Nat
  BY DEF Types, TypeOK
<1> DEFINE c == Cardinality(Stored)
           cc == Cardinality(Stored')
           i == At("inc")
           ii == At("inc")'
           j == At("dec")
           jj == At("dec")'
           x == One(req'[r].pc = "inc")
           y == One(req[r].pc = "inc")
           z == One(req'[r].pc = "dec")
           w == One(req[r].pc = "dec")
           t == One(sweep'.pc = "dec")
           u == One(sweep.pc = "dec")
<1>4. x \in Int /\ y \in Int /\ z \in Int /\ w \in Int /\ t \in Int /\ u \in Int
  BY DEF One
<1>5. c \in Nat /\ cc \in Nat
  BY StoredFinite
<1>6. approxSize' = cc - ii + jj + t - misses'
  <2>1. /\ i \in Nat /\ j \in Nat /\ ii = i + (x - y) /\ jj = j + (z - w)
        /\ approxSize = c - i + j + u - misses
        /\ approxSize' = approxSize + d
        /\ cc - misses' = c - misses + e /\ misses' \in Nat
        /\ d = e - (x - y) + (z - w) + t - u
    BY <1>1, <1>2
  <2> DEFINE m == misses
             mm == misses'
             s == approxSize
             f == x - y
             g == z - w
  <2>2. m \in Nat /\ mm \in Nat /\ s \in Int /\ f \in Int /\ g \in Int
    BY <1>3, <1>4
  <2>3. s = c - i + j + u - m /\ cc - mm = c - m + e
    BY <2>1
  <2> HIDE DEF c, cc, i, ii, j, jj, x, y, z, w, t, u, m, mm, s, f, g
  <2>4. cc - mm = s + i - j - u + e
    BY <1>4, <1>5, <2>1, <2>2, <2>3
  <2>5. ii = i + f /\ jj = j + g /\ d = e - f + g + t - u
    BY <2>1 DEF f, g
  <2>6. cc - ii + jj + t - mm = s + d
    BY <1>4, <1>5, <2>1, <2>2, <2>4, <2>5
  <2> QED BY <2>1, <2>6 DEF mm, s
<1> QED BY <1>6 DEF SizeAccounted, One

LEMMA SweepAccounted ==
  ASSUME Types, SizeAccounted, req' = req,
         NEW d \in Int, approxSize' = approxSize + d,
         NEW e \in Int, Cardinality(Stored') - misses' = Cardinality(Stored) - misses + e,
         Cardinality(Stored') \in Nat, misses' \in Nat,
         d = e + One(sweep'.pc = "dec") - One(sweep.pc = "dec")
  PROVE  SizeAccounted'
<1>1. At("inc")' = At("inc") /\ At("dec")' = At("dec")
  BY DEF At
<1>2. At("inc") \in Nat /\ At("dec") \in Nat
  <2>1. \A p : {r \in Request : req[r].pc = p} \in SUBSET Request
    OBVIOUS
  <2> QED BY <2>1, LimiterAssumption, FS_Subset, FS_CardinalityType DEF At
<1>3. approxSize = Cardinality(Stored) - At("inc") + At("dec") + One(sweep.pc = "dec") - misses
  BY DEF SizeAccounted, One
<1>4. approxSize \in Int /\ misses \in Nat
  BY DEF Types, TypeOK
<1> DEFINE c == Cardinality(Stored)
           cc == Cardinality(Stored')
           i == At("inc")
           j == At("dec")
           t == One(sweep'.pc = "dec")
           u == One(sweep.pc = "dec")
<1>5. t \in Int /\ u \in Int /\ c \in Nat /\ cc \in Nat
  BY StoredFinite DEF One
<1>6. approxSize' = cc - i + j + t - misses'
  <2>1. /\ i \in Nat /\ j \in Nat
        /\ approxSize = c - i + j + u - misses
        /\ approxSize' = approxSize + d
        /\ cc - misses' = c - misses + e /\ misses' \in Nat
        /\ d = e + t - u
    BY <1>2, <1>3
  <2> DEFINE m == misses
             mm == misses'
             s == approxSize
  <2>2. m \in Nat /\ mm \in Nat /\ s \in Int
    BY <1>4
  <2>3. s = c - i + j + u - m /\ cc - mm = c - m + e
    BY <2>1
  <2> HIDE DEF c, cc, i, j, t, u, m, mm, s
  <2>4. cc - mm = s + i - j - u + e
    BY <1>5, <2>1, <2>2, <2>3
  <2>5. cc - i + j + t - mm = s + d
    BY <1>5, <2>1, <2>2, <2>4
  <2> QED BY <2>1, <2>5 DEF mm, s
<1> QED BY <1>1, <1>6 DEF SizeAccounted, One

LEMMA NextSize ==
  ASSUME RateInv, Looked, SizeAccounted, [Next]_vars
  PROVE  SizeAccounted'
<1> USE DEF One
<1>1. Types /\ misses \in Nat /\ approxSize \in Int
  BY DEF RateInv, Types, TypeOK
<1>2. /\ misses' \in Nat
      /\ IsFiniteSet(Stored') /\ Cardinality(Stored') \in Nat
  <2>1. RateInv'
    BY NextRate
  <2>2. misses' \in Nat
    BY <2>1 DEF RateInv, Types, TypeOK
  <2>3. Stored' \in SUBSET Key
    BY DEF Stored
  <2> QED BY <2>2, <2>3, LimiterAssumption, FS_Subset, FS_CardinalityType
<1>3. ASSUME UNCHANGED <<bag, misses>>
      PROVE  Cardinality(Stored') - misses' = Cardinality(Stored) - misses + 0
  <2>1. Stored' = Stored
    BY <1>3 DEF Stored
  <2> QED BY <1>1, <1>3, <2>1, StoredFinite
<1>4. ASSUME NEW r \in Request,
             \/ \E k \in Key : Arrive(r, k) \/ Visit(r, k)
             \/ Load(r) \/ Touch(r) \/ Take(r) \/ Check(r) \/ RangeEnds(r)
             \/ Store(r) /\ req[r].key \in Stored
      PROVE  SizeAccounted'
  <2>1. UNCHANGED <<bag, misses, sweep, approxSize>>
    BY <1>4 DEF Arrive, Visit, Load, Touch, Take, Check, RangeEnds, Store
  <2>2. /\ \A q \in Request : q # r => req'[q].pc = req[q].pc
        /\ req[r].pc \notin {"inc", "dec"} /\ req'[r].pc \notin {"inc", "dec"}
    <3>1. CASE Touch(r) \/ Take(r)
      BY <1>1, <3>1 DEF Touch, Take, Spend, Types, TypeOK, Call
    <3>2. CASE \/ \E k \in Key : Arrive(r, k) \/ Visit(r, k)
               \/ Load(r) \/ Check(r) \/ RangeEnds(r)
               \/ Store(r) /\ req[r].key \in Stored
      <4>1. PICK h \in Call : req' = [req EXCEPT ![r] = h] /\ Quiet(req[r], h) /\ h.pc # "dec"
        BY <1>1, <3>2, ReadsQuietly DEF Reads
      <4>2. /\ \A q \in Request : q # r => req'[q].pc = req[q].pc
            /\ req'[r] = h
        BY <1>1, <4>1 DEF Types, TypeOK
      <4>3. req[r].pc \in {"idle", "load", "check", "range", "store"}
        BY <3>2 DEF Arrive, Visit, Load, Check, RangeEnds, Store
      <4>4. h.pc \notin {"inc", "dec"}
        BY <4>1, <4>3 DEF Quiet, Using
      <4> QED BY <4>2, <4>3, <4>4
    <3> QED BY <1>4, <3>1, <3>2
  <2>3. At("inc")' = At("inc") /\ At("dec")' = At("dec")
    <3>1. \A q \in Request : \A p \in {"inc", "dec"} : req'[q].pc = p <=> req[q].pc = p
      BY <2>2
    <3> QED BY <3>1 DEF At
  <2> QED BY <2>1, <2>3 DEF SizeAccounted, Stored
<1>5. ASSUME NEW r \in Request, Evict(r) PROVE SizeAccounted'
  <2>1. req[r].victim \in Key
    BY <1>1 DEF Types, TypeOK, Call
  <2>2. Cardinality(Stored') - misses' = Cardinality(Stored) - misses + (-1)
    BY <1>1, <1>5, <2>1, DeleteCounts, StoredFinite DEF Evict
  <2>3. /\ \A q \in Request : q # r => req'[q].pc = req[q].pc
        /\ req[r].pc = "delete" /\ req'[r].pc = "dec" /\ sweep' = sweep
    BY <1>1, <1>5 DEF Evict, Types, TypeOK, Call
  <2>4. approxSize' = approxSize + 0
    BY <1>1, <1>5 DEF Evict
  <2>5. 0 = (-1) - (One(req'[r].pc = "inc") - One(req[r].pc = "inc"))
                 + (One(req'[r].pc = "dec") - One(req[r].pc = "dec"))
                 + One(sweep'.pc = "dec") - One(sweep.pc = "dec")
    BY <2>3
  <2> QED BY <1>1, <1>2, <2>2, <2>3, <2>4, <2>5, Accounted
<1>6. ASSUME NEW r \in Request, Evicted(r) PROVE SizeAccounted'
  <2>1. /\ \A q \in Request : q # r => req'[q].pc = req[q].pc
        /\ req[r].pc = "dec" /\ req'[r].pc = "store" /\ UNCHANGED <<bag, misses, sweep>>
    BY <1>1, <1>6 DEF Evicted, Types, TypeOK, Call
  <2>2. approxSize' = approxSize + (-1)
    BY <1>1, <1>6 DEF Evicted
  <2> QED BY <1>1, <1>2, <1>3, <2>1, <2>2, Accounted
<1>7. ASSUME NEW r \in Request, Store(r), req[r].key \notin Stored PROVE SizeAccounted'
  <2> DEFINE k == req[r].key
  <2>1. /\ \A q \in Request : q # r => req'[q].pc = req[q].pc
        /\ req[r].pc = "store" /\ req'[r].pc = "inc" /\ UNCHANGED <<misses, sweep>>
        /\ bag' = [bag EXCEPT ![k] = r]
    BY <1>1, <1>7 DEF Store, Types, TypeOK, Call
  <2>2. Stored' = Stored \cup {k}
    BY <1>1, <2>1, LimiterAssumption DEF Stored, Types, TypeOK, Call
  <2>3. Cardinality(Stored') = Cardinality(Stored) + 1
    BY <1>7, <2>2, StoredFinite, FS_AddElement
  <2>4. Cardinality(Stored') - misses' = Cardinality(Stored) - misses + 1
    BY <1>1, <2>1, <2>3, StoredFinite
  <2>5. approxSize' = approxSize + 0
    BY <1>1, <1>7 DEF Store
  <2> QED BY <1>1, <1>2, <2>1, <2>4, <2>5, Accounted
<1>8. ASSUME NEW r \in Request, Counted(r) PROVE SizeAccounted'
  <2>1. /\ \A q \in Request : q # r => req'[q].pc = req[q].pc
        /\ req[r].pc = "inc" /\ req'[r].pc = "spend" /\ UNCHANGED <<bag, misses, sweep>>
    BY <1>1, <1>8 DEF Counted, Types, TypeOK, Call
  <2>2. approxSize' = approxSize + 1
    BY <1>1, <1>8 DEF Counted
  <2> QED BY <1>1, <1>2, <1>3, <2>1, <2>2, Accounted
<1>9. CASE UNCHANGED <<approxSize, bag, misses, req>> /\ sweep.pc # "dec" /\ sweep'.pc # "dec"
  BY <1>9 DEF SizeAccounted, At, Stored
<1>10. CASE SweepStart \/ (\E k \in Key : SweepVisit(k)) \/ SweepEnds
  <2>1. UNCHANGED <<approxSize, bag, misses, req>>
    BY <1>10 DEF SweepStart, SweepVisit, SweepEnds
  <2>2. sweep.pc # "dec" /\ sweep'.pc # "dec"
    BY <1>1, <1>10 DEF SweepStart, SweepVisit, SweepEnds, Types, TypeOK, Pass
  <2> QED BY <1>9, <2>1, <2>2
<1>11. CASE Advance \/ UNCHANGED vars
  <2>1. UNCHANGED <<approxSize, bag, misses, req, sweep>>
    BY <1>11 DEF Advance, vars
  <2> QED BY <2>1 DEF SizeAccounted, At, Stored
<1>12. CASE SweepDelete
  <2>1. sweep.victim \in Key
    BY <1>1 DEF Types, TypeOK, Pass
  <2>2. Cardinality(Stored') - misses' = Cardinality(Stored) - misses + (-1)
    BY <1>1, <1>12, <2>1, DeleteCounts, StoredFinite DEF SweepDelete
  <2>3. sweep.pc # "dec" /\ sweep'.pc = "dec" /\ req' = req
        /\ approxSize' = approxSize + 0
    BY <1>1, <1>12 DEF SweepDelete, Types, TypeOK, Pass
  <2> QED BY <1>1, <1>2, <2>2, <2>3, SweepAccounted
<1>13. CASE SweepDeleted
  <2>1. /\ sweep.pc = "dec" /\ sweep'.pc # "dec" /\ approxSize' = approxSize + (-1)
        /\ UNCHANGED <<bag, misses, req>>
    BY <1>1, <1>13 DEF SweepDeleted, Types, TypeOK, Pass
  <2> QED BY <1>1, <1>2, <1>3, <2>1, SweepAccounted
<1> QED BY <1>4, <1>5, <1>6, <1>7, <1>8, <1>10, <1>11, <1>12, <1>13 DEF Next, Allow, Run

(* approxSize never drifts from the number of entries by more than the     *)
(* operations that are between their two steps and the deletes that found  *)
(* nothing.                                                                *)
THEOREM SizeSafe == Spec => []SizeAccounted
<1>1. Init => SizeAccounted
  <2> SUFFICES ASSUME Init PROVE SizeAccounted
    OBVIOUS
  <2>1. /\ Stored = {}
        /\ {r \in Request : req[r].pc = "inc"} = {}
        /\ {r \in Request : req[r].pc = "dec"} = {}
    BY DEF Init, Stored
  <2>2. Cardinality(Stored) = 0 /\ At("inc") = 0 /\ At("dec") = 0
    BY <2>1, FS_EmptySet DEF At
  <2>3. sweep.pc # "dec" /\ approxSize = 0 /\ misses = 0
    BY DEF Init
  <2> QED BY <2>2, <2>3 DEF SizeAccounted
<1>2. RateInv /\ Looked /\ SizeAccounted /\ [Next]_vars => SizeAccounted'
  BY NextSize
<1> QED BY <1>1, <1>2, RateInduction, PTL DEF Spec

=============================================================================
