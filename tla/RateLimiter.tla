----------------------------- MODULE RateLimiter ----------------------------
(***************************************************************************)
(* The per-IP limiter in front of /vast and /track (httpmw/ratelimit.go):  *)
(* a sync.Map of token buckets, an approximate count of its entries, the   *)
(* eviction a request does when the count is at the cap, and the sweeper.  *)
(* Each operation on the map, on the counter, on a bucket's lastSeen and   *)
(* on its limiter is a step of its own; nothing else is shared.            *)
(*                                                                         *)
(* A bucket is named by the request that made it.  Token buckets are       *)
(* golang.org/x/time/rate's: full when new, Rate tokens per time unit.     *)
(***************************************************************************)
EXTENDS Integers, FiniteSets

CONSTANTS
  Key,        (* source IPs                                              *)
  Request,
  Rate, Burst,
  Cap,        (* capN                                                    *)
  EvictAge,   (* 60 s, in Allow                                          *)
  IdleAge,    (* 15 min, in Run                                          *)
  MaxTime,    (* bound: the clock stops here                             *)
  MaxSweeps,  (* bound: passes of Run                                    *)
  NoBucket

ASSUME LimiterAssumption ==
  /\ Rate \in Nat \ {0} /\ Burst \in Nat /\ Cap \in Nat \ {0}
  /\ EvictAge \in Nat /\ IdleAge \in Nat /\ MaxTime \in Nat /\ MaxSweeps \in Nat
  /\ NoBucket \notin Request /\ IsFiniteSet(Key) /\ IsFiniteSet(Request)

Time == 0..MaxTime
Never == -1

VARIABLES
  now,
  bag,         (* [Key -> the bucket stored under it, or NoBucket]       *)
  bucket,      (* [Request -> the bucket it made: tokens, last, seen]    *)
  approxSize,
  req,         (* [Request -> Allow, as it runs for one request]         *)
  sweep,       (* Run                                                    *)
  admitted,    (* [Request -> when Allow returned TRUE] (history)        *)
  misses,      (* Deletes that found nothing (history)                   *)
  forgiven,    (* [Key -> what Delete excuses, below] (history)          *)
  sweeps

vars == <<now, bag, bucket, approxSize, req, sweep, admitted, misses, forgiven, sweeps>>

Bucket == [tokens : Nat, last : Time, seen : Time]

(* at: now := time.Now().Unix(); todo: what Range has yet to visit; stamp: *)
(* the lastSeen it chose the victim by (history).                          *)
Call == [pc   : {"idle", "load", "check", "range", "delete", "dec", "store", "inc",
                 "take", "spend", "allowed", "limited"},
         key  : Key, at : Time, mine : Request \cup {NoBucket},
         todo : SUBSET Key, victim : Key, stamp : Time]
Pass == [pc : {"idle", "range", "delete", "dec"}, cutoff : Int, todo : SUBSET Key,
         victim : Key, stamp : Time]

TypeOK ==
  /\ now \in Time
  /\ bag \in [Key -> Request \cup {NoBucket}]
  /\ bucket \in [Request -> Bucket]
  /\ approxSize \in Int
  /\ req \in [Request -> Call]
  /\ sweep \in Pass
  /\ admitted \in [Request -> Time \cup {Never}]
  /\ misses \in Nat /\ forgiven \in [Key -> Nat] /\ sweeps \in Nat
  /\ \A r \in Request : bucket[r].tokens <= Burst

Init ==
  /\ now = 0
  /\ bag = [k \in Key |-> NoBucket]
  /\ bucket = [r \in Request |-> [tokens |-> Burst, last |-> 0, seen |-> 0]]
  /\ approxSize = 0
  /\ \E k \in Key :
       /\ req = [r \in Request |-> [pc |-> "idle", key |-> k, at |-> 0,
                                    mine |-> NoBucket, todo |-> {}, victim |-> k,
                                    stamp |-> 0]]
       /\ sweep = [pc |-> "idle", cutoff |-> 0, todo |-> {}, victim |-> k,
                   stamp |-> 0]
  /\ admitted = [r \in Request |-> Never]
  /\ misses = 0 /\ forgiven = [k \in Key |-> 0] /\ sweeps = 0

Stored == {k \in Key : bag[k] # NoBucket}

-----------------------------------------------------------------------------
(***************************************************************************)
(* The bucket: rate.Limiter.Allow, at time `now`.                          *)
(***************************************************************************)
Least(a, b) == IF a <= b THEN a ELSE b
(* The definitions named for a fault are not part of the specification:    *)
(* they show that the properties notice it.                                *)
TokensUncapped(v) == bucket[v].tokens + Rate * (now - bucket[v].last)

Tokens(v) == Least(Burst, bucket[v].tokens + Rate * (now - bucket[v].last))

(* limiter.Allow, and the answer.                                          *)
Spend(r, v) ==
  IF Tokens(v) >= 1
    THEN /\ bucket' = [bucket EXCEPT ![v].tokens = Tokens(v) - 1, ![v].last = now]
         /\ admitted' = [admitted EXCEPT ![r] = now]
         /\ req' = [req EXCEPT ![r].pc = "allowed"]
    ELSE /\ req' = [req EXCEPT ![r].pc = "limited"]
         /\ UNCHANGED <<bucket, admitted>>

(***************************************************************************)
(* bag.Delete: whatever is under the key by now.  The next bucket of the   *)
(* key is full again, and who holds this one goes on with it.              *)
(***************************************************************************)
Holders(v) == {r \in Request : req[r].mine = v /\ req[r].pc \in {"inc", "take", "spend"}}

(* A bucket deleted for not being seen for `age` gives away what that time *)
(* does not refill; only where it was spent from later than the stamp      *)
(* shows, all that it lacks is excused.                                    *)
Lost(v, stamp, age) ==
  IF bucket[v].last > stamp THEN Burst - Tokens(v) ELSE Burst - Least(Burst, Rate * age)

Delete(k, stamp, age) ==
  /\ bag' = [bag EXCEPT ![k] = NoBucket]
  /\ misses' = IF k \in Stored THEN misses ELSE misses + 1
  /\ forgiven' = IF k \in Stored
                   THEN [forgiven EXCEPT ![k] = @ + Lost(bag[k], stamp, age)
                                                  + Cardinality(Holders(bag[k]))]
                   ELSE forgiven

-----------------------------------------------------------------------------
(* Middleware has resolved the source IP; Allow reads the clock.           *)
Arrive(r, k) ==
  /\ req[r].pc = "idle"
  /\ req' = [req EXCEPT ![r].pc = "load", ![r].key = k, ![r].at = now]
  /\ UNCHANGED <<now, bag, bucket, approxSize, sweep, admitted, misses, forgiven, sweeps>>

Load(r) ==
  /\ req[r].pc = "load"
  /\ req' = IF req[r].key \in Stored
              THEN [req EXCEPT ![r].pc = "take", ![r].mine = bag[req[r].key]]
              ELSE [req EXCEPT ![r].pc = "check"]
  /\ UNCHANGED <<now, bag, bucket, approxSize, sweep, admitted, misses, forgiven, sweeps>>

(* v.lastSeen.Store(now)                                                   *)
Touch(r) ==
  /\ req[r].pc = "take"
  /\ bucket' = [bucket EXCEPT ![req[r].mine].seen = req[r].at]
  /\ req' = [req EXCEPT ![r].pc = "spend"]
  /\ UNCHANGED <<now, bag, approxSize, sweep, admitted, misses, forgiven, sweeps>>

(* The bucket's Allow, for one that was touched or that LoadOrStore        *)
(* returned.                                                               *)
Take(r) ==
  /\ req[r].pc = "spend"
  /\ Spend(r, req[r].mine)
  /\ UNCHANGED <<now, bag, approxSize, sweep, misses, forgiven, sweeps>>

(* At the cap, Range looks for one bucket to evict.                        *)
Check(r) ==
  /\ req[r].pc = "check"
  /\ req' = IF approxSize >= Cap
              THEN [req EXCEPT ![r].pc = "range", ![r].todo = Key]
              ELSE [req EXCEPT ![r].pc = "store"]
  /\ UNCHANGED <<now, bag, bucket, approxSize, sweep, admitted, misses, forgiven, sweeps>>

VisitEvictsAny(r, k) ==
  /\ req[r].pc = "range" /\ k \in req[r].todo
  /\ req' = IF k \in Stored
              THEN [req EXCEPT ![r].pc = "delete", ![r].victim = k, ![r].todo = {},
                               ![r].stamp = bucket[bag[k]].seen]
              ELSE [req EXCEPT ![r].todo = @ \ {k}]
  /\ UNCHANGED <<now, bag, bucket, approxSize, sweep, admitted, misses, forgiven, sweeps>>

(* One entry: the first that is idle ends the Range.                       *)
Visit(r, k) ==
  /\ req[r].pc = "range" /\ k \in req[r].todo
  /\ req' = IF k \in Stored /\ bucket[bag[k]].seen < req[r].at - EvictAge
              THEN [req EXCEPT ![r].pc = "delete", ![r].victim = k, ![r].todo = {},
                               ![r].stamp = bucket[bag[k]].seen]
              ELSE [req EXCEPT ![r].todo = @ \ {k}]
  /\ UNCHANGED <<now, bag, bucket, approxSize, sweep, admitted, misses, forgiven, sweeps>>

RangeEnds(r) ==
  /\ req[r].pc = "range" /\ req[r].todo = {}
  /\ req' = [req EXCEPT ![r].pc = "store"]
  /\ UNCHANGED <<now, bag, bucket, approxSize, sweep, admitted, misses, forgiven, sweeps>>

Evict(r) ==
  /\ req[r].pc = "delete"
  /\ Delete(req[r].victim, req[r].stamp, EvictAge)
  /\ req' = [req EXCEPT ![r].pc = "dec"]
  /\ UNCHANGED <<now, bucket, approxSize, sweep, admitted, sweeps>>

Evicted(r) ==
  /\ req[r].pc = "dec"
  /\ approxSize' = approxSize - 1
  /\ req' = [req EXCEPT ![r].pc = "store"]
  /\ UNCHANGED <<now, bag, bucket, sweep, admitted, misses, forgiven, sweeps>>

Made(r) == [tokens |-> Burst, last |-> now, seen |-> req[r].at]

StoreOverwrites(r) ==
  /\ req[r].pc = "store"
  /\ LET k == req[r].key IN
       /\ bag' = [bag EXCEPT ![k] = r]
       /\ bucket' = [bucket EXCEPT ![r] = Made(r)]
       /\ req' = [req EXCEPT ![r].pc = IF k \in Stored THEN "spend" ELSE "inc", ![r].mine = r]
  /\ UNCHANGED <<now, approxSize, sweep, admitted, misses, forgiven, sweeps>>

StoreCountsLoaded(r) ==
  /\ req[r].pc = "store"
  /\ LET k == req[r].key
         v == IF k \in Stored THEN bag[k] ELSE r IN
       /\ bag' = [bag EXCEPT ![k] = v]
       /\ bucket' = IF k \in Stored THEN bucket ELSE [bucket EXCEPT ![r] = Made(r)]
       /\ req' = [req EXCEPT ![r].pc = "inc", ![r].mine = v]
  /\ UNCHANGED <<now, approxSize, sweep, admitted, misses, forgiven, sweeps>>

(* LoadOrStore                                                             *)
Store(r) ==
  /\ req[r].pc = "store"
  /\ LET k == req[r].key IN
       IF k \in Stored
         THEN /\ req' = [req EXCEPT ![r].pc = "spend", ![r].mine = bag[k]]
              /\ UNCHANGED <<bag, bucket>>
         ELSE /\ bag' = [bag EXCEPT ![k] = r]
              /\ bucket' = [bucket EXCEPT ![r] = Made(r)]
              /\ req' = [req EXCEPT ![r].pc = "inc", ![r].mine = r]
  /\ UNCHANGED <<now, approxSize, sweep, admitted, misses, forgiven, sweeps>>

Counted(r) ==
  /\ req[r].pc = "inc"
  /\ approxSize' = approxSize + 1
  /\ req' = [req EXCEPT ![r].pc = "spend"]
  /\ UNCHANGED <<now, bag, bucket, sweep, admitted, misses, forgiven, sweeps>>

-----------------------------------------------------------------------------
(***************************************************************************)
(* Run: the ticker fires, and every entry is visited.                      *)
(***************************************************************************)
SweepStart ==
  /\ sweep.pc = "idle" /\ sweeps < MaxSweeps
  /\ sweeps' = sweeps + 1
  /\ sweep' = [sweep EXCEPT !.pc = "range", !.cutoff = now - IdleAge, !.todo = Key]
  /\ UNCHANGED <<now, bag, bucket, approxSize, req, admitted, misses, forgiven>>

SweepVisit(k) ==
  /\ sweep.pc = "range" /\ k \in sweep.todo
  /\ sweep' = IF k \in Stored /\ bucket[bag[k]].seen < sweep.cutoff
                THEN [sweep EXCEPT !.pc = "delete", !.victim = k, !.todo = @ \ {k},
                                   !.stamp = bucket[bag[k]].seen]
                ELSE [sweep EXCEPT !.todo = @ \ {k}]
  /\ UNCHANGED <<now, bag, bucket, approxSize, req, admitted, misses, forgiven, sweeps>>

SweepDelete ==
  /\ sweep.pc = "delete"
  /\ Delete(sweep.victim, sweep.stamp, IdleAge)
  /\ sweep' = [sweep EXCEPT !.pc = "dec"]
  /\ UNCHANGED <<now, bucket, approxSize, req, admitted, sweeps>>

SweepDeleted ==
  /\ sweep.pc = "dec"
  /\ approxSize' = approxSize - 1
  /\ sweep' = [sweep EXCEPT !.pc = "range"]
  /\ UNCHANGED <<now, bag, bucket, req, admitted, misses, forgiven, sweeps>>

SweepEnds ==
  /\ sweep.pc = "range" /\ sweep.todo = {}
  /\ sweep' = [sweep EXCEPT !.pc = "idle"]
  /\ UNCHANGED <<now, bag, bucket, approxSize, req, admitted, misses, forgiven, sweeps>>

Advance ==
  /\ now < MaxTime
  /\ now' = now + 1
  /\ UNCHANGED <<bag, bucket, approxSize, req, sweep, admitted, misses, forgiven, sweeps>>

Allow(r) ==
  \/ Load(r) \/ Touch(r) \/ Take(r) \/ Check(r)
  \/ \E k \in Key : Visit(r, k)
  \/ RangeEnds(r) \/ Evict(r) \/ Evicted(r) \/ Store(r) \/ Counted(r)

Run ==
  \/ SweepStart \/ (\E k \in Key : SweepVisit(k))
  \/ SweepDelete \/ SweepDeleted \/ SweepEnds

Next ==
  \/ \E r \in Request : (\E k \in Key : Arrive(r, k)) \/ Allow(r)
  \/ Run \/ Advance

Spec == Init /\ [][Next]_vars

-----------------------------------------------------------------------------
Of(k, from, to) == {r \in Request : req[r].key = k /\ admitted[r] \in from..to}

(* In any interval a source IP gets its burst and its rate, however its    *)
(* first requests race for the bucket and whenever an idle bucket, full by *)
(* then, is dropped and made again.  An eviction that deletes a bucket     *)
(* spent from after the time it looked at gives it as much more as the     *)
(* bucket lacked, any gives the requests on their way to it; a bucket that *)
(* looked idle only to a wrong test is excused nothing.                    *)
RateHeld ==
  \A k \in Key : \A from, to \in 0..now :
    from <= to => Cardinality(Of(k, from, to)) <= Burst + Rate * (to - from) + forgiven[k]

At(p) == Cardinality({r \in Request : req[r].pc = p})

(* approxSize is the number of entries, up to the operations in progress   *)
(* and the entries two evictions both took for their own.                  *)
SizeAccounted ==
  approxSize = Cardinality(Stored) - At("inc") + At("dec")
                 + (IF sweep.pc = "dec" THEN 1 ELSE 0) - misses

=============================================================================
