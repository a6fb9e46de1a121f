----------------------------- MODULE WorkerLock -----------------------------
(***************************************************************************)
(* The single-owner guard of the worker (worker/lock.go) and the tick that *)
(* runs under it (cmd/worker/main.go, runTick): SET NX PX on one key, a    *)
(* context that ends the tick before the key can expire, a compare-and-    *)
(* delete script on the way out with that same context.                    *)
(*                                                                         *)
(* Time is counted down, not up: the key's remaining TTL, the time left    *)
(* before a tick's deadline and the life left in a command the client has  *)
(* given up on but Redis may still execute.  Elapse takes one unit off     *)
(* each.  The model assumes the worker's and Redis's clocks run at the     *)
(* same rate.                                                              *)
(***************************************************************************)
EXTENDS Integers, FiniteSets

CONSTANTS
  Worker,       (* worker processes, one goroutine each                  *)
  LockTTL,      (* 60 s in main.go                                       *)
  TickTimeout,  (* 45 s in runTick                                       *)
  Delay,        (* how long a command may stay in flight                 *)
  MaxLate,      (* bound: commands in flight at once                     *)
  MaxLife,      (* bound: restarts of one worker                         *)
  MaxResends,   (* bound: releases that are sent again                   *)
  NoOwner

ASSUME LockAssumption ==
  /\ LockTTL \in Nat /\ TickTimeout \in Nat /\ Delay \in Nat
  /\ TickTimeout > 0
  /\ TickTimeout + Delay < LockTTL
  /\ MaxLate \in Nat /\ MaxLife \in Nat /\ MaxResends \in Nat
  /\ NoOwner \notin Worker \X Nat

VARIABLES
  owner,      (* value of worker:lock: an owner's id, NoOwner when unset *)
  ttl,        (* its remaining PX                                        *)
  pc,         (* [Worker -> where its goroutine is]                      *)
  left,       (* [Worker -> time before tickCtx's deadline]              *)
  cancelled,  (* the workers that got SIGTERM                            *)
  life,       (* [Worker -> process incarnation]                         *)
  resends,    (* releases a client has sent again                        *)
  late        (* commands the client gave up on, still in flight         *)

vars == <<owner, ttl, pc, left, cancelled, life, resends, late>>

(* The id NewLock draws is per process: all ticks of one process share it. *)
Id(w) == <<w, life[w]>>

Command == [op : {"setnx", "release"}, id : Worker \X Nat, left : 0..Delay]

TypeOK ==
  /\ owner \in (Worker \X Nat) \cup {NoOwner}
  /\ ttl \in 0..LockTTL
  /\ pc \in [Worker -> {"idle", "acquire", "tick", "release", "down"}]
  /\ left \in [Worker -> 0..TickTimeout]
  /\ cancelled \in SUBSET Worker
  /\ life \in [Worker -> Nat]
  /\ resends \in Nat
  /\ late \in SUBSET Command

Init ==
  /\ owner = NoOwner /\ ttl = 0
  /\ pc = [w \in Worker |-> "idle"]
  /\ left = [w \in Worker |-> 0]
  /\ cancelled = {}
  /\ life = [w \in Worker |-> 0]
  /\ resends = 0
  /\ late = {}

(* tickCtx is neither past its deadline nor cancelled.                     *)
Live(w) == left[w] > 0 /\ w \notin cancelled

-----------------------------------------------------------------------------
(* What Redis does with the two commands.  The definitions named for a     *)
(* fault are not part of the specification: they show that the properties  *)
(* notice it.                                                              *)
SetAlways(id) ==
  /\ owner' = id
  /\ ttl' = LockTTL

(* Without PX a key has no expiry: Redis tells its TTL as -1.              *)
SetNXForever(id) ==
  /\ owner = NoOwner
  /\ owner' = id
  /\ ttl' = -1

SetNX(id) ==
  /\ owner = NoOwner
  /\ owner' = id
  /\ ttl' = LockTTL

CompareAndDelete(id) ==
  IF owner = id THEN owner' = NoOwner /\ ttl' = 0 ELSE UNCHANGED <<owner, ttl>>

(* The client stops waiting for a command that Redis may execute within    *)
(* Delay, or that is lost for good.                                        *)
LeftBehind(op, id) ==
  \/ UNCHANGED late
  \/ /\ Cardinality(late) < MaxLate
     /\ late' = late \cup {[op |-> op, id |-> id, left |-> Delay]}

-----------------------------------------------------------------------------
(* The ticker fires: tickCtx starts before the lock is asked for.  select  *)
(* may draw the ticker although ctx is done.                               *)
StartTick(w) ==
  /\ pc[w] = "idle"
  /\ pc' = [pc EXCEPT ![w] = "acquire"]
  /\ left' = [left EXCEPT ![w] = TickTimeout]
  /\ UNCHANGED <<owner, ttl, cancelled, life, resends, late>>

Acquire(w) ==
  /\ pc[w] = "acquire" /\ Live(w)
  /\ SetNX(Id(w))
  /\ pc' = [pc EXCEPT ![w] = "tick"]
  /\ UNCHANGED <<left, cancelled, life, resends, late>>

LockedRenews(w) ==
  /\ pc[w] = "acquire" /\ Live(w)
  /\ owner # NoOwner
  /\ ttl' = LockTTL
  /\ pc' = [pc EXCEPT ![w] = "idle"]
  /\ UNCHANGED <<owner, left, cancelled, life, resends, late>>

(* SET NX replies that the key exists: skip this tick.                     *)
Locked(w) ==
  /\ pc[w] = "acquire" /\ Live(w)
  /\ owner # NoOwner
  /\ pc' = [pc EXCEPT ![w] = "idle"]
  /\ UNCHANGED <<owner, ttl, left, cancelled, life, resends, late>>

(* TryAcquire fails, and skips the tick, although the key may have been    *)
(* set, now or later; a resend of SET NX that finds the first copy's key   *)
(* is reported as Locked and leaves the same state.                        *)
AcquireFailed(w) ==
  /\ pc[w] = "acquire"
  /\ \/ Live(w) /\ SetNX(Id(w)) /\ UNCHANGED late
     \/ Live(w) /\ LeftBehind("setnx", Id(w)) /\ UNCHANGED <<owner, ttl>>
     \/ ~Live(w) /\ UNCHANGED <<owner, ttl, late>>
  /\ pc' = [pc EXCEPT ![w] = "idle"]
  /\ UNCHANGED <<left, cancelled, life, resends>>

(* Drainer.Tick returns, by itself or because the context ended.           *)
TickReturns(w) ==
  /\ pc[w] = "tick"
  /\ pc' = [pc EXCEPT ![w] = "release"]
  /\ UNCHANGED <<owner, ttl, left, cancelled, life, resends, late>>

Release(w) ==
  /\ pc[w] = "release" /\ Live(w)
  /\ CompareAndDelete(Id(w))
  /\ pc' = [pc EXCEPT ![w] = "idle"]
  /\ UNCHANGED <<left, cancelled, life, resends, late>>

(* The client gives a copy up and sends the script again.                  *)
ReleaseResent(w) ==
  /\ pc[w] = "release" /\ Live(w)
  /\ resends < MaxResends
  /\ resends' = resends + 1
  /\ LeftBehind("release", Id(w))
  /\ UNCHANGED <<owner, ttl, pc, left, cancelled, life>>

(* Release fails: its context is done, or no copy was answered.            *)
ReleaseFailed(w) ==
  /\ pc[w] = "release"
  /\ IF Live(w) THEN LeftBehind("release", Id(w)) ELSE UNCHANGED late
  /\ pc' = [pc EXCEPT ![w] = "idle"]
  /\ UNCHANGED <<owner, ttl, left, cancelled, life, resends>>

-----------------------------------------------------------------------------
(* SIGTERM cancels the context every tick derives from; the loop returns   *)
(* once runTick did.                                                       *)
Terminate(w) ==
  /\ pc[w] # "down" /\ w \notin cancelled
  /\ cancelled' = cancelled \cup {w}
  /\ UNCHANGED <<owner, ttl, pc, left, life, resends, late>>

Exit(w) ==
  /\ pc[w] = "idle" /\ w \in cancelled
  /\ pc' = [pc EXCEPT ![w] = "down"]
  /\ UNCHANGED <<owner, ttl, left, cancelled, life, resends, late>>

Crash(w) ==
  /\ pc[w] # "down"
  /\ pc' = [pc EXCEPT ![w] = "down"]
  /\ UNCHANGED <<owner, ttl, left, cancelled, life, resends, late>>

(* A new process draws a new id.                                           *)
Restart(w) ==
  /\ pc[w] = "down" /\ life[w] < MaxLife
  /\ pc' = [pc EXCEPT ![w] = "idle"]
  /\ left' = [left EXCEPT ![w] = 0]
  /\ life' = [life EXCEPT ![w] = @ + 1]
  /\ cancelled' = cancelled \ {w}
  /\ UNCHANGED <<owner, ttl, resends, late>>

(* Redis executes a command nobody waits for any more.                     *)
Land(m) ==
  /\ IF m.op = "release" THEN CompareAndDelete(m.id)
     ELSE SetNX(m.id) \/ (owner # NoOwner /\ UNCHANGED <<owner, ttl>>)
  /\ late' = late \ {m}
  /\ UNCHANGED <<pc, left, cancelled, life, resends>>

Dec(n) == IF n > 0 THEN n - 1 ELSE 0

(* Time passes: the key expires, deadlines approach, commands die.         *)
Elapse ==
  /\ ttl' = Dec(ttl)
  /\ owner' = IF ttl <= 1 THEN NoOwner ELSE owner
  /\ left' = [w \in Worker |-> Dec(left[w])]
  /\ late' = {[m EXCEPT !.left = Dec(@)] : m \in {l \in late : l.left > 0}}
  /\ UNCHANGED <<pc, cancelled, life, resends>>

Run(w) ==
  \/ Acquire(w) \/ Locked(w) \/ AcquireFailed(w)
  \/ TickReturns(w)
  \/ Release(w) \/ ReleaseResent(w) \/ ReleaseFailed(w)
  \/ Exit(w)

Next ==
  \/ \E w \in Worker :
       StartTick(w) \/ Run(w) \/ Terminate(w) \/ Crash(w) \/ Restart(w)
  \/ \E m \in late : Land(m)
  \/ Elapse

(* The clock runs.                                                         *)
Fairness == WF_vars(Elapse)

Spec == Init /\ [][Next]_vars /\ Fairness

-----------------------------------------------------------------------------
(* A worker that may still issue the tick's Redis and Postgres calls.      *)
Working(w) == pc[w] = "tick" /\ Live(w)

(* No client has sent a release again.                                     *)
NoResend == resends = 0

(* "A Redis SET-NX-PX distributed lock guarantees only one worker replica  *)
(* runs a tick at a time" (worker/lock.go).                                *)
OneTickAtATime ==
  \A v, w \in Worker : Working(v) /\ Working(w) => v = w

(* Across crashes, timeouts, lost replies and commands that land late,     *)
(* that is so as long as no client has sent a release again.               *)
MutualExclusion == NoResend => OneTickAtATime

(* A tick that can still act then owns the key, and the key outlives both  *)
(* the tick and any release it may leave behind.                           *)
WorkersOwnLock ==
  NoResend =>
    \A w \in Worker :
      (pc[w] \in {"tick", "release"} /\ Live(w)) =>
         owner = Id(w) /\ ttl > left[w] + Delay

(* No crash, failed release or late SET NX wedges the lock: whoever holds  *)
(* it, the key goes away and the next tick can have it.                    *)
LockFreed == owner # NoOwner ~> owner = NoOwner

=============================================================================
