------------------------------ MODULE Drainer -------------------------------
(***************************************************************************)
(* The counting half of the worker's tick (worker/drainer.go, Tick up to   *)
(* and with upsertDeltas): counters leave Redis by GETDEL, one key at a    *)
(* time, wait in the process's memory and are added to daily_stats one row *)
(* at a time.  /track keeps incrementing meanwhile.                        *)
(*                                                                         *)
(* A Redis counter is represented by the set of hits it has counted: its   *)
(* value is that set's cardinality.  daily_stats holds numbers, as in      *)
(* Postgres; `fired`, `booked` and `lost` say which hits they stand for.   *)
(*                                                                         *)
(* Workers tick here without the lock of WorkerLock, so what holds does    *)
(* not depend on it.                                                       *)
(***************************************************************************)
EXTENDS Integers, FiniteSets

CONSTANTS
  Worker, Ad, Event,
  Hit,          (* every INCR /track may execute                         *)
  MaxDay,       (* bound: days that pass                                 *)
  MaxFailures   (* bound: calls that fail and ticks that are cut short   *)

ASSUME DrainerAssumption ==
  /\ IsFiniteSet(Hit)
  /\ MaxDay \in Nat /\ MaxFailures \in Nat

Day == 0..MaxDay
Key == Ad \X Event \X Day     (* ad:<id>:event:<ev>:<date> *)
Row == Ad \X Day              (* UNIQUE (ad_id, date)      *)

VARIABLES
  today,      (* the UTC date                                            *)
  phase,      (* "midnight": INCRs of the day before may still arrive,   *)
              (* "day": no longer, "ticked": and a tick has run cleanly  *)
  active,     (* ads loadQuery returns: active, of an active campaign    *)
              (* inside its dates                                        *)
  steady,     (* the ads that never left `active` (history)              *)
  counter,    (* [Key -> hits in Redis]                                  *)
  tick,       (* [Worker -> the tick it is in]                           *)
  stats,      (* [Key -> the column of daily_stats]                      *)
  fired,      (* [Key -> hits counted under it] (history)                *)
  booked,     (* [Key -> hits its column stands for] (history)           *)
  lost,       (* [Key -> hits neither in Redis nor going to daily_stats] *)
  failures

vars == <<today, phase, active, steady, counter, tick, stats, fired, booked,
          lost, failures>>

NoDelta == [k \in Key |-> {}]

Tick == [pc    : {"idle", "loaded", "drain", "upsert"},
         ads   : SUBSET Ad,
         day   : Day,
         todo  : SUBSET Key,
         delta : [Key -> SUBSET Hit],
         clean : BOOLEAN]

TypeOK ==
  /\ today \in Day
  /\ phase \in {"midnight", "day", "ticked"}
  /\ active \in SUBSET Ad /\ steady \in SUBSET Ad
  /\ counter \in [Key -> SUBSET Hit]
  /\ tick \in [Worker -> Tick]
  /\ stats \in [Key -> Nat]
  /\ fired \in [Key -> SUBSET Hit]
  /\ booked \in [Key -> SUBSET Hit]
  /\ lost \in [Key -> SUBSET Hit]
  /\ failures \in Nat

Idle == [pc |-> "idle", ads |-> {}, day |-> 0, todo |-> {}, delta |-> NoDelta,
         clean |-> TRUE]

Init ==
  /\ today = 0 /\ phase = "day"
  /\ active = Ad /\ steady = Ad
  /\ counter = NoDelta
  /\ tick = [w \in Worker |-> Idle]
  /\ stats = [k \in Key |-> 0]
  /\ fired = NoDelta /\ booked = NoDelta /\ lost = NoDelta
  /\ failures = 0

Fail == failures < MaxFailures /\ failures' = failures + 1

-----------------------------------------------------------------------------
(***************************************************************************)
(* The environment                                                         *)
(***************************************************************************)
(* /track executes an INCR.  It formatted the date before: just after      *)
(* midnight the key may be yesterday's.                                    *)
Increment(h) ==
  /\ \A k \in Key : h \notin fired[k]
  /\ \E a \in Ad, e \in Event, d \in IF phase = "midnight" THEN {today, today - 1} ELSE {today} :
       LET k == <<a, e, d>> IN
       /\ k \in Key
       /\ counter' = [counter EXCEPT ![k] = @ \cup {h}]
       /\ fired' = [fired EXCEPT ![k] = @ \cup {h}]
  /\ UNCHANGED <<today, phase, active, steady, tick, stats, booked, lost, failures>>

(* An ad is archived, or its campaign is completed, paused or over; or the *)
(* reverse.                                                                *)
Toggle(a) ==
  /\ active' = IF a \in active THEN active \ {a} ELSE active \cup {a}
  /\ steady' = steady \cap active'
  /\ UNCHANGED <<today, phase, counter, tick, stats, fired, booked, lost, failures>>

(* A day holds 2880 ticks at the default interval: at least one is clean.  *)
Midnight ==
  /\ phase = "ticked" /\ today < MaxDay
  /\ today' = today + 1
  /\ phase' = "midnight"
  /\ UNCHANGED <<active, steady, counter, tick, stats, fired, booked, lost, failures>>

(* No request is still on its way from the day before.                     *)
Morning ==
  /\ phase = "midnight"
  /\ phase' = "day"
  /\ UNCHANGED <<today, active, steady, counter, tick, stats, fired, booked, lost,
                 failures>>

-----------------------------------------------------------------------------
(***************************************************************************)
(* Drainer.Tick                                                            *)
(***************************************************************************)
datesToDrainOneDay == {today}

datesToDrain == {today, today - 1} \cap Day

(* registry.Load; with no active ad the tick is over.  A failed Load ends  *)
(* the tick and changes nothing.                                           *)
NothingActive(w) ==
  /\ tick[w].pc = "idle"
  /\ active = {}
  /\ phase' = IF phase = "midnight" THEN phase ELSE "ticked"
  /\ UNCHANGED <<today, active, steady, counter, tick, stats, fired, booked, lost,
                 failures>>

Load(w) ==
  /\ tick[w].pc = "idle"
  /\ active # {}
  /\ tick' = [tick EXCEPT ![w].pc = "loaded", ![w].ads = active]
  /\ UNCHANGED <<today, phase, active, steady, counter, stats, fired, booked, lost,
                 failures>>

(* The clock is read after the load: the date is the one of this moment.   *)
Begin(w) ==
  /\ tick[w].pc = "loaded"
  /\ tick' = [tick EXCEPT ![w].pc = "drain", ![w].day = today,
                          ![w].todo = tick[w].ads \X Event \X datesToDrain,
                          ![w].clean = phase # "midnight"]
  /\ UNCHANGED <<today, phase, active, steady, counter, stats, fired, booked, lost,
                 failures>>

GetThenLater(w, k) ==
  /\ tick[w].pc = "drain" /\ k \in tick[w].todo
  /\ tick' = [tick EXCEPT ![w].todo = @ \ {k}, ![w].delta[k] = @ \cup counter[k]]
  /\ UNCHANGED <<today, phase, active, steady, counter, stats, fired, booked, lost,
                 failures>>

(* GETDEL, one key; a missing key is an empty set.                         *)
GetDel(w, k) ==
  /\ tick[w].pc = "drain" /\ k \in tick[w].todo
  /\ counter' = [counter EXCEPT ![k] = {}]
  /\ tick' = [tick EXCEPT ![w].todo = @ \ {k}, ![w].delta[k] = @ \cup counter[k]]
  /\ UNCHANGED <<today, phase, active, steady, stats, fired, booked, lost, failures>>

(* GETDEL fails and the key is skipped.  Redis may have executed it: the   *)
(* reply is lost, or a resend found the key gone.                          *)
GetDelFailed(w, k) ==
  /\ tick[w].pc = "drain" /\ k \in tick[w].todo
  /\ Fail
  /\ \/ UNCHANGED <<counter, lost>>
     \/ /\ counter' = [counter EXCEPT ![k] = {}]
        /\ lost' = [lost EXCEPT ![k] = @ \cup counter[k]]
  /\ tick' = [tick EXCEPT ![w].todo = @ \ {k}, ![w].clean = FALSE]
  /\ UNCHANGED <<today, phase, active, steady, stats, fired, booked>>

Drained(w) ==
  /\ tick[w].pc = "drain" /\ tick[w].todo = {}
  /\ tick' = [tick EXCEPT ![w].pc = "upsert"]
  /\ UNCHANGED <<today, phase, active, steady, counter, stats, fired, booked, lost,
                 failures>>

KeysOf(row) == {<<row[1], e, row[2]>> : e \in Event}

(* anyNonZero                                                              *)
Rows(w) == {row \in Row : \E k \in KeysOf(row) : tick[w].delta[k] # {}}

AddRowSubtracts(w, row) ==
  /\ stats' = [k \in Key |-> IF k \in KeysOf(row)
                               THEN stats[k] - Cardinality(tick[w].delta[k])
                               ELSE stats[k]]
  /\ booked' = [k \in Key |-> IF k \in KeysOf(row)
                                THEN booked[k] \cup tick[w].delta[k] ELSE booked[k]]

(* ON CONFLICT (ad_id, date) DO UPDATE SET x = daily_stats.x + EXCLUDED.x  *)
AddRow(w, row) ==
  /\ stats' = [k \in Key |-> IF k \in KeysOf(row)
                               THEN stats[k] + Cardinality(tick[w].delta[k])
                               ELSE stats[k]]
  /\ booked' = [k \in Key |-> IF k \in KeysOf(row)
                                THEN booked[k] \cup tick[w].delta[k] ELSE booked[k]]

WithoutRow(w, row) ==
  [k \in Key |-> IF k \in KeysOf(row) THEN {} ELSE tick[w].delta[k]]

UpsertRetried(w, row) ==
  /\ tick[w].pc = "upsert" /\ row \in Rows(w)
  /\ AddRow(w, row)
  /\ \/ tick' = [tick EXCEPT ![w].delta = WithoutRow(w, row)] /\ UNCHANGED failures
     \/ Fail /\ UNCHANGED tick
  /\ UNCHANGED <<today, phase, active, steady, counter, fired, lost>>

Upsert(w, row) ==
  /\ tick[w].pc = "upsert" /\ row \in Rows(w)
  /\ AddRow(w, row)
  /\ tick' = [tick EXCEPT ![w].delta = WithoutRow(w, row)]
  /\ UNCHANGED <<today, phase, active, steady, counter, fired, lost, failures>>

(* upsertDeltas returns at the first error: the rows it had not reached    *)
(* are dropped with the tick.  The failed one may have been committed.     *)
UpsertFailed(w, row) ==
  /\ tick[w].pc = "upsert" /\ row \in Rows(w)
  /\ Fail
  /\ \/ /\ UNCHANGED <<stats, booked>>
        /\ lost' = [k \in Key |-> lost[k] \cup tick[w].delta[k]]
     \/ /\ AddRow(w, row)
        /\ lost' = [k \in Key |-> lost[k] \cup WithoutRow(w, row)[k]]
  /\ tick' = [tick EXCEPT ![w] = Idle]
  /\ UNCHANGED <<today, phase, active, steady, counter, fired>>

(* upsertDeltas has returned nil (reconcileBudgets touches no counts).     *)
Finish(w) ==
  /\ tick[w].pc = "upsert" /\ Rows(w) = {}
  /\ phase' = IF tick[w].clean /\ tick[w].day = today THEN "ticked" ELSE phase
  /\ tick' = [tick EXCEPT ![w] = Idle]
  /\ UNCHANGED <<today, active, steady, counter, stats, fired, booked, lost, failures>>

(* The process dies, or tickCtx ends (SIGTERM, 45 s): GETDELs fail, then   *)
(* the upsert does, and what was read is gone.                             *)
CutShort(w) ==
  /\ tick[w].pc # "idle"
  /\ Fail
  /\ lost' = [k \in Key |-> lost[k] \cup tick[w].delta[k]]
  /\ tick' = [tick EXCEPT ![w] = Idle]
  /\ UNCHANGED <<today, phase, active, steady, counter, stats, fired, booked>>

Work(w) ==
  \/ NothingActive(w) \/ Load(w) \/ Begin(w)
  \/ \E k \in Key : GetDel(w, k) \/ GetDelFailed(w, k)
  \/ Drained(w)
  \/ \E row \in Row : Upsert(w, row) \/ UpsertFailed(w, row)
  \/ Finish(w)

Next ==
  \/ \E h \in Hit : Increment(h)
  \/ \E a \in Ad : Toggle(a)
  \/ Midnight \/ Morning
  \/ \E w \in Worker : Work(w) \/ CutShort(w)

Spec == Init /\ [][Next]_vars

-----------------------------------------------------------------------------
(***************************************************************************)
(* A hit is in one place: in Redis, in one worker's memory, in daily_stats *)
(* or lost; and a column is the number of hits it stands for.              *)
(***************************************************************************)
InMemory(k) == UNION {tick[w].delta[k] : w \in Worker}

(* GETDEL, the "keystone" of docs/architecture.md: no hit is in two        *)
(* places, so none is ever counted twice, with overlapping ticks, resends  *)
(* and crashes; and none disappears except where `lost` says.              *)
Accounted ==
  \A k \in Key :
    /\ fired[k] = counter[k] \cup InMemory(k) \cup booked[k] \cup lost[k]
    /\ counter[k] \cap (InMemory(k) \cup booked[k] \cup lost[k]) = {}
    /\ booked[k] \cap (InMemory(k) \cup lost[k]) = {}
    /\ lost[k] \cap InMemory(k) = {}
    /\ \A v, w \in Worker : v # w => tick[v].delta[k] \cap tick[w].delta[k] = {}
    /\ stats[k] = Cardinality(booked[k])

(* What a report shows is never more than what /track recorded under that  *)
(* ad, event and day.                                                      *)
NeverOvercounted == \A k \in Key : stats[k] <= Cardinality(fired[k])

(* datesToDrain looks back one day only: enough for an ad that stays       *)
(* active, as long as every day has one clean tick.                        *)
SteadyDrained ==
  \A k \in Key : (k[1] \in steady /\ k[3] < today - 1) => counter[k] = {}

(* daily_stats implements the ledger it is read as.                        *)
LedgerView == INSTANCE Ledger WITH total <- stats, Size <- Cardinality
ImplementsLedger == LedgerView!Spec

(* docs/architecture.md: "older days have already been drained".           *)
OldDaysDrained == \A k \in Key : k[3] < today - 1 => counter[k] = {}

=============================================================================
