------------------------------ MODULE Registry ------------------------------
(***************************************************************************)
(* The life of an adserver: the boot that waits for Postgres, Redis and a  *)
(* first snapshot, the shutdown that waits for the requests in flight      *)
(* (cmd/adserver/main.go, db/pool.go), and the Refresher goroutine         *)
(* (registry/refresher.go) on which both wait.                             *)
(*                                                                         *)
(* What loadQuery would return is a version, the number of commits so far; *)
(* a snapshot is the version it was loaded from.                           *)
(***************************************************************************)
EXTENDS Integers

CONSTANTS
  MaxCommits,    (* bound: changes of what loadQuery returns             *)
  MaxFailures,   (* bound: loads that fail                               *)
  MaxMessages,   (* the channel's buffer: what does not fit is dropped   *)
  MaxOpen,       (* bound: requests in flight                            *)
  Attempts       (* the pings PingWithRetry is allowed                   *)

ASSUME RegistryAssumption ==
  /\ MaxCommits \in Nat /\ MaxFailures \in Nat /\ MaxMessages \in Nat
  /\ MaxOpen \in Nat /\ Attempts \in Nat \ {0}

NoSnapshot == -1
Version == 0..MaxCommits

VARIABLES
  db,          (* the version Postgres holds                             *)
  snapshot,    (* Refresher.snapshot                                     *)
  ready,       (* Refresher.ready is closed                              *)
  run,         (* where Run is                                           *)
  loaded,      (* the snapshot Load built, before it is stored           *)
  ticked,      (* a tick waits in ticker.C, which holds one              *)
  subscribed,  (* msgs is open                                           *)
  msgs,        (* invalidations waiting in it                            *)
  main,        (* where main is                                          *)
  pings,       (* pings of Postgres that failed                          *)
  open,        (* requests in flight                                     *)
  late,        (* Shutdown gave up waiting for them (history)            *)
  stop,        (* ctx is cancelled (SIGTERM)                             *)
  failures

refresher == <<snapshot, ready, run, loaded>>
channels  == <<ticked, subscribed, msgs>>
process   == <<main, pings, open, late>>
vars == <<db, refresher, channels, process, stop, failures>>

Booting == {"postgres", "redis", "waiting"}
Running == {"listening", "draining", "stopping"}

TypeOK ==
  /\ db \in Version
  /\ snapshot \in Version \cup {NoSnapshot}
  /\ ready \in BOOLEAN
  /\ run \in {"unstarted", "query", "store", "close", "subscribe", "select", "returned"}
  /\ loaded \in Version \cup {NoSnapshot}
  /\ ticked \in BOOLEAN /\ subscribed \in BOOLEAN
  /\ msgs \in 0..MaxMessages
  /\ main \in Booting \cup Running \cup {"exited"}
  /\ pings \in 0..Attempts /\ (main = "postgres" => pings < Attempts)
  /\ open \in 0..MaxOpen
  /\ late \in BOOLEAN /\ stop \in BOOLEAN
  /\ failures \in Nat

Init ==
  /\ db = 0
  /\ snapshot = NoSnapshot /\ loaded = NoSnapshot
  /\ ready = FALSE /\ run = "unstarted"
  /\ ticked = FALSE /\ subscribed = FALSE /\ msgs = 0
  /\ main = "postgres" /\ pings = 0 /\ open = 0 /\ late = FALSE
  /\ stop = FALSE /\ failures = 0

-----------------------------------------------------------------------------
(* A commit changes what is active, or a campaign enters or leaves its     *)
(* dates.                                                                  *)
Commit ==
  /\ db < MaxCommits
  /\ db' = db + 1
  /\ UNCHANGED <<refresher, channels, process, stop, failures>>

Terminate ==
  /\ ~stop
  /\ stop' = TRUE
  /\ UNCHANGED <<db, refresher, channels, process, failures>>

NotifyOverflows ==
  /\ subscribed /\ msgs <= MaxMessages
  /\ msgs' = msgs + 1
  /\ UNCHANGED <<db, refresher, ticked, subscribed, process, stop, failures>>

(* A PUBLISH that reaches this subscriber.  Pub/sub keeps nothing: one     *)
(* that does not is no step.                                               *)
Notify ==
  /\ subscribed /\ msgs < MaxMessages
  /\ msgs' = msgs + 1
  /\ UNCHANGED <<db, refresher, ticked, subscribed, process, stop, failures>>

(* The ticker is created after the first reload.                           *)
TickerFires ==
  /\ run # "returned" /\ ready
  /\ ticked' = TRUE
  /\ UNCHANGED <<db, refresher, subscribed, msgs, process, stop, failures>>

-----------------------------------------------------------------------------
(* The definitions named for a fault are not part of the specification:    *)
(* they show that the properties notice it.                                *)

(* Load's query runs on one version of the database.                       *)
Query ==
  /\ run = "query" /\ ~stop
  /\ loaded' = db
  /\ run' = "store"
  /\ UNCHANGED <<db, snapshot, ready, channels, process, stop, failures>>

FailAlwaysReturns ==
  /\ run = "query"
  /\ stop \/ failures < MaxFailures
  /\ failures' = IF stop THEN failures ELSE failures + 1
  /\ run' = "returned"
  /\ UNCHANGED <<db, snapshot, ready, loaded, channels, process, stop>>

FailStoresNil ==
  /\ run = "query"
  /\ stop \/ failures < MaxFailures
  /\ failures' = IF stop THEN failures ELSE failures + 1
  /\ run' = IF ready THEN "select" ELSE "returned"
  /\ snapshot' = NoSnapshot
  /\ UNCHANGED <<db, ready, loaded, channels, process, stop>>

(* Load fails, as it does once ctx is cancelled: Run returns if it was the *)
(* first, and keeps the previous snapshot if not.                          *)
Fail ==
  /\ run = "query"
  /\ stop \/ failures < MaxFailures
  /\ failures' = IF stop THEN failures ELSE failures + 1
  /\ run' = IF ready THEN "select" ELSE "returned"
  /\ UNCHANGED <<db, snapshot, ready, loaded, channels, process, stop>>

Store ==
  /\ run = "store"
  /\ snapshot' = loaded
  /\ run' = "close"
  /\ UNCHANGED <<db, ready, loaded, channels, process, stop, failures>>

(* readyOnce: the channel is closed by the first reload only.              *)
CloseReady ==
  /\ run = "close"
  /\ ready' = TRUE
  /\ run' = IF ready THEN "select" ELSE "subscribe"
  /\ UNCHANGED <<db, snapshot, loaded, channels, process, stop, failures>>

(* There is nothing to subscribe to without Redis.                         *)
Subscribe ==
  /\ run = "subscribe"
  /\ subscribed' \in BOOLEAN
  /\ run' = "select"
  /\ UNCHANGED <<db, snapshot, ready, loaded, ticked, msgs, process, stop, failures>>

OnTick ==
  /\ run = "select" /\ ticked
  /\ ticked' = FALSE
  /\ run' = "query"
  /\ UNCHANGED <<db, snapshot, ready, loaded, subscribed, msgs, process, stop, failures>>

OnMessage ==
  /\ run = "select" /\ msgs > 0
  /\ msgs' = msgs - 1
  /\ run' = "query"
  /\ UNCHANGED <<db, snapshot, ready, loaded, ticked, subscribed, process, stop, failures>>

(* The channel was closed: msgs is set to nil and never selected again.    *)
OnClosed ==
  /\ run = "select" /\ subscribed /\ msgs = 0
  /\ subscribed' = FALSE
  /\ UNCHANGED <<db, refresher, ticked, msgs, process, stop, failures>>

OnStopContinues ==
  /\ run = "select" /\ stop
  /\ run' = "query"
  /\ UNCHANGED <<db, snapshot, ready, loaded, channels, process, stop, failures>>

OnStop ==
  /\ run = "select" /\ stop
  /\ run' = "returned"
  /\ UNCHANGED <<db, snapshot, ready, loaded, channels, process, stop, failures>>

-----------------------------------------------------------------------------
(* PingWithRetry: an answer ...                                            *)
Ping ==
  /\ main = "postgres"
  /\ main' = "redis"
  /\ UNCHANGED <<db, refresher, channels, pings, open, late, stop, failures>>

(* ... or none: wait and try again, unless ctx is cancelled meanwhile or   *)
(* this was the last attempt, which is fatal.                              *)
PingFails ==
  /\ main = "postgres"
  /\ pings' = pings + 1
  /\ \/ pings' < Attempts /\ UNCHANGED main
     \/ (pings' = Attempts \/ stop) /\ main' = "exited"
  /\ UNCHANGED <<db, refresher, channels, open, late, stop, failures>>

(* Redis answers and takes the scripts, or is not configured: the          *)
(* Refresher is started ...                                                *)
StartRefresher ==
  /\ main = "redis"
  /\ main' = "waiting" /\ run' = "query"
  /\ UNCHANGED <<db, snapshot, ready, loaded, channels, pings, open, late, stop, failures>>

(* ... or it does not, or the port is taken once there is a snapshot.      *)
Fatal ==
  /\ main = "redis" \/ (main = "waiting" /\ ready)
  /\ main' = "exited"
  /\ UNCHANGED <<db, refresher, channels, pings, open, late, stop, failures>>

(* WaitReady returns nil, and the listener opens ...                       *)
Listen ==
  /\ main = "waiting" /\ ready
  /\ main' = "listening"
  /\ UNCHANGED <<db, refresher, channels, pings, open, late, stop, failures>>

(* ... or ctx.Err, which is fatal.                                         *)
GiveUp ==
  /\ main = "waiting" /\ stop
  /\ main' = "exited"
  /\ UNCHANGED <<db, refresher, channels, pings, open, late, stop, failures>>

Accept ==
  /\ main = "listening" /\ open < MaxOpen
  /\ open' = open + 1
  /\ UNCHANGED <<db, refresher, channels, main, pings, late, stop, failures>>

Answer ==
  /\ open > 0
  /\ open' = open - 1
  /\ UNCHANGED <<db, refresher, channels, main, pings, late, stop, failures>>

(* Shutdown closes the listener, and ListenAndServe returns at once.       *)
Shutdown ==
  /\ main = "listening" /\ stop
  /\ main' = "draining"
  /\ UNCHANGED <<db, refresher, channels, pings, open, late, stop, failures>>

DrainedAtOnce ==
  /\ main = "draining"
  /\ main' = "stopping" /\ UNCHANGED late
  /\ UNCHANGED <<db, refresher, channels, pings, open, stop, failures>>

(* idleConnsClosed: the requests were answered, or ten seconds are over.   *)
Drained ==
  /\ main = "draining"
  /\ (open = 0 /\ UNCHANGED late) \/ late' = TRUE
  /\ main' = "stopping"
  /\ UNCHANGED <<db, refresher, channels, pings, open, stop, failures>>

(* refresherDone.                                                          *)
Exit ==
  /\ main = "stopping" /\ run = "returned"
  /\ main' = "exited"
  /\ UNCHANGED <<db, refresher, channels, pings, open, late, stop, failures>>

Reload == Query \/ Fail \/ Store \/ CloseReady
Loop   == Subscribe \/ OnTick \/ OnMessage \/ OnStop
Boot   == Ping \/ PingFails \/ StartRefresher \/ Listen \/ GiveUp
Stop   == Shutdown \/ Drained \/ Exit

(* A process that exited takes no more steps.                              *)
Next ==
  /\ main # "exited"
  /\ \/ Commit \/ Notify \/ TickerFires \/ Terminate
     \/ Reload \/ Loop \/ OnClosed
     \/ Boot \/ Fatal \/ Accept \/ Answer \/ Stop

(* Goroutines that can run do, a load returns or fails, a ping answers or  *)
(* times out, the ticker ticks, and select, which draws among the ready    *)
(* cases, does not avoid ctx.Done for ever.  Nothing is owed to a          *)
(* subscriber or a client, and nobody has to stop the process.             *)
Fairness ==
  /\ WF_vars(main # "exited" /\ Reload)
  /\ WF_vars(main # "exited" /\ Loop)
  /\ SF_vars(main # "exited" /\ OnStop)
  /\ WF_vars(main # "exited" /\ TickerFires)
  /\ WF_vars(Boot)
  /\ WF_vars(Stop)

Spec == Init /\ [][Next]_vars /\ Fairness

-----------------------------------------------------------------------------
(* A request the listener accepted finds a snapshot ("should be impossible *)
(* because the listener doesn't open until WaitReady fires"), and is       *)
(* answered before the process ends, although ListenAndServe returns as    *)
(* soon as SIGTERM comes, unless it takes longer than Shutdown waits.      *)
AcceptedAreAnswered ==
  /\ open > 0 => snapshot # NoSnapshot
  /\ (main = "exited" /\ ~late) => open = 0

(* A reader never sees an older version than one it saw before, nor loses  *)
(* the snapshot to a failed reload, whatever commits between the query and *)
(* the swap of the pointer.                                                *)
NeverRollsBack == [][snapshot' >= snapshot]_vars

(* With messages lost, the subscription closed and loads failing, every    *)
(* committed version is served in the end, or a later one: the ticker is   *)
(* enough.                                                                 *)
CatchesUp ==
  \A v \in Version :
    (db >= v /\ main = "listening") ~> (snapshot >= v \/ stop)

(* SIGTERM ends the process wherever the boot is, and although main waits  *)
(* for the requests in flight and for the refresher, which may be in the   *)
(* middle of a reload.                                                     *)
StopsCleanly == stop ~> main = "exited"

(* The comment on Reload: the boot sequence surfaces the first error; so   *)
(* the boot ends, one way or the other.                                    *)
BootDecides == main \in Booting ~> main \notin Booting

=============================================================================
