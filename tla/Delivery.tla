------------------------------ MODULE Delivery ------------------------------
(***************************************************************************)
(* The /vast hot path (delivery/handler.go) and the two Redis scripts it   *)
(* gates every candidate with (capping/budget.go, capping/frequency.go).   *)
(*                                                                         *)
(* Every HTTP request is a goroutine that reads the registry snapshot      *)
(* once, then alternates between choosing a candidate in memory and asking *)
(* Redis for a frequency slot and a budget slot, and finally resolves the  *)
(* media URL and builds the response.  Requests interleave between those   *)
(* steps, with reloads of the snapshot and with each other; the two Lua    *)
(* scripts are the only atomic blocks.  Requests of several adserver       *)
(* replicas differ only in the snapshot they hold, so one `registry` that  *)
(* may move to any snapshot covers them.                                   *)
(*                                                                         *)
(* A snapshot is what one load made of Postgres: the ads it holds, their   *)
(* priority, their frequency cap, their campaign's total budget (0 means   *)
(* no cap in both cases).                                                  *)
(***************************************************************************)
EXTENDS Integers, FiniteSets

CONSTANTS
  Request,      (* every /vast request the model may receive             *)
  User,         (* oas_uid values                                        *)
  Ad, Campaign,
  CampaignOf,   (* [Ad -> Campaign], ads.campaign_id                     *)
  Snapshots,    (* the snapshots a load may produce                      *)
  Targets,      (* the sets of ads a request's pos/country/device match  *)
  MaxAttempts,  (* maxBudgetRetries                                      *)
  MaxResends,   (* how often the Redis client resends one lost command   *)
  NoAd

Snapshot == [ads      : SUBSET Ad,
             priority : [Ad -> Int],
             freqCap  : [Ad -> Nat],
             budget   : [Campaign -> Nat]]

ASSUME DeliveryAssumption ==
  /\ IsFiniteSet(Request)
  /\ CampaignOf \in [Ad -> Campaign]
  /\ Snapshots \subseteq Snapshot
  /\ \A s \in Snapshots : IsFiniteSet(s.ads)   (* the rows of one query   *)
  /\ Targets \subseteq SUBSET Ad
  /\ MaxAttempts \in Nat
  /\ MaxResends \in Nat
  /\ NoAd \notin Ad

VARIABLES
  registry,     (* the snapshot the next request will read               *)
  published,    (* every snapshot stored so far (history)                *)
  req,          (* [Request -> handler goroutine]                        *)
  impsTotal,    (* Redis campaign:<id>:imps_total, 0 when unset          *)
  userCount,    (* Redis user:<uid>:ad:<id>:count, 0 when unset          *)
  slots         (* the requests given a slot of the current window of    *)
                (* (user, ad) (history)                                  *)

vars == <<registry, published, req, impsTotal, userCount, slots>>

(***************************************************************************)
(* A handler goroutine.  `faulty` records that a dependency failed it.     *)
(***************************************************************************)
Waiting == {"idle"}
Working == {"select", "freq", "budget", "serve"}
Done    == {"inline", "empty", "gone"}

Goroutine ==
  [pc       : Waiting \cup Working \cup Done,
   user     : User,
   snap     : Snapshots,
   match    : SUBSET Ad,
   direct   : BOOLEAN,
   excluded : SUBSET Ad,
   attempts : Nat,
   cand     : Ad \cup {NoAd},
   resends  : Nat,
   faulty   : BOOLEAN]

TypeOK ==
  /\ registry \in Snapshots
  /\ published \in SUBSET Snapshots
  /\ req \in [Request -> Goroutine]
  /\ impsTotal \in [Campaign -> Nat]
  /\ userCount \in [User -> [Ad -> Nat]]
  /\ slots \in [User -> [Ad -> SUBSET Request]]

Init ==
  /\ registry \in Snapshots
  /\ published = {registry}
  /\ \E u \in User :
       req = [r \in Request |->
                [pc |-> "idle", user |-> u, snap |-> registry, match |-> {},
                 direct |-> FALSE, excluded |-> {}, attempts |-> 0,
                 cand |-> NoAd, resends |-> 0, faulty |-> FALSE]]
  /\ impsTotal = [c \in Campaign |-> 0]
  /\ userCount = [u \in User |-> [a \in Ad |-> 0]]
  /\ slots     = [u \in User |-> [a \in Ad |-> {}]]

-----------------------------------------------------------------------------
(***************************************************************************)
(* The Lua scripts: the counter they leave behind and what they reply.     *)
(***************************************************************************)
Rejected == -1

(* Faulty variants, each used only to show that a property notices it.     *)
BudgetScriptOffByOne(n, cap) ==
  IF cap > 0 /\ n > cap THEN [count |-> n, reply |-> Rejected]
                        ELSE [count |-> n + 1, reply |-> n + 1]

BudgetScriptNoRollback(n, cap) ==
  IF cap > 0 /\ n + 1 > cap THEN [count |-> n + 1, reply |-> Rejected]
                            ELSE [count |-> n + 1, reply |-> n + 1]

BudgetScript(n, cap) ==
  IF cap > 0 /\ n + 1 > cap THEN [count |-> n, reply |-> Rejected]
                            ELSE [count |-> n + 1, reply |-> n + 1]

FreqScriptOffByOne(n, cap) ==
  IF cap > 0 /\ n > cap THEN [count |-> n, reply |-> Rejected]
                        ELSE [count |-> n + 1, reply |-> n + 1]

FreqScript(n, cap) ==
  IF cap > 0 /\ n + 1 > cap THEN [count |-> n, reply |-> Rejected]
                            ELSE [count |-> n + 1, reply |-> n + 1]

CampaignIn(r) == CampaignOf[req[r].cand]
BudgetOf(r)   == req[r].snap.budget[CampaignIn(r)]
FreqCapOf(r)  == req[r].snap.freqCap[req[r].cand]
CountFor(r)   == userCount[req[r].user][req[r].cand]

TryReserve(r) == BudgetScript(impsTotal[CampaignIn(r)], BudgetOf(r))
TryConsume(r) == FreqScript(CountFor(r), FreqCapOf(r))

RunBudgetScript(r) ==
  impsTotal' = [impsTotal EXCEPT ![CampaignIn(r)] = TryReserve(r).count]

RunFreqScript(r) ==
  userCount' = [userCount EXCEPT ![req[r].user][req[r].cand] = TryConsume(r).count]

(***************************************************************************)
(* selection.Select as the loop sees it: some ad of the best priority      *)
(* among those that match and are not excluded, none when there is none.   *)
(***************************************************************************)
Candidates(g) == (g.snap.ads \cap g.match) \ g.excluded
SelectAnyPriority(g) == Candidates(g)
Select(g) == {a \in Candidates(g) :
                \A b \in Candidates(g) : g.snap.priority[b] <= g.snap.priority[a]}

-----------------------------------------------------------------------------
(***************************************************************************)
(* What a step does to its goroutine.  A refusal is addExcluded and the    *)
(* next iteration; the ?ad_id= path has none.                              *)
(***************************************************************************)
Goto(g, p) == [g EXCEPT !.pc = p, !.resends = 0]
Read(g, u) == [g EXCEPT !.user = u, !.snap = registry]
Failed(g)  == [g EXCEPT !.faulty = TRUE]
Resent(g)  == [g EXCEPT !.resends = @ + 1]
Chosen(g, a) == [g EXCEPT !.pc = "freq", !.cand = a]

RefusedEndsLoop(g)  == Goto(g, "empty")
Refused(g) ==
  IF g.direct THEN Goto(g, "empty")
              ELSE [Goto(g, "select") EXCEPT !.excluded = @ \cup {g.cand},
                                             !.attempts = @ + 1]

-----------------------------------------------------------------------------
(* A request arrives and reads the snapshot pointer, once.                 *)
Arrive(r) ==
  /\ req[r].pc = "idle"
  /\ \E u \in User, m \in Targets :
       req' = [req EXCEPT ![r] = [Goto(Read(@, u), "select") EXCEPT !.match = m]]
  /\ UNCHANGED <<registry, published, impsTotal, userCount, slots>>

(* ?ad_id= names an ad of the snapshot: selection is bypassed ...          *)
ArriveDirect(r) ==
  /\ req[r].pc = "idle"
  /\ \E u \in User, a \in registry.ads :
       req' = [req EXCEPT ![r] = [Chosen(Read(@, u), a) EXCEPT !.direct = TRUE]]
  /\ UNCHANGED <<registry, published, impsTotal, userCount, slots>>

(* ... or an ad the snapshot does not hold: no-fill.                       *)
ArriveUnknown(r) ==
  /\ req[r].pc = "idle"
  /\ \E u \in User :
       req' = [req EXCEPT ![r] = [Goto(Read(@, u), "empty") EXCEPT !.direct = TRUE]]
  /\ UNCHANGED <<registry, published, impsTotal, userCount, slots>>

SelectCandidate(r) ==
  /\ req[r].pc = "select"
  /\ req[r].attempts < MaxAttempts
  /\ \E a \in Select(req[r]) : req' = [req EXCEPT ![r] = Chosen(@, a)]
  /\ UNCHANGED <<registry, published, impsTotal, userCount, slots>>

NoCandidate(r) ==
  /\ req[r].pc = "select"
  /\ req[r].attempts >= MaxAttempts \/ Select(req[r]) = {}
  /\ req' = [req EXCEPT ![r] = Goto(@, "empty")]
  /\ UNCHANGED <<registry, published, impsTotal, userCount, slots>>

-----------------------------------------------------------------------------
(* checkFreq                                                               *)
FreqUncapped(r) ==
  /\ req[r].pc = "freq"
  /\ FreqCapOf(r) <= 0
  /\ req' = [req EXCEPT ![r] = Goto(@, "budget")]
  /\ UNCHANGED <<registry, published, impsTotal, userCount, slots>>

FreqGranted(r) ==
  /\ req[r].pc = "freq"
  /\ FreqCapOf(r) > 0
  /\ TryConsume(r).reply # Rejected
  /\ RunFreqScript(r)
  /\ slots' = [slots EXCEPT ![req[r].user][req[r].cand] = @ \cup {r}]
  /\ req' = [req EXCEPT ![r] = Goto(@, "budget")]
  /\ UNCHANGED <<registry, published, impsTotal>>

FreqRejected(r) ==
  /\ req[r].pc = "freq"
  /\ FreqCapOf(r) > 0
  /\ TryConsume(r).reply = Rejected
  /\ RunFreqScript(r)
  /\ req' = [req EXCEPT ![r] = Refused(@)]
  /\ UNCHANGED <<registry, published, impsTotal, slots>>

(* Any other error lets the candidate through; the script may have run.    *)
FreqError(r) ==
  /\ req[r].pc = "freq"
  /\ FreqCapOf(r) > 0
  /\ RunFreqScript(r) \/ UNCHANGED userCount
  /\ req' = [req EXCEPT ![r] = Goto(Failed(@), "budget")]
  /\ UNCHANGED <<registry, published, impsTotal, slots>>

(* The reply is lost and the Redis client sends the script again.          *)
FreqResent(r) ==
  /\ req[r].pc = "freq"
  /\ FreqCapOf(r) > 0
  /\ req[r].resends < MaxResends
  /\ RunFreqScript(r)
  /\ req' = [req EXCEPT ![r] = Resent(Failed(@))]
  /\ UNCHANGED <<registry, published, impsTotal, slots>>

-----------------------------------------------------------------------------
(* TryReserve, in the loop and in checkBudget                              *)
BudgetReserved(r) ==
  /\ req[r].pc = "budget"
  /\ TryReserve(r).reply # Rejected
  /\ RunBudgetScript(r)
  /\ req' = [req EXCEPT ![r] = Goto(@, "serve")]
  /\ UNCHANGED <<registry, published, userCount, slots>>

BudgetExhausted(r) ==
  /\ req[r].pc = "budget"
  /\ TryReserve(r).reply = Rejected
  /\ RunBudgetScript(r)
  /\ req' = [req EXCEPT ![r] = Refused(@)]
  /\ UNCHANGED <<registry, published, userCount, slots>>

(* Any other error is a no-fill, on both paths; the script may have run.   *)
BudgetError(r) ==
  /\ req[r].pc = "budget"
  /\ RunBudgetScript(r) \/ UNCHANGED impsTotal
  /\ req' = [req EXCEPT ![r] = Goto(Failed(@), "empty")]
  /\ UNCHANGED <<registry, published, userCount, slots>>

BudgetResent(r) ==
  /\ req[r].pc = "budget"
  /\ req[r].resends < MaxResends
  /\ RunBudgetScript(r)
  /\ req' = [req EXCEPT ![r] = Resent(Failed(@))]
  /\ UNCHANGED <<registry, published, userCount, slots>>

-----------------------------------------------------------------------------
(* serveAd: resolve the media URL, build the inline response ...           *)
ServeInline(r) ==
  /\ req[r].pc = "serve"
  /\ req' = [req EXCEPT ![r] = Goto(@, "inline")]
  /\ UNCHANGED <<registry, published, impsTotal, userCount, slots>>

ServeFailsRefunds(r) ==
  /\ req[r].pc = "serve"
  /\ req' = [req EXCEPT ![r] = [Goto(@, "empty") EXCEPT !.faulty = TRUE]]
  /\ userCount' = [userCount EXCEPT ![req[r].user][req[r].cand] = @ - 1]
  /\ UNCHANGED <<registry, published, impsTotal, slots>>

(* ... or fail at either, after both slots were taken.                     *)
ServeFails(r) ==
  /\ req[r].pc = "serve"
  /\ req' = [req EXCEPT ![r] = [Goto(@, "empty") EXCEPT !.faulty = TRUE]]
  /\ UNCHANGED <<registry, published, impsTotal, userCount, slots>>

(* The process dies with the request in it.                                *)
Crash(r) ==
  /\ req[r].pc \in Working
  /\ req' = [req EXCEPT ![r] = Goto(@, "gone")]
  /\ UNCHANGED <<registry, published, impsTotal, userCount, slots>>

(* The refresher stores another snapshot.                                  *)
StoreSnapshot(s) ==
  /\ s # registry
  /\ registry' = s
  /\ published' = published \cup {s}
  /\ UNCHANGED <<req, impsTotal, userCount, slots>>

(* EXPIRE fires: the window of (user, ad) is over.                         *)
WindowExpires(u, a) ==
  /\ userCount[u][a] > 0
  /\ userCount' = [userCount EXCEPT ![u][a] = 0]
  /\ slots' = [slots EXCEPT ![u][a] = {}]
  /\ UNCHANGED <<registry, published, req, impsTotal>>

Handle(r) ==
  \/ SelectCandidate(r) \/ NoCandidate(r)
  \/ FreqUncapped(r) \/ FreqGranted(r) \/ FreqRejected(r)
  \/ FreqError(r) \/ FreqResent(r)
  \/ BudgetReserved(r) \/ BudgetExhausted(r) \/ BudgetError(r) \/ BudgetResent(r)
  \/ ServeInline(r) \/ ServeFails(r)

Next ==
  \/ \E r \in Request : Arrive(r) \/ ArriveDirect(r) \/ ArriveUnknown(r)
                        \/ Handle(r) \/ Crash(r)
  \/ \E s \in Snapshots : StoreSnapshot(s)
  \/ \E u \in User, a \in Ad : WindowExpires(u, a)

Spec == Init /\ [][Next]_vars

-----------------------------------------------------------------------------
(* The requests holding a budget slot they may turn, or turned, into an    *)
(* inline response of campaign c.                                          *)
Holders(c) == {r \in Request : req[r].pc \in {"serve", "inline"} /\ CampaignIn(r) = c}
Inline(c)  == {r \in Request : req[r].pc = "inline" /\ CampaignIn(r) = c}

(* The budget counter never passes the largest cap a published snapshot    *)
(* gave the campaign, whatever snapshots concurrent requests still hold,   *)
(* unless some snapshot lifted the cap: the INCR / DECR pair of            *)
(* budgetScript leaves no overshoot behind.                                *)
BudgetCeiling ==
  \A c \in Campaign : \/ impsTotal[c] = 0
                      \/ \E s \in published : \/ s.budget[c] = 0
                                               \/ impsTotal[c] <= s.budget[c]

(* Every response that is served, or is being built, was counted: a lost   *)
(* reply, a resend, a fail-open frequency check or a crash between the     *)
(* reservation and the response can only leave imps_total too high.        *)
ResponsesReserved == \A c \in Campaign : Cardinality(Holders(c)) <= impsTotal[c]

(* What both are for: with any number of concurrent requests, stale        *)
(* snapshots, failures and crashes, /vast shows a campaign as Allowance    *)
(* says, never more often than a budget it was given (handler.go,          *)
(* TryReserve before serveAd).                                             *)
Abstract == INSTANCE Allowance
  WITH offered <- [c \in Campaign |-> {s.budget[c] : s \in published}],
       served  <- [c \in Campaign |-> Cardinality(Inline(c))]

ImplementsAllowance == Abstract!Spec

(* Within one window a user is granted at most max_impressions slots of an *)
(* ad, the largest any published cap rule allowed, although the counter is *)
(* shared by concurrent requests and reset by its EXPIRE under them.       *)
FreqCapHeld ==
  \A u \in User, a \in Ad :
    /\ Cardinality(slots[u][a]) <= userCount[u][a]
    /\ userCount[u][a] > 0 => \E s \in published : userCount[u][a] <= s.freqCap[a]

(* A selected ad is not one this request was refused, and every matching   *)
(* ad of a higher priority was: retrying never skips a better candidate.   *)
PriorityHeld ==
  \A r \in Request :
    LET g == req[r] IN
    (g.pc \in {"serve", "inline"} /\ ~g.direct) =>
       /\ g.cand \notin g.excluded
       /\ \A b \in g.snap.ads \cap g.match :
            g.snap.priority[b] > g.snap.priority[g.cand] => b \in g.excluded

(* With no dependency failing, the loop gives up only after Redis refused  *)
(* every matching ad or maxBudgetRetries different ones.                   *)
NoFillJustified ==
  \A r \in Request :
    LET g == req[r] IN
    (g.pc = "empty" /\ ~g.direct /\ ~g.faulty) =>
       \/ g.snap.ads \cap g.match \subseteq g.excluded
       \/ Cardinality(g.excluded) = MaxAttempts

=============================================================================
