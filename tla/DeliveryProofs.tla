--------------------------- MODULE DeliveryProofs ---------------------------
(***************************************************************************)
(* What the budget and frequency scripts guarantee, and what the retry     *)
(* loop makes of their refusals, for any number of concurrent requests,    *)
(* snapshots, campaigns, ads and users.  The last part puts the browsers   *)
(* around the handler: they only choose which requests arrive, so all of   *)
(* it holds with any number of them, and what a person gets is bounded by  *)
(* the identities it was given.                                            *)
(***************************************************************************)
EXTENDS Viewer, FiniteSetTheorems, TLAPS

(* A goroutine that is past the snapshot read holds a published snapshot,  *)
(* and one that is past selection holds a candidate.                       *)
Held ==
  /\ registry \in published
  /\ \A r \in Request :
       /\ req[r].pc # "idle" => req[r].snap \in published
       /\ req[r].pc \in {"freq", "budget", "serve", "inline"} => req[r].cand \in Ad

(***************************************************************************)
(* The updates of a goroutine: they keep its type, and the fields the      *)
(* invariants look at change as stated.                                    *)
(***************************************************************************)
LEMMA GotoUpdate ==
  ASSUME NEW g \in Goroutine, NEW p \in Working \cup Done
  PROVE  /\ Goto(g, p) \in Goroutine
         /\ Goto(g, p).pc = p
         /\ Goto(g, p).cand = g.cand
         /\ Goto(g, p).snap = g.snap
BY DEF Goto, Goroutine

LEMMA ReadUpdate ==
  ASSUME NEW g \in Goroutine, NEW u \in User, registry \in Snapshots
  PROVE  /\ Read(g, u) \in Goroutine
         /\ Read(g, u).snap = registry
         /\ Read(g, u).cand = g.cand
BY DEF Read, Goroutine

LEMMA FailedUpdate ==
  ASSUME NEW g \in Goroutine
  PROVE  /\ Failed(g) \in Goroutine
         /\ Failed(g).pc = g.pc
         /\ Failed(g).cand = g.cand
         /\ Failed(g).snap = g.snap
BY DEF Failed, Goroutine

LEMMA ResentUpdate ==
  ASSUME NEW g \in Goroutine
  PROVE  /\ Resent(g) \in Goroutine
         /\ Resent(g).pc = g.pc
         /\ Resent(g).cand = g.cand
         /\ Resent(g).snap = g.snap
BY DEF Resent, Goroutine

LEMMA ChosenUpdate ==
  ASSUME NEW g \in Goroutine, NEW a \in Ad
  PROVE  /\ Chosen(g, a) \in Goroutine
         /\ Chosen(g, a).pc = "freq"
         /\ Chosen(g, a).cand = a
         /\ Chosen(g, a).snap = g.snap
BY DEF Chosen, Goroutine, Waiting, Working, Done

LEMMA RefusedUpdate ==
  ASSUME NEW g \in Goroutine, g.cand \in Ad
  PROVE  /\ Refused(g) \in Goroutine
         /\ Refused(g).pc \in {"select", "empty"}
         /\ Refused(g).snap = g.snap
<1> DEFINE h == Goto(g, "select")
<1>1. h \in Goroutine /\ h.pc = "select" /\ h.snap = g.snap
  BY GotoUpdate DEF Working
<1>2. Goto(g, "empty") \in Goroutine /\ Goto(g, "empty").pc = "empty"
      /\ Goto(g, "empty").snap = g.snap
  BY GotoUpdate DEF Done
<1> HIDE DEF h
<1>3. [h EXCEPT !.excluded = @ \cup {g.cand}, !.attempts = @ + 1] \in Goroutine
  <2> DEFINE x == h.excluded \cup {g.cand}
             n == h.attempts + 1
  <2>1. x \in SUBSET Ad /\ n \in Nat
    BY <1>1 DEF Goroutine
  <2> HIDE DEF x, n
  <2>2. [h EXCEPT !.excluded = x, !.attempts = n] \in Goroutine
    BY <1>1, <2>1 DEF Goroutine
  <2> QED BY <2>2 DEF x, n
<1>4. /\ [h EXCEPT !.excluded = @ \cup {g.cand}, !.attempts = @ + 1].pc = "select"
      /\ [h EXCEPT !.excluded = @ \cup {g.cand}, !.attempts = @ + 1].snap = g.snap
  BY <1>1 DEF Goroutine
<1> USE DEF h
<1> QED BY <1>2, <1>3, <1>4 DEF Refused

LEMMA FaultyUpdate ==
  ASSUME NEW g \in Goroutine, NEW m \in SUBSET Ad
  PROVE  /\ [g EXCEPT !.faulty = TRUE] \in Goroutine
         /\ [g EXCEPT !.faulty = TRUE].pc = g.pc
         /\ [g EXCEPT !.faulty = TRUE].snap = g.snap
         /\ [g EXCEPT !.direct = TRUE] \in Goroutine
         /\ [g EXCEPT !.direct = TRUE].pc = g.pc
         /\ [g EXCEPT !.direct = TRUE].snap = g.snap
         /\ [g EXCEPT !.direct = TRUE].cand = g.cand
         /\ [g EXCEPT !.match = m] \in Goroutine
         /\ [g EXCEPT !.match = m].pc = g.pc
         /\ [g EXCEPT !.match = m].snap = g.snap
BY DEF Goroutine

-----------------------------------------------------------------------------
(***************************************************************************)
(* Type correctness, with the fact that goroutines hold published          *)
(* snapshots and candidates.                                               *)
(***************************************************************************)
LEMMA ScriptTypes ==
  ASSUME NEW n \in Nat, NEW cap \in Nat
  PROVE  /\ BudgetScript(n, cap).count \in {n, n + 1}
         /\ BudgetScript(n, cap).count > n => cap = 0 \/ n + 1 <= cap
         /\ BudgetScript(n, cap).reply # Rejected => BudgetScript(n, cap).count = n + 1
         /\ FreqScript(n, cap).count \in {n, n + 1}
         /\ FreqScript(n, cap).count > n => cap = 0 \/ n + 1 <= cap
         /\ FreqScript(n, cap).reply # Rejected => FreqScript(n, cap).count = n + 1
BY DEF BudgetScript, FreqScript, Rejected

(* The counters a goroutine's scripts act on, and the caps it passes.      *)
LEMMA CandidateTypes ==
  ASSUME TypeOK, NEW r \in Request, req[r].cand \in Ad
  PROVE  /\ CampaignIn(r) \in Campaign
         /\ BudgetOf(r) \in Nat
         /\ FreqCapOf(r) \in Nat
         /\ impsTotal[CampaignIn(r)] \in Nat
         /\ CountFor(r) \in Nat
         /\ req[r].user \in User
         /\ req[r].snap \in Snapshots
<1>1. req[r] \in Goroutine
  BY DEF TypeOK
<1>2. req[r].snap \in Snapshots /\ req[r].snap \in Snapshot /\ req[r].user \in User
  BY <1>1, DeliveryAssumption DEF Goroutine
<1>3. CampaignIn(r) \in Campaign
  BY DeliveryAssumption DEF CampaignIn
<1>4. req[r].snap.budget \in [Campaign -> Nat] /\ req[r].snap.freqCap \in [Ad -> Nat]
  BY <1>2 DEF Snapshot
<1>5. userCount[req[r].user] \in [Ad -> Nat] /\ impsTotal \in [Campaign -> Nat]
  BY <1>2 DEF TypeOK
<1> QED BY <1>2, <1>3, <1>4, <1>5 DEF BudgetOf, FreqCapOf, CountFor

(* A run of budgetScript moves one counter, by at most one and only up.    *)
LEMMA BudgetRun ==
  ASSUME TypeOK, NEW r \in Request, req[r].cand \in Ad, RunBudgetScript(r)
  PROVE  /\ impsTotal' \in [Campaign -> Nat]
         /\ \A c \in Campaign : impsTotal'[c] >= impsTotal[c]
         /\ \A c \in Campaign : impsTotal'[c] # impsTotal[c] =>
              c = CampaignIn(r) /\ (BudgetOf(r) = 0 \/ impsTotal'[c] <= BudgetOf(r))
         /\ TryReserve(r).reply # Rejected =>
              impsTotal'[CampaignIn(r)] = impsTotal[CampaignIn(r)] + 1
<1> DEFINE n == impsTotal[CampaignIn(r)]
           m == TryReserve(r).count
<1>1. CampaignIn(r) \in Campaign /\ n \in Nat /\ BudgetOf(r) \in Nat
  BY CandidateTypes
<1>2. /\ m \in {n, n + 1}
      /\ m > n => BudgetOf(r) = 0 \/ n + 1 <= BudgetOf(r)
      /\ TryReserve(r).reply # Rejected => m = n + 1
  BY <1>1, ScriptTypes DEF TryReserve
<1>3. impsTotal' = [impsTotal EXCEPT ![CampaignIn(r)] = m]
  BY DEF RunBudgetScript
<1>4. impsTotal \in [Campaign -> Nat]
  BY DEF TypeOK
<1> HIDE DEF m
<1> QED BY <1>1, <1>2, <1>3, <1>4

(* The same for freqScript and the counter of the user and ad.             *)
LEMMA FreqRun ==
  ASSUME TypeOK, NEW r \in Request, req[r].cand \in Ad, FreqCapOf(r) > 0,
         RunFreqScript(r)
  PROVE  /\ userCount' \in [User -> [Ad -> Nat]]
         /\ \A u \in User, a \in Ad : userCount'[u][a] >= userCount[u][a]
         /\ \A u \in User, a \in Ad : userCount'[u][a] # userCount[u][a] =>
              a = req[r].cand /\ userCount'[u][a] <= FreqCapOf(r)
         /\ TryConsume(r).reply # Rejected =>
              userCount'[req[r].user][req[r].cand]
                = userCount[req[r].user][req[r].cand] + 1
<1> DEFINE u0 == req[r].user
           a0 == req[r].cand
           n  == userCount[u0][a0]
           m  == TryConsume(r).count
<1>1. u0 \in User /\ a0 \in Ad /\ n \in Nat /\ FreqCapOf(r) \in Nat /\ n = CountFor(r)
  BY CandidateTypes DEF CountFor
<1>2. /\ m \in {n, n + 1}
      /\ m > n => FreqCapOf(r) = 0 \/ n + 1 <= FreqCapOf(r)
      /\ TryConsume(r).reply # Rejected => m = n + 1
  BY <1>1, ScriptTypes DEF TryConsume
<1>3. userCount' = [userCount EXCEPT ![u0][a0] = m]
  BY DEF RunFreqScript
<1>4. userCount \in [User -> [Ad -> Nat]]
  BY DEF TypeOK
<1> HIDE DEF m, u0, a0
<1>5. /\ userCount'[u0][a0] = m
      /\ \A u \in User, a \in Ad : u # u0 \/ a # a0 => userCount'[u][a] = userCount[u][a]
      /\ userCount' \in [User -> [Ad -> Nat]]
  BY <1>1, <1>2, <1>3, <1>4
<1>6. \A u \in User, a \in Ad : userCount[u][a] \in Nat
  BY <1>4
<1> QED BY <1>1, <1>2, <1>5, <1>6 DEF u0, a0

(* Replacing one goroutine.                                                *)
LEMMA Replace ==
  ASSUME TypeOK, Held, NEW r \in Request, NEW h \in Goroutine,
         req' = [req EXCEPT ![r] = h],
         registry' = registry, published' = published,
         h.snap \in published,
         h.pc \in {"freq", "budget", "serve", "inline"} => h.cand \in Ad
  PROVE  req' \in [Request -> Goroutine] /\ Held'
<1>1. req' \in [Request -> Goroutine]
  BY DEF TypeOK
<1>2. req'[r] = h /\ \A q \in Request : q # r => req'[q] = req[q]
  BY DEF TypeOK
<1> QED BY <1>1, <1>2 DEF Held

Base == TypeOK /\ Held

LEMMA InitBase == Init => Base
BY DeliveryAssumption DEF Init, Base, Held, TypeOK, Goroutine, Waiting

LEMMA NextBase ==
  ASSUME Base, [Next]_vars
  PROVE  Base'
<1> USE DEF Base
<1>0. \A r \in Request : req[r] \in Goroutine
  BY DEF TypeOK
<1>1. ASSUME NEW r \in Request, Arrive(r) PROVE Base'
  <2>1. PICK u \in User, m \in Targets :
          req' = [req EXCEPT ![r] = [Goto(Read(req[r], u), "select") EXCEPT !.match = m]]
    BY <1>1 DEF Arrive, TypeOK
  <2> DEFINE h == Goto(Read(req[r], u), "select")
  <2>2. h \in Goroutine /\ h.pc = "select" /\ h.snap = registry
    BY <1>0, ReadUpdate, GotoUpdate DEF TypeOK, Working
  <2>3. m \in SUBSET Ad
    BY DeliveryAssumption
  <2> HIDE DEF h
  <2>4. /\ [h EXCEPT !.match = m] \in Goroutine
        /\ [h EXCEPT !.match = m].pc = "select"
        /\ [h EXCEPT !.match = m].snap = registry
    BY <2>2, <2>3, FaultyUpdate
  <2>5. req' = [req EXCEPT ![r] = [h EXCEPT !.match = m]]
    BY <2>1 DEF h
  <2> QED BY <1>1, <2>4, <2>5, Replace DEF Arrive, TypeOK, Held
<1>2. ASSUME NEW r \in Request, ArriveDirect(r) PROVE Base'
  <2>1. PICK u \in User, a \in registry.ads :
          req' = [req EXCEPT ![r] = [Chosen(Read(req[r], u), a) EXCEPT !.direct = TRUE]]
    BY <1>2 DEF ArriveDirect, TypeOK
  <2> DEFINE h == Chosen(Read(req[r], u), a)
  <2>2. a \in Ad
    BY DeliveryAssumption DEF TypeOK, Snapshot
  <2>3. h \in Goroutine /\ h.pc = "freq" /\ h.snap = registry /\ h.cand = a
    <3>1. Read(req[r], u) \in Goroutine /\ Read(req[r], u).snap = registry
      BY <1>0, ReadUpdate DEF TypeOK
    <3> HIDE DEF Base
    <3> QED BY <2>2, <3>1, ChosenUpdate
  <2> HIDE DEF h
  <2>4. /\ [h EXCEPT !.direct = TRUE] \in Goroutine
        /\ [h EXCEPT !.direct = TRUE].snap = registry
        /\ [h EXCEPT !.direct = TRUE].cand \in Ad
    BY <2>2, <2>3, FaultyUpdate
  <2>5. req' = [req EXCEPT ![r] = [h EXCEPT !.direct = TRUE]]
    BY <2>1 DEF h
  <2> QED BY <1>2, <2>4, <2>5, Replace DEF ArriveDirect, TypeOK, Held
<1>3. ASSUME NEW r \in Request, ArriveUnknown(r) PROVE Base'
  <2>1. PICK u \in User :
          req' = [req EXCEPT ![r] = [Goto(Read(req[r], u), "empty") EXCEPT !.direct = TRUE]]
    BY <1>3 DEF ArriveUnknown, TypeOK
  <2> DEFINE h == Goto(Read(req[r], u), "empty")
  <2>2. h \in Goroutine /\ h.pc = "empty" /\ h.snap = registry
    BY <1>0, ReadUpdate, GotoUpdate DEF TypeOK, Done
  <2> HIDE DEF h
  <2>3. /\ [h EXCEPT !.direct = TRUE] \in Goroutine
        /\ [h EXCEPT !.direct = TRUE].pc = "empty"
        /\ [h EXCEPT !.direct = TRUE].snap = registry
    BY <2>2, FaultyUpdate
  <2>4. req' = [req EXCEPT ![r] = [h EXCEPT !.direct = TRUE]]
    BY <2>1 DEF h
  <2> QED BY <1>3, <2>3, <2>4, Replace DEF ArriveUnknown, TypeOK, Held
<1>4. ASSUME NEW r \in Request, SelectCandidate(r) PROVE Base'
  <2>1. PICK a \in Select(req[r]) : req' = [req EXCEPT ![r] = Chosen(req[r], a)]
    BY <1>4 DEF SelectCandidate, TypeOK
  <2>2. a \in Ad
    BY <1>0, DeliveryAssumption DEF Select, Candidates, Goroutine, Snapshot
  <2>3. req[r].snap \in published
    BY <1>4 DEF SelectCandidate, Held
  <2>4. /\ Chosen(req[r], a) \in Goroutine
        /\ Chosen(req[r], a).cand = a
        /\ Chosen(req[r], a).snap = req[r].snap
    BY <1>0, <2>2, ChosenUpdate
  <2>5. UNCHANGED <<registry, published, impsTotal, userCount, slots>>
    BY <1>4 DEF SelectCandidate
  <2>6. req' \in [Request -> Goroutine] /\ Held'
    BY <2>1, <2>2, <2>3, <2>4, <2>5, Replace
  <2> QED BY <2>5, <2>6 DEF TypeOK
<1>5. ASSUME NEW r \in Request, NEW p \in Done \cup {"budget"},
             req[r].pc \in Working, p = "budget" => req[r].pc = "freq",
             p = "inline" => req[r].pc = "serve",
             req' = [req EXCEPT ![r] = Goto(@, p)],
             UNCHANGED <<registry, published, impsTotal, userCount, slots>>
      PROVE  Base'
  <2>1. req' = [req EXCEPT ![r] = Goto(req[r], p)]
    BY <1>5 DEF TypeOK
  <2>2. /\ Goto(req[r], p) \in Goroutine
        /\ Goto(req[r], p).pc = p
        /\ Goto(req[r], p).cand = req[r].cand
        /\ Goto(req[r], p).snap = req[r].snap
    BY <1>0, GotoUpdate DEF Working, Done
  <2>3. req[r].snap \in published /\ (p \in {"budget", "inline"} => req[r].cand \in Ad)
    BY <1>5 DEF Held, Working
  <2>4. p \in {"freq", "budget", "serve", "inline"} => req[r].cand \in Ad
    BY <2>3 DEF Done
  <2> QED BY <1>5, <2>1, <2>2, <2>3, <2>4, Replace DEF TypeOK
<1>6. ASSUME NEW r \in Request, NEW p \in {"budget", "serve", "empty"},
             req[r].pc \in {"freq", "budget"},
             \/ req' = [req EXCEPT ![r] = Goto(@, p)]
             \/ req' = [req EXCEPT ![r] = Goto(Failed(@), p)]
             \/ req' = [req EXCEPT ![r] = Resent(Failed(@))]
             \/ req' = [req EXCEPT ![r] = Refused(@)],
             UNCHANGED <<registry, published>>
      PROVE  req' \in [Request -> Goroutine] /\ Held'
  <2>1. req[r].snap \in published /\ req[r].cand \in Ad
    BY <1>6 DEF Held
  <2>2. p \in Working \cup Done
    BY DEF Working, Done
  <2>3. CASE req' = [req EXCEPT ![r] = Goto(@, p)]
    <3>1. req' = [req EXCEPT ![r] = Goto(req[r], p)]
      BY <2>3 DEF TypeOK
    <3>2. /\ Goto(req[r], p) \in Goroutine
          /\ Goto(req[r], p).cand = req[r].cand
          /\ Goto(req[r], p).snap = req[r].snap
      BY <1>0, <2>2, GotoUpdate
    <3> QED BY <1>6, <2>1, <3>1, <3>2, Replace
  <2>4. CASE req' = [req EXCEPT ![r] = Goto(Failed(@), p)]
    <3>1. req' = [req EXCEPT ![r] = Goto(Failed(req[r]), p)]
      BY <2>4 DEF TypeOK
    <3>2. /\ Goto(Failed(req[r]), p) \in Goroutine
          /\ Goto(Failed(req[r]), p).cand = req[r].cand
          /\ Goto(Failed(req[r]), p).snap = req[r].snap
      BY <1>0, <2>2, FailedUpdate, GotoUpdate
    <3> QED BY <1>6, <2>1, <3>1, <3>2, Replace
  <2>5. CASE req' = [req EXCEPT ![r] = Resent(Failed(@))]
    <3>1. req' = [req EXCEPT ![r] = Resent(Failed(req[r]))]
      BY <2>5 DEF TypeOK
    <3>2. /\ Resent(Failed(req[r])) \in Goroutine
          /\ Resent(Failed(req[r])).cand = req[r].cand
          /\ Resent(Failed(req[r])).snap = req[r].snap
      BY <1>0, FailedUpdate, ResentUpdate
    <3> QED BY <1>6, <2>1, <3>1, <3>2, Replace
  <2>6. CASE req' = [req EXCEPT ![r] = Refused(@)]
    <3>1. req' = [req EXCEPT ![r] = Refused(req[r])]
      BY <2>6 DEF TypeOK
    <3>2. /\ Refused(req[r]) \in Goroutine
          /\ Refused(req[r]).pc \in {"select", "empty"}
          /\ Refused(req[r]).snap = req[r].snap
      BY <1>0, <2>1, RefusedUpdate
    <3> QED BY <1>6, <2>1, <3>1, <3>2, Replace
  <2> QED BY <1>6, <2>3, <2>4, <2>5, <2>6
<1>7. ASSUME NEW r \in Request, Handle(r) PROVE Base'
  <2>1. CASE SelectCandidate(r)
    BY <1>4, <2>1
  <2>2. CASE NoCandidate(r) \/ FreqUncapped(r) \/ ServeInline(r)
    BY <1>5, <2>2 DEF NoCandidate, FreqUncapped, ServeInline, Working, Done
  <2>3. CASE ServeFails(r)
    <3> DEFINE h == Goto(req[r], "empty")
    <3>1. h \in Goroutine /\ h.pc = "empty" /\ h.snap = req[r].snap
      BY <1>0, GotoUpdate DEF Done
    <3>2. req' = [req EXCEPT ![r] = [h EXCEPT !.faulty = TRUE]]
      BY <2>3 DEF ServeFails, TypeOK
    <3> HIDE DEF h
    <3>3. /\ [h EXCEPT !.faulty = TRUE] \in Goroutine
          /\ [h EXCEPT !.faulty = TRUE].pc = "empty"
          /\ [h EXCEPT !.faulty = TRUE].snap = req[r].snap
      BY <3>1, FaultyUpdate
    <3>4. req[r].snap \in published
      BY <2>3 DEF ServeFails, Held
    <3> QED BY <2>3, <3>2, <3>3, <3>4, Replace DEF ServeFails, TypeOK
  <2>4. ASSUME req[r].pc = "freq", FreqCapOf(r) > 0,
               RunFreqScript(r) \/ UNCHANGED userCount
        PROVE  userCount' \in [User -> [Ad -> Nat]]
    BY <2>4, FreqRun DEF Held, TypeOK
  <2>5. ASSUME req[r].pc = "budget", RunBudgetScript(r) \/ UNCHANGED impsTotal
        PROVE  impsTotal' \in [Campaign -> Nat]
    BY <2>5, BudgetRun DEF Held, TypeOK
  <2>6. CASE FreqGranted(r)
    <3>1. req[r].cand \in Ad /\ req[r].user \in User
      BY <1>0, <2>6 DEF FreqGranted, Held, Goroutine
    <3>2. slots' \in [User -> [Ad -> SUBSET Request]]
      BY <2>6, <3>1 DEF FreqGranted, TypeOK
    <3> QED BY <1>6, <2>4, <2>6, <3>2 DEF FreqGranted, TypeOK
  <2>7. CASE FreqRejected(r)
    BY <1>6, <2>4, <2>7 DEF FreqRejected, TypeOK
  <2>8. CASE FreqError(r)
    BY <1>6, <2>4, <2>8 DEF FreqError, TypeOK
  <2>9. CASE FreqResent(r)
    BY <1>6, <2>4, <2>9 DEF FreqResent, TypeOK
  <2>10. CASE BudgetReserved(r)
    BY <1>6, <2>5, <2>10 DEF BudgetReserved, TypeOK
  <2>11. CASE BudgetExhausted(r)
    BY <1>6, <2>5, <2>11 DEF BudgetExhausted, TypeOK
  <2>12. CASE BudgetError(r)
    BY <1>6, <2>5, <2>12 DEF BudgetError, TypeOK
  <2>13. CASE BudgetResent(r)
    BY <1>6, <2>5, <2>13 DEF BudgetResent, TypeOK
  <2> QED BY <1>7, <2>1, <2>2, <2>3, <2>6, <2>7, <2>8, <2>9, <2>10, <2>11, <2>12,
             <2>13 DEF Handle
<1>8. ASSUME NEW r \in Request, Crash(r) PROVE Base'
  BY <1>5, <1>8 DEF Crash, Done
<1>9. ASSUME NEW s \in Snapshots, StoreSnapshot(s) PROVE Base'
  BY <1>9 DEF StoreSnapshot, TypeOK, Held
<1>10. ASSUME NEW u \in User, NEW a \in Ad, WindowExpires(u, a) PROVE Base'
  BY <1>10 DEF WindowExpires, TypeOK, Held
<1>11. CASE UNCHANGED vars
  BY <1>11 DEF vars, TypeOK, Held
<1> QED BY <1>1, <1>2, <1>3, <1>7, <1>8, <1>9, <1>10, <1>11 DEF Next

(* Type correctness of the hot path: the counters stay natural numbers     *)
(* whatever DECR follows an INCR, goroutines keep their shape.             *)
THEOREM TypeCorrect == Spec => []TypeOK
<1>1. Base /\ [Next]_vars => Base'
  BY NextBase
<1>2. Base => TypeOK
  BY DEF Base
<1> QED BY InitBase, <1>1, <1>2, PTL DEF Spec

-----------------------------------------------------------------------------
(***************************************************************************)
(* The ceiling on the budget counter.  Only budgetScript moves it, and it  *)
(* moves it past no cap the request's own snapshot gives; that snapshot    *)
(* was published.                                                          *)
(***************************************************************************)
LEMMA NextCeiling ==
  ASSUME Base, Base', BudgetCeiling, [Next]_vars
  PROVE  BudgetCeiling'
<1> USE DEF Base
<1>1. published \subseteq published'
  BY DEF Next, Handle, vars, Arrive, ArriveDirect, ArriveUnknown, SelectCandidate,
         NoCandidate, FreqUncapped, FreqGranted, FreqRejected, FreqError, FreqResent,
         BudgetReserved, BudgetExhausted, BudgetError, BudgetResent, ServeInline,
         ServeFails, Crash, StoreSnapshot, WindowExpires
<1>2. CASE UNCHANGED impsTotal
  BY <1>1, <1>2 DEF BudgetCeiling
<1>3. ASSUME NEW r \in Request, req[r].pc = "budget", RunBudgetScript(r)
      PROVE  BudgetCeiling'
  <2>1. req[r].cand \in Ad /\ req[r].snap \in published
    BY <1>3 DEF Held
  <2>2. ASSUME NEW c \in Campaign, impsTotal'[c] # impsTotal[c]
        PROVE  \/ req[r].snap.budget[c] = 0
               \/ impsTotal'[c] <= req[r].snap.budget[c]
    BY <1>3, <2>1, <2>2, BudgetRun DEF BudgetOf
  <2> QED BY <1>1, <2>1, <2>2 DEF BudgetCeiling
<1>4. UNCHANGED impsTotal \/ \E r \in Request : req[r].pc = "budget" /\ RunBudgetScript(r)
  BY DEF Next, Handle, vars, Arrive, ArriveDirect, ArriveUnknown, SelectCandidate,
         NoCandidate, FreqUncapped, FreqGranted, FreqRejected, FreqError, FreqResent,
         BudgetReserved, BudgetExhausted, BudgetError, BudgetResent, ServeInline,
         ServeFails, Crash, StoreSnapshot, WindowExpires
<1> QED BY <1>2, <1>3, <1>4

(***************************************************************************)
(* Responses are backed by reservations: a request joins the holders of    *)
(* its campaign only in the step that counted it.                          *)
(***************************************************************************)
LEMMA HoldersFinite ==
  \A c : IsFiniteSet(Holders(c)) /\ IsFiniteSet(Inline(c))
BY DeliveryAssumption, FS_Subset DEF Holders, Inline

LEMMA NoNewHolder ==
  ASSUME Base, ResponsesReserved,
         \A c \in Campaign : Holders(c)' \subseteq Holders(c),
         \A c \in Campaign : impsTotal'[c] >= impsTotal[c],
         impsTotal' \in [Campaign -> Nat]
  PROVE  ResponsesReserved'
<1> SUFFICES ASSUME NEW c \in Campaign
             PROVE  Cardinality(Holders(c)') <= impsTotal'[c]
  BY DEF ResponsesReserved
<1>1. Cardinality(Holders(c)') <= Cardinality(Holders(c))
  BY HoldersFinite, FS_Subset
<1>2. Cardinality(Holders(c)) \in Nat /\ Cardinality(Holders(c)') \in Nat
  BY HoldersFinite, FS_Subset, FS_CardinalityType
<1>3. Cardinality(Holders(c)) <= impsTotal[c] /\ impsTotal'[c] >= impsTotal[c]
  BY DEF ResponsesReserved
<1>4. impsTotal[c] \in Nat /\ impsTotal'[c] \in Nat
  BY DEF Base, TypeOK
<1> QED BY <1>1, <1>2, <1>3, <1>4

LEMMA NewHolder ==
  ASSUME Base, Base', ResponsesReserved, NEW r \in Request, BudgetReserved(r)
  PROVE  ResponsesReserved'
<1> USE DEF Base
<1> DEFINE c0 == CampaignIn(r)
<1>1. req[r] \in Goroutine /\ req[r].cand \in Ad /\ RunBudgetScript(r)
  BY DEF BudgetReserved, Held, TypeOK
<1>2. /\ c0 \in Campaign
      /\ impsTotal'[c0] = impsTotal[c0] + 1
      /\ \A c \in Campaign : impsTotal'[c] >= impsTotal[c]
  BY <1>1, BudgetRun, CandidateTypes DEF BudgetReserved
<1>3. req'[r].cand = req[r].cand /\ \A q \in Request : q # r => req'[q] = req[q]
  <2>1. req' = [req EXCEPT ![r] = Goto(req[r], "serve")]
    BY DEF BudgetReserved, TypeOK
  <2>2. Goto(req[r], "serve").cand = req[r].cand
    BY <1>1, GotoUpdate DEF Working
  <2> QED BY <2>1, <2>2 DEF TypeOK
<1>4. ASSUME NEW c \in Campaign
      PROVE  /\ c # c0 => Holders(c)' \subseteq Holders(c)
             /\ c = c0 => Holders(c)' \subseteq Holders(c) \cup {r}
  BY <1>3 DEF Holders, CampaignIn
<1> HIDE DEF c0
<1> SUFFICES ASSUME NEW c \in Campaign
             PROVE  Cardinality(Holders(c)') <= impsTotal'[c]
  BY DEF ResponsesReserved
<1>5. /\ impsTotal[c] \in Nat /\ impsTotal'[c] \in Nat
      /\ Cardinality(Holders(c)) \in Nat
      /\ Cardinality(Holders(c)) <= impsTotal[c]
  BY HoldersFinite, FS_CardinalityType DEF TypeOK, ResponsesReserved
<1>6. CASE c # c0
  <2>1. /\ Cardinality(Holders(c)') <= Cardinality(Holders(c))
        /\ Cardinality(Holders(c)') \in Nat
    BY <1>4, <1>6, HoldersFinite, FS_Subset, FS_CardinalityType
  <2> QED BY <1>2, <1>5, <2>1
<1>7. CASE c = c0
  <2>1. /\ IsFiniteSet(Holders(c) \cup {r})
        /\ Cardinality(Holders(c) \cup {r}) <= Cardinality(Holders(c)) + 1
    <3> DEFINE S == Holders(c)
    <3>1. IsFiniteSet(S) /\ Cardinality(S) \in Nat
      BY <1>5, HoldersFinite
    <3> HIDE DEF S
    <3>2. /\ IsFiniteSet(S \cup {r})
          /\ Cardinality(S \cup {r}) = IF r \in S THEN Cardinality(S) ELSE Cardinality(S) + 1
      BY <3>1, FS_AddElement
    <3>3. Cardinality(S \cup {r}) <= Cardinality(S) + 1
      BY <3>1, <3>2
    <3> QED BY <3>2, <3>3 DEF S
  <2>2. /\ Cardinality(Holders(c)') <= Cardinality(Holders(c) \cup {r})
        /\ Cardinality(Holders(c)') \in Nat
        /\ Cardinality(Holders(c) \cup {r}) \in Nat
    BY <1>4, <1>7, <2>1, FS_Subset, FS_CardinalityType
  <2> QED BY <1>2, <1>5, <1>7, <2>1, <2>2
<1> QED BY <1>6, <1>7

(* A step that is not a reservation makes no request a holder.             *)
LEMMA HoldersShrink ==
  ASSUME Base, [Next]_vars, \A r \in Request : ~BudgetReserved(r), NEW c \in Campaign
  PROVE  Holders(c)' \subseteq Holders(c)
<1> USE DEF Base
<1>0. req \in [Request -> Goroutine] /\ \A r \in Request : req[r] \in Goroutine
  BY DEF TypeOK
<1>1. ASSUME NEW r \in Request, NEW h, req' = [req EXCEPT ![r] = h],
             \/ h.pc \notin {"serve", "inline"}
             \/ req[r].pc \in {"serve", "inline"} /\ h.cand = req[r].cand
      PROVE  Holders(c)' \subseteq Holders(c)
  <2>1. req'[r] = h /\ \A q \in Request : q # r => req'[q] = req[q]
    BY <1>0, <1>1
  <2> QED BY <1>1, <2>1 DEF Holders, CampaignIn
<1>2. CASE UNCHANGED req
  BY <1>2 DEF Holders, CampaignIn
<1>3. ASSUME NEW r \in Request,
             Arrive(r) \/ ArriveDirect(r) \/ ArriveUnknown(r) \/ Handle(r) \/ Crash(r)
      PROVE  Holders(c)' \subseteq Holders(c)
  <2>1. CASE Arrive(r)
    <3>1. PICK u \in User, m \in Targets :
            req' = [req EXCEPT ![r] = [Goto(Read(req[r], u), "select") EXCEPT !.match = m]]
      BY <2>1, <1>0 DEF Arrive
    <3> DEFINE h == Goto(Read(req[r], u), "select")
    <3>2. h \in Goroutine /\ h.pc = "select"
      BY <1>0, ReadUpdate, GotoUpdate DEF TypeOK, Working
    <3>3. m \in SUBSET Ad
      BY DeliveryAssumption
    <3>4. req' = [req EXCEPT ![r] = [h EXCEPT !.match = m]]
      BY <3>1
    <3> HIDE DEF h
    <3>5. [h EXCEPT !.match = m].pc = "select"
      BY <3>2, <3>3, FaultyUpdate
    <3> QED BY <1>1, <3>4, <3>5
  <2>2. CASE ArriveDirect(r)
    <3>1. PICK u \in User, a \in registry.ads :
            req' = [req EXCEPT ![r] = [Chosen(Read(req[r], u), a) EXCEPT !.direct = TRUE]]
      BY <2>2, <1>0 DEF ArriveDirect
    <3> DEFINE h == Chosen(Read(req[r], u), a)
    <3>2. Read(req[r], u) \in Goroutine /\ a \in Ad
      BY <1>0, ReadUpdate, DeliveryAssumption DEF TypeOK, Snapshot
    <3>3. h \in Goroutine /\ h.pc = "freq"
      BY <3>2, ChosenUpdate
    <3>4. req' = [req EXCEPT ![r] = [h EXCEPT !.direct = TRUE]]
      BY <3>1
    <3> HIDE DEF h
    <3>5. [h EXCEPT !.direct = TRUE].pc = "freq"
      BY <3>3, FaultyUpdate
    <3> QED BY <1>1, <3>4, <3>5
  <2>3. CASE ArriveUnknown(r)
    <3>1. PICK u \in User :
            req' = [req EXCEPT ![r] = [Goto(Read(req[r], u), "empty") EXCEPT !.direct = TRUE]]
      BY <2>3, <1>0 DEF ArriveUnknown
    <3> DEFINE h == Goto(Read(req[r], u), "empty")
    <3>2. h \in Goroutine /\ h.pc = "empty"
      BY <1>0, ReadUpdate, GotoUpdate DEF TypeOK, Done
    <3>3. req' = [req EXCEPT ![r] = [h EXCEPT !.direct = TRUE]]
      BY <3>1
    <3> HIDE DEF h
    <3>4. [h EXCEPT !.direct = TRUE].pc = "empty"
      BY <3>2, FaultyUpdate
    <3> QED BY <1>1, <3>3, <3>4
  <2>4. CASE SelectCandidate(r)
    <3>1. PICK a \in Select(req[r]) : req' = [req EXCEPT ![r] = Chosen(req[r], a)]
      BY <2>4, <1>0 DEF SelectCandidate
    <3>2. a \in Ad
      BY <1>0, DeliveryAssumption DEF Select, Candidates, Goroutine, Snapshot
    <3>3. Chosen(req[r], a).pc = "freq"
      BY <1>0, <3>2, ChosenUpdate
    <3> QED BY <1>1, <3>1, <3>3
  <2>5. ASSUME NEW p \in Working \cup Done, NEW g \in Goroutine,
               req' = [req EXCEPT ![r] = Goto(g, p)],
               p \notin {"serve", "inline"} \/ (req[r].pc = "serve" /\ g = req[r])
        PROVE  Holders(c)' \subseteq Holders(c)
    <3>1. Goto(g, p).pc = p /\ Goto(g, p).cand = g.cand
      BY GotoUpdate
    <3> QED BY <1>1, <2>5, <3>1
  <2>6. CASE NoCandidate(r) \/ FreqUncapped(r) \/ ServeInline(r) \/ Crash(r)
    <3>1. \E p \in {"empty", "budget", "inline", "gone"} :
            /\ req' = [req EXCEPT ![r] = Goto(req[r], p)]
            /\ p = "inline" => req[r].pc = "serve"
      BY <2>6, <1>0 DEF NoCandidate, FreqUncapped, ServeInline, Crash
    <3> QED BY <1>0, <2>5, <3>1 DEF Working, Done
  <2>7. CASE ServeFails(r)
    <3> DEFINE h == Goto(req[r], "empty")
    <3>1. h \in Goroutine /\ h.pc = "empty"
      BY <1>0, GotoUpdate DEF Done
    <3>2. req' = [req EXCEPT ![r] = [h EXCEPT !.faulty = TRUE]]
      BY <2>7, <1>0 DEF ServeFails
    <3> HIDE DEF h
    <3>3. [h EXCEPT !.faulty = TRUE].pc = "empty"
      BY <3>1, FaultyUpdate
    <3> QED BY <1>1, <3>2, <3>3
  <2>8. CASE FreqGranted(r) \/ FreqError(r) \/ BudgetError(r)
    <3>1. \E p \in {"empty", "budget"} :
            \/ req' = [req EXCEPT ![r] = Goto(req[r], p)]
            \/ req' = [req EXCEPT ![r] = Goto(Failed(req[r]), p)]
      BY <2>8, <1>0 DEF FreqGranted, FreqError, BudgetError
    <3>2. Failed(req[r]) \in Goroutine
      BY <1>0, FailedUpdate
    <3> QED BY <1>0, <2>5, <3>1, <3>2 DEF Working, Done
  <2>9. CASE FreqResent(r) \/ BudgetResent(r)
    <3>1. /\ req' = [req EXCEPT ![r] = Resent(Failed(req[r]))]
          /\ req[r].pc \in {"freq", "budget"}
      BY <2>9, <1>0 DEF FreqResent, BudgetResent
    <3>2. Resent(Failed(req[r])).pc = req[r].pc
      BY <1>0, FailedUpdate, ResentUpdate
    <3> QED BY <1>1, <3>1, <3>2
  <2>10. CASE FreqRejected(r) \/ BudgetExhausted(r)
    <3>1. /\ req' = [req EXCEPT ![r] = Refused(req[r])]
          /\ req[r].cand \in Ad
      BY <2>10, <1>0 DEF FreqRejected, BudgetExhausted, Held
    <3>2. Refused(req[r]).pc \in {"select", "empty"}
      BY <1>0, <3>1, RefusedUpdate
    <3> QED BY <1>1, <3>1, <3>2
  <2> QED BY <1>3, <2>1, <2>2, <2>3, <2>4, <2>6, <2>7, <2>8, <2>9, <2>10 DEF Handle
<1>4. CASE \E s \in Snapshots : StoreSnapshot(s)
  BY <1>2, <1>4 DEF StoreSnapshot
<1>5. CASE \E u \in User, a \in Ad : WindowExpires(u, a)
  BY <1>2, <1>5 DEF WindowExpires
<1> QED BY <1>2, <1>3, <1>4, <1>5 DEF Next, vars

LEMMA NextReserved ==
  ASSUME Base, Base', ResponsesReserved, [Next]_vars
  PROVE  ResponsesReserved'
<1>1. CASE \E r \in Request : BudgetReserved(r)
  BY <1>1, NewHolder
<1>2. CASE \A r \in Request : ~BudgetReserved(r)
  <2>1. \A c \in Campaign : Holders(c)' \subseteq Holders(c)
    BY <1>2, HoldersShrink
  <2>2. UNCHANGED impsTotal \/ \E r \in Request : req[r].pc = "budget" /\ RunBudgetScript(r)
    BY DEF Next, Handle, vars, Arrive, ArriveDirect, ArriveUnknown, SelectCandidate,
           NoCandidate, FreqUncapped, FreqGranted, FreqRejected, FreqError, FreqResent,
           BudgetReserved, BudgetExhausted, BudgetError, BudgetResent, ServeInline,
           ServeFails, Crash, StoreSnapshot, WindowExpires
  <2>3. \A c \in Campaign : impsTotal'[c] >= impsTotal[c]
    BY <2>2, BudgetRun DEF Base, TypeOK, Held
  <2> QED BY <2>1, <2>3, NoNewHolder DEF Base, TypeOK
<1> QED BY <1>1, <1>2

(***************************************************************************)
(* The inductive invariant behind the budget, and the theorem.             *)
(***************************************************************************)
BudgetInv == Base /\ BudgetCeiling /\ ResponsesReserved

LEMMA InitBudget == Init => BudgetInv
<1> SUFFICES ASSUME Init PROVE BudgetInv
  OBVIOUS
<1>1. Base /\ BudgetCeiling
  BY InitBase DEF Init, BudgetCeiling
<1>2. ASSUME NEW c \in Campaign PROVE Holders(c) = {}
  BY DEF Init, Holders
<1>3. ResponsesReserved
  <2>1. ASSUME NEW c \in Campaign PROVE Cardinality(Holders(c)) = 0 /\ impsTotal[c] = 0
    BY <1>2, FS_EmptySet DEF Init
  <2> QED BY <2>1 DEF ResponsesReserved
<1> QED BY <1>1, <1>3 DEF BudgetInv

(* The counter stays under a published cap and above the responses that    *)
(* count on it, with any number of requests racing on the counter and any  *)
(* snapshots in use.                                                       *)
THEOREM BudgetSafe == Spec => [](BudgetCeiling /\ ResponsesReserved)
<1>1. BudgetInv /\ [Next]_vars => BudgetInv'
  BY NextBase, NextCeiling, NextReserved DEF BudgetInv
<1>2. BudgetInv => BudgetCeiling /\ ResponsesReserved
  BY DEF BudgetInv
<1> QED BY InitBudget, <1>1, <1>2, PTL DEF Spec

-----------------------------------------------------------------------------
(***************************************************************************)
(* Refinement of Allowance.                                                *)
(***************************************************************************)
(* A request about to be served holds a slot that no response shown so far *)
(* used, so those shown are fewer than the counter.                        *)
LEMMA RoomToServe ==
  ASSUME BudgetInv, NEW r \in Request, req[r].pc = "serve", NEW c \in Campaign,
         c = CampaignIn(r)
  PROVE  \E s \in published : s.budget[c] = 0 \/ Cardinality(Inline(c)) < s.budget[c]
<1> DEFINE I == Inline(c)
<1>1. r \notin I /\ I \cup {r} \subseteq Holders(c)
  BY DEF Inline, Holders
<1>2. IsFiniteSet(I) /\ IsFiniteSet(Holders(c))
  BY HoldersFinite
<1> HIDE DEF I
<1>3. IsFiniteSet(I \cup {r}) /\ Cardinality(I \cup {r}) = Cardinality(I) + 1
  BY <1>1, <1>2, FS_AddElement
<1>4. /\ Cardinality(I) \in Nat /\ Cardinality(Holders(c)) \in Nat
      /\ Cardinality(I \cup {r}) <= Cardinality(Holders(c))
  BY <1>1, <1>2, <1>3, FS_Subset, FS_CardinalityType
<1>5. Cardinality(Holders(c)) <= impsTotal[c] /\ impsTotal[c] \in Nat
  BY DEF BudgetInv, Base, TypeOK, ResponsesReserved
<1>6. impsTotal[c] # 0 /\ Cardinality(I) < impsTotal[c]
  BY <1>3, <1>4, <1>5
<1>7. PICK s \in published : s.budget[c] = 0 \/ impsTotal[c] <= s.budget[c]
  BY <1>6 DEF BudgetInv, BudgetCeiling
<1>8. s.budget[c] \in Nat
  BY DeliveryAssumption DEF BudgetInv, Base, TypeOK, Snapshot
<1>9. s.budget[c] = 0 \/ Cardinality(I) < s.budget[c]
  BY <1>4, <1>5, <1>6, <1>7, <1>8
<1> QED BY <1>9 DEF I

(* A goroutine joins the responses shown only in ServeInline.              *)
LEMMA InlineKept ==
  ASSUME Base, [Next]_vars, \A r \in Request : ~ServeInline(r), NEW c \in Campaign
  PROVE  Inline(c)' = Inline(c)
<1> USE DEF Base
<1>0. req \in [Request -> Goroutine] /\ \A r \in Request : req[r] \in Goroutine
  BY DEF TypeOK
<1>1. ASSUME NEW r \in Request, NEW h, req' = [req EXCEPT ![r] = h],
             h.pc # "inline", req[r].pc # "inline"
      PROVE  Inline(c)' = Inline(c)
  <2>1. req'[r] = h /\ \A q \in Request : q # r => req'[q] = req[q]
    BY <1>0, <1>1
  <2> QED BY <1>1, <2>1 DEF Inline, CampaignIn
<1>2. CASE UNCHANGED req
  BY <1>2 DEF Inline, CampaignIn
<1>3. ASSUME NEW r \in Request,
             Arrive(r) \/ ArriveDirect(r) \/ ArriveUnknown(r) \/ Handle(r) \/ Crash(r)
      PROVE  Inline(c)' = Inline(c)
  <2>0. req[r].pc # "inline"
    BY <1>3 DEF Handle, Arrive, ArriveDirect, ArriveUnknown, SelectCandidate,
         NoCandidate, FreqUncapped, FreqGranted, FreqRejected, FreqError, FreqResent,
         BudgetReserved, BudgetExhausted, BudgetError, BudgetResent, ServeInline,
         ServeFails, Crash, Working
  <2>1. CASE Arrive(r)
    <3>1. PICK u \in User, m \in Targets :
            req' = [req EXCEPT ![r] = [Goto(Read(req[r], u), "select") EXCEPT !.match = m]]
      BY <2>1, <1>0 DEF Arrive
    <3> DEFINE h == Goto(Read(req[r], u), "select")
    <3>2. h \in Goroutine /\ h.pc = "select"
      BY <1>0, ReadUpdate, GotoUpdate DEF TypeOK, Working
    <3>3. m \in SUBSET Ad
      BY DeliveryAssumption
    <3>4. req' = [req EXCEPT ![r] = [h EXCEPT !.match = m]]
      BY <3>1
    <3> HIDE DEF h
    <3>5. [h EXCEPT !.match = m].pc = "select"
      BY <3>2, <3>3, FaultyUpdate
    <3> QED BY <1>1, <2>0, <3>4, <3>5
  <2>2. CASE ArriveDirect(r)
    <3>1. PICK u \in User, a \in registry.ads :
            req' = [req EXCEPT ![r] = [Chosen(Read(req[r], u), a) EXCEPT !.direct = TRUE]]
      BY <2>2, <1>0 DEF ArriveDirect
    <3> DEFINE h == Chosen(Read(req[r], u), a)
    <3>2. Read(req[r], u) \in Goroutine /\ a \in Ad
      BY <1>0, ReadUpdate, DeliveryAssumption DEF TypeOK, Snapshot
    <3>3. h \in Goroutine /\ h.pc = "freq"
      BY <3>2, ChosenUpdate
    <3>4. req' = [req EXCEPT ![r] = [h EXCEPT !.direct = TRUE]]
      BY <3>1
    <3> HIDE DEF h
    <3>5. [h EXCEPT !.direct = TRUE].pc = "freq"
      BY <3>3, FaultyUpdate
    <3> QED BY <1>1, <2>0, <3>4, <3>5
  <2>3. CASE ArriveUnknown(r)
    <3>1. PICK u \in User :
            req' = [req EXCEPT ![r] = [Goto(Read(req[r], u), "empty") EXCEPT !.direct = TRUE]]
      BY <2>3, <1>0 DEF ArriveUnknown
    <3> DEFINE h == Goto(Read(req[r], u), "empty")
    <3>2. h \in Goroutine /\ h.pc = "empty"
      BY <1>0, ReadUpdate, GotoUpdate DEF TypeOK, Done
    <3>3. req' = [req EXCEPT ![r] = [h EXCEPT !.direct = TRUE]]
      BY <3>1
    <3> HIDE DEF h
    <3>4. [h EXCEPT !.direct = TRUE].pc = "empty"
      BY <3>2, FaultyUpdate
    <3> QED BY <1>1, <2>0, <3>3, <3>4
  <2>4. CASE SelectCandidate(r)
    <3>1. PICK a \in Select(req[r]) : req' = [req EXCEPT ![r] = Chosen(req[r], a)]
      BY <2>4, <1>0 DEF SelectCandidate
    <3>2. a \in Ad
      BY <1>0, DeliveryAssumption DEF Select, Candidates, Goroutine, Snapshot
    <3>3. Chosen(req[r], a).pc = "freq"
      BY <1>0, <3>2, ChosenUpdate
    <3> QED BY <1>1, <2>0, <3>1, <3>3
  <2>5. ASSUME NEW p \in Working \cup Done, NEW g \in Goroutine,
               req' = [req EXCEPT ![r] = Goto(g, p)],
               p # "inline"
        PROVE  Inline(c)' = Inline(c)
    <3>1. Goto(g, p).pc = p
      BY GotoUpdate
    <3> QED BY <1>1, <2>0, <2>5, <3>1
  <2>6. CASE NoCandidate(r) \/ FreqUncapped(r) \/ Crash(r)
    <3>1. \E p \in {"empty", "budget", "gone"} :
            req' = [req EXCEPT ![r] = Goto(req[r], p)]
      BY <2>6, <1>0 DEF NoCandidate, FreqUncapped, Crash
    <3> QED BY <1>0, <2>5, <3>1 DEF Working, Done
  <2>7. CASE ServeFails(r)
    <3> DEFINE h == Goto(req[r], "empty")
    <3>1. h \in Goroutine /\ h.pc = "empty"
      BY <1>0, GotoUpdate DEF Done
    <3>2. req' = [req EXCEPT ![r] = [h EXCEPT !.faulty = TRUE]]
      BY <2>7, <1>0 DEF ServeFails
    <3> HIDE DEF h
    <3>3. [h EXCEPT !.faulty = TRUE].pc = "empty"
      BY <3>1, FaultyUpdate
    <3> QED BY <1>1, <2>0, <3>2, <3>3
  <2>8. CASE FreqGranted(r) \/ FreqError(r) \/ BudgetReserved(r) \/ BudgetError(r)
    <3>1. \E p \in {"empty", "budget", "serve"} :
            \/ req' = [req EXCEPT ![r] = Goto(req[r], p)]
            \/ req' = [req EXCEPT ![r] = Goto(Failed(req[r]), p)]
      BY <2>8, <1>0 DEF FreqGranted, FreqError, BudgetReserved, BudgetError
    <3>2. Failed(req[r]) \in Goroutine
      BY <1>0, FailedUpdate
    <3> QED BY <1>0, <2>5, <3>1, <3>2 DEF Working, Done
  <2>9. CASE FreqResent(r) \/ BudgetResent(r)
    <3>1. /\ req' = [req EXCEPT ![r] = Resent(Failed(req[r]))]
          /\ req[r].pc \in {"freq", "budget"}
      BY <2>9, <1>0 DEF FreqResent, BudgetResent
    <3>2. Resent(Failed(req[r])).pc = req[r].pc
      BY <1>0, FailedUpdate, ResentUpdate
    <3> QED BY <1>1, <2>0, <3>1, <3>2
  <2>10. CASE FreqRejected(r) \/ BudgetExhausted(r)
    <3>1. /\ req' = [req EXCEPT ![r] = Refused(req[r])]
          /\ req[r].cand \in Ad
      BY <2>10, <1>0 DEF FreqRejected, BudgetExhausted, Held
    <3>2. Refused(req[r]).pc \in {"select", "empty"}
      BY <1>0, <3>1, RefusedUpdate
    <3> QED BY <1>1, <2>0, <3>1, <3>2
  <2> QED BY <1>3, <2>1, <2>2, <2>3, <2>4, <2>6, <2>7, <2>8, <2>9, <2>10 DEF Handle
<1>4. CASE \E s \in Snapshots : StoreSnapshot(s)
  BY <1>2, <1>4 DEF StoreSnapshot
<1>5. CASE \E u \in User, a \in Ad : WindowExpires(u, a)
  BY <1>2, <1>5 DEF WindowExpires
<1> QED BY <1>2, <1>3, <1>4, <1>5 DEF Next, vars

LEMMA StepImplementsAllowance ==
  BudgetInv /\ [Next]_vars => [Abstract!Next]_(Abstract!vars)
<1> SUFFICES ASSUME BudgetInv, [Next]_vars
             PROVE  \/ Abstract!Next
                    \/ UNCHANGED [c \in Campaign |-> {s.budget[c] : s \in published}]
                       /\ UNCHANGED [c \in Campaign |-> Cardinality(Inline(c))]
  BY DEF Abstract!vars
<1> USE DEF BudgetInv
<1>1. ASSUME NEW r \in Request, ServeInline(r) PROVE Abstract!Next
  <2> DEFINE c0 == CampaignIn(r)
  <2>1. /\ req' = [req EXCEPT ![r] = Goto(req[r], "inline")]
        /\ req[r] \in Goroutine /\ req[r].cand \in Ad /\ req[r].pc = "serve"
    BY <1>1 DEF ServeInline, Base, TypeOK, Held
  <2>2. req'[r].pc = "inline" /\ req'[r].cand = req[r].cand
    BY <2>1, GotoUpdate DEF Base, TypeOK, Done
  <2>3. \A q \in Request : q # r => req'[q] = req[q]
    BY <2>1 DEF Base, TypeOK
  <2>4. c0 \in Campaign
    BY <2>1, CandidateTypes DEF Base
  <2>5. \A c \in Campaign : c # c0 => Inline(c)' = Inline(c)
    BY <2>1, <2>2, <2>3 DEF Inline, CampaignIn
  <2>6. \A c \in Campaign :
          c = c0 => Inline(c)' = Inline(c) \cup {r} /\ r \notin Inline(c)
    BY <2>1, <2>2, <2>3 DEF Inline, CampaignIn
  <2>7. ASSUME NEW c \in Campaign, c = c0
        PROVE  Cardinality(Inline(c)') = Cardinality(Inline(c)) + 1
    BY <2>6, <2>7, HoldersFinite, FS_AddElement
  <2>8. \E s \in published : s.budget[c0] = 0 \/ Cardinality(Inline(c0)) < s.budget[c0]
    BY <2>1, <2>4, RoomToServe
  <2>9. UNCHANGED published
    BY <1>1 DEF ServeInline
  <2> DEFINE served == [c \in Campaign |-> Cardinality(Inline(c))]
             offered == [c \in Campaign |-> {s.budget[c] : s \in published}]
  <2>10. served' = [served EXCEPT ![c0] = @ + 1]
    <3>1. ASSUME NEW c \in Campaign
          PROVE  Cardinality(Inline(c)') = [served EXCEPT ![c0] = @ + 1][c]
      <4>1. CASE c = c0
        BY <2>4, <2>7, <4>1
      <4>2. CASE c # c0
        <5>1. Cardinality(Inline(c)') = Cardinality(Inline(c))
          BY <2>5, <4>2
        <5> QED BY <4>2, <5>1
      <4> QED BY <4>1, <4>2
    <3> QED BY <3>1
  <2>11. \E budget \in offered[c0] : budget = 0 \/ served[c0] < budget
    BY <2>4, <2>8
  <2>12. offered' = offered
    BY <2>9
  <2>13. Abstract!Serve(c0)
    BY <2>10, <2>11, <2>12 DEF Abstract!Serve, Abstract!Allows
  <2> QED BY <2>4, <2>13 DEF Abstract!Next
<1>2. CASE \A r \in Request : ~ServeInline(r)
  <2>1. \A c \in Campaign : Inline(c)' = Inline(c)
    BY <1>2, InlineKept
  <2>2. published \subseteq published'
    BY DEF Next, Handle, vars, Arrive, ArriveDirect, ArriveUnknown, SelectCandidate,
           NoCandidate, FreqUncapped, FreqGranted, FreqRejected, FreqError, FreqResent,
           BudgetReserved, BudgetExhausted, BudgetError, BudgetResent, ServeInline,
           ServeFails, Crash, StoreSnapshot, WindowExpires
  <2>3. Abstract!Offer
    BY <2>1, <2>2 DEF Abstract!Offer
  <2> QED BY <2>3 DEF Abstract!Next
<1> QED BY <1>1, <1>2

(* With any number of requests racing on the counter, any snapshots in     *)
(* use, lost replies, resends and crashes, /vast shows a campaign as       *)
(* Allowance says: one impression at a time, none past the largest budget  *)
(* it was given, none taken back.                                          *)
THEOREM DeliveryImplementsAllowance == Spec => ImplementsAllowance
<1>1. Init => Abstract!Init
  <2> SUFFICES ASSUME Init PROVE Abstract!Init
    OBVIOUS
  <2>1. \A c \in Campaign : Inline(c) = {}
    BY DEF Init, Inline
  <2>2. \A c \in Campaign : Cardinality(Inline(c)) = 0
    BY <2>1, FS_EmptySet
  <2>3. \A c \in Campaign : {s.budget[c] : s \in published} \subseteq Nat
    BY DeliveryAssumption DEF Init, Snapshot
  <2> QED BY <2>2, <2>3 DEF Abstract!Init
<1>2. BudgetInv /\ [Next]_vars => BudgetInv'
  BY NextBase, NextCeiling, NextReserved DEF BudgetInv
<1> QED BY InitBudget, <1>1, <1>2, StepImplementsAllowance, PTL
        DEF Spec, ImplementsAllowance, Abstract!Spec

-----------------------------------------------------------------------------
(***************************************************************************)
(* The frequency cap.  freqScript is the only way up for a window counter, *)
(* each step up admits at most one request, and EXPIRE resets both.        *)
(***************************************************************************)
LEMMA SlotsFinite ==
  ASSUME TypeOK, NEW u \in User, NEW a \in Ad
  PROVE  /\ IsFiniteSet(slots[u][a]) /\ Cardinality(slots[u][a]) \in Nat
         /\ userCount[u][a] \in Nat
BY DeliveryAssumption, FS_Subset, FS_CardinalityType DEF TypeOK

LEMMA FreqRunHolds ==
  ASSUME Base, Base', FreqCapHeld, NEW r \in Request, req[r].pc = "freq",
         FreqCapOf(r) > 0, RunFreqScript(r), published' = published,
         \/ slots' = slots
         \/ /\ TryConsume(r).reply # Rejected
            /\ slots' = [slots EXCEPT ![req[r].user][req[r].cand] = @ \cup {r}]
  PROVE  FreqCapHeld'
<1> USE DEF Base
<1> DEFINE u0 == req[r].user
           a0 == req[r].cand
<1>1. u0 \in User /\ a0 \in Ad /\ req[r].snap \in published
  BY CandidateTypes DEF Held
<1>2. /\ \A u \in User, a \in Ad : userCount'[u][a] >= userCount[u][a]
      /\ \A u \in User, a \in Ad : userCount'[u][a] # userCount[u][a] =>
           a = a0 /\ userCount'[u][a] <= req[r].snap.freqCap[a0]
      /\ TryConsume(r).reply # Rejected => userCount'[u0][a0] = userCount[u0][a0] + 1
  BY <1>1, FreqRun DEF FreqCapOf
<1> HIDE DEF u0, a0
<1> SUFFICES ASSUME NEW u \in User, NEW a \in Ad
             PROVE  /\ Cardinality(slots'[u][a]) <= userCount'[u][a]
                    /\ userCount'[u][a] > 0 =>
                         \E s \in published' : userCount'[u][a] <= s.freqCap[a]
  BY DEF FreqCapHeld
<1>3. /\ IsFiniteSet(slots[u][a]) /\ Cardinality(slots[u][a]) \in Nat
      /\ userCount[u][a] \in Nat /\ userCount'[u][a] \in Nat
      /\ Cardinality(slots[u][a]) <= userCount[u][a]
  BY SlotsFinite DEF FreqCapHeld, TypeOK
<1>4. userCount'[u][a] > 0 => \E s \in published' : userCount'[u][a] <= s.freqCap[a]
  BY <1>1, <1>2 DEF FreqCapHeld
<1>5. CASE slots'[u][a] = slots[u][a]
  BY <1>2, <1>3, <1>4, <1>5
<1>6. CASE slots'[u][a] # slots[u][a]
  <2>1. /\ TryConsume(r).reply # Rejected
        /\ slots' = [slots EXCEPT ![u0][a0] = @ \cup {r}]
    BY <1>6 DEF u0, a0
  <2>2. u = u0 /\ a = a0 /\ slots'[u][a] = slots[u][a] \cup {r}
    BY <1>1, <1>6, <2>1 DEF TypeOK
  <2>3. userCount'[u][a] = userCount[u][a] + 1
    BY <1>2, <2>1, <2>2
  <2> DEFINE S == slots[u][a]
  <2>4. Cardinality(S \cup {r}) = IF r \in S THEN Cardinality(S) ELSE Cardinality(S) + 1
    BY <1>3, FS_AddElement
  <2> HIDE DEF S
  <2>5. Cardinality(slots'[u][a]) <= Cardinality(slots[u][a]) + 1
    BY <1>3, <2>2, <2>4 DEF S
  <2>6. Cardinality(slots'[u][a]) \in Nat
    BY SlotsFinite, <1>3, <2>2, <2>4 DEF S
  <2> QED BY <1>3, <1>4, <2>3, <2>5, <2>6
<1> QED BY <1>5, <1>6

LEMMA NextFreq ==
  ASSUME Base, Base', FreqCapHeld, [Next]_vars
  PROVE  FreqCapHeld'
<1> USE DEF Base
<1>1. CASE UNCHANGED <<userCount, slots>> /\ published \subseteq published'
  BY <1>1 DEF FreqCapHeld
<1>2. ASSUME NEW r \in Request,
             FreqGranted(r) \/ FreqRejected(r) \/ FreqError(r) \/ FreqResent(r)
      PROVE  FreqCapHeld'
  <2>1. CASE UNCHANGED userCount
    <3>1. ~FreqGranted(r)
      <4>1. SUFFICES ASSUME FreqGranted(r) PROVE FALSE
        OBVIOUS
      <4>2. req[r].cand \in Ad
        BY <4>1 DEF FreqGranted, Held
      <4>3. userCount[req[r].user][req[r].cand] \in Nat
        BY <4>2, CandidateTypes DEF CountFor
      <4> QED BY <2>1, <4>1, <4>2, <4>3, FreqRun DEF FreqGranted
    <3> QED BY <1>1, <1>2, <2>1, <3>1 DEF FreqRejected, FreqError, FreqResent
  <2>2. CASE RunFreqScript(r)
    BY <1>2, <2>2, FreqRunHolds DEF FreqGranted, FreqRejected, FreqError, FreqResent
  <2> QED BY <1>2, <2>1, <2>2 DEF FreqGranted, FreqRejected, FreqError, FreqResent
<1>3. ASSUME NEW u0 \in User, NEW a0 \in Ad, WindowExpires(u0, a0)
      PROVE  FreqCapHeld'
  <2> SUFFICES ASSUME NEW u \in User, NEW a \in Ad
               PROVE  /\ Cardinality(slots'[u][a]) <= userCount'[u][a]
                      /\ userCount'[u][a] > 0 =>
                           \E s \in published' : userCount'[u][a] <= s.freqCap[a]
    BY DEF FreqCapHeld
  <2>1. CASE u = u0 /\ a = a0
    <3>1. slots'[u][a] = {} /\ userCount'[u][a] = 0
      BY <1>3, <2>1 DEF WindowExpires, TypeOK
    <3> QED BY <3>1, FS_EmptySet
  <2>2. CASE u # u0 \/ a # a0
    <3>1. slots'[u][a] = slots[u][a] /\ userCount'[u][a] = userCount[u][a]
      BY <1>3, <2>2 DEF WindowExpires, TypeOK
    <3> QED BY <1>3, <3>1 DEF WindowExpires, FreqCapHeld
  <2> QED BY <2>1, <2>2
<1>4. \/ UNCHANGED <<userCount, slots>> /\ published \subseteq published'
      \/ \E r \in Request :
           FreqGranted(r) \/ FreqRejected(r) \/ FreqError(r) \/ FreqResent(r)
      \/ \E u \in User, a \in Ad : WindowExpires(u, a)
  BY DEF Next, Handle, vars, Arrive, ArriveDirect, ArriveUnknown, SelectCandidate,
         NoCandidate, FreqUncapped, BudgetReserved, BudgetExhausted, BudgetError,
         BudgetResent, ServeInline, ServeFails, Crash, StoreSnapshot
<1> QED BY <1>1, <1>2, <1>3, <1>4

(* Within a window a user is granted no more slots of an ad than the       *)
(* largest cap rule in use, however many requests race and expire.         *)
THEOREM FreqSafe == Spec => []FreqCapHeld
<1>1. Init => FreqCapHeld
  <2> SUFFICES ASSUME Init, NEW u \in User, NEW a \in Ad
               PROVE  slots[u][a] = {} /\ userCount[u][a] = 0
    BY FS_EmptySet DEF FreqCapHeld
  <2> QED BY DEF Init
<1>2. Base /\ FreqCapHeld /\ [Next]_vars => (Base /\ FreqCapHeld)'
  BY NextBase, NextFreq
<1> QED BY InitBase, <1>1, <1>2, PTL DEF Spec

-----------------------------------------------------------------------------
(***************************************************************************)
(* The selection loop.  What a request chose or gave up on is judged by    *)
(* its own goroutine alone, the snapshot it read and the refusals it       *)
(* collected, so the invariant is one of a goroutine.                      *)
(***************************************************************************)

(* A finite set of ads, or of anything with an integer weight, has one of  *)
(* the largest weight: Select finds a candidate when there is one.         *)
LEMMA LargestExists ==
  ASSUME NEW S, IsFiniteSet(S), S # {}, NEW f, \A x \in S : f[x] \in Int
  PROVE  \E a \in S : \A b \in S : f[b] <= f[a]
<1> DEFINE above(a) == {b \in S : f[b] > f[a]}
           T == {above(a) : a \in S}
<1>1. T \subseteq FiniteSubsetsOf(S) /\ T # {}
  <2>1. FiniteSubsetsOf(S) = SUBSET S
    BY FS_FiniteSubsetsOfFinite
  <2>2. \A a : above(a) \in SUBSET S
    OBVIOUS
  <2> HIDE DEF above
  <2> QED BY <2>1, <2>2
<1>2. PICK U \in T : \A V \in T : <<V, U>> \notin StrictSubsetOrdering(S)
  <2> HIDE DEF T
  <2>1. IsWellFoundedOn(StrictSubsetOrdering(S), FiniteSubsetsOf(S))
    BY FS_StrictSubsetOrderingWellFounded
  <2> QED BY <1>1, <2>1, WFMin
<1>3. PICK a \in S : U = above(a)
  OBVIOUS
<1>4. ASSUME NEW b \in S, f[b] > f[a] PROVE FALSE
  <2>1. above(b) \subseteq above(a) /\ b \in above(a) /\ b \notin above(b)
    BY <1>4
  <2>2. above(b) \in T
    OBVIOUS
  <2>3. <<above(b), above(a)>> \in StrictSubsetOrdering(S)
    BY <2>1 DEF StrictSubsetOrdering
  <2> QED BY <1>2, <1>3, <2>2, <2>3
<1> QED BY <1>4

LEMMA SelectFindsOne ==
  ASSUME NEW g \in Goroutine, Select(g) = {}
  PROVE  Candidates(g) = {}
<1>1. g.snap \in Snapshots /\ g.snap \in Snapshot
  BY DeliveryAssumption DEF Goroutine
<1>2. IsFiniteSet(Candidates(g))
  BY <1>1, FS_Subset, DeliveryAssumption DEF Candidates
<1>3. \A a \in Candidates(g) : g.snap.priority[a] \in Int
  BY <1>1 DEF Candidates, Snapshot
<1>4. ASSUME Candidates(g) # {} PROVE FALSE
  <2>1. PICK a \in Candidates(g) :
          \A b \in Candidates(g) : g.snap.priority[b] <= g.snap.priority[a]
    BY <1>2, <1>3, <1>4, LargestExists
  <2> QED BY <2>1 DEF Select
<1> QED BY <1>4

(* The loop invariant: a request is refused different ads only, one per    *)
(* attempt, the candidate it holds is a best one among the others, and an  *)
(* unforced no-fill found no other or had used up its attempts.            *)
Choosing == {"freq", "budget", "serve", "inline"}

LoopInv(g) ==
  /\ IsFiniteSet(g.excluded)
  /\ g.attempts = Cardinality(g.excluded)
  /\ g.attempts <= MaxAttempts
  /\ g.pc \in Choosing => g.cand \in Select(g) /\ g.attempts < MaxAttempts
  /\ (g.pc = "empty" /\ ~g.faulty) => Candidates(g) = {} \/ g.attempts = MaxAttempts

Looping(g) == IF g.direct THEN g.pc # "idle" ELSE LoopInv(g)

SearchInv == \A r \in Request : Looping(req[r])

(* The fields of a goroutine that selection looks at are left alone.       *)
SameSearch(g, h) ==
  /\ h.snap = g.snap /\ h.match = g.match /\ h.direct = g.direct
  /\ h.excluded = g.excluded /\ h.attempts = g.attempts /\ h.cand = g.cand

LEMMA SameSelect ==
  ASSUME NEW g, NEW h, SameSearch(g, h)
  PROVE  Candidates(h) = Candidates(g) /\ Select(h) = Select(g)
BY DEF SameSearch, Candidates, Select

LEMMA SearchGoesOn ==
  ASSUME NEW g \in Goroutine, NEW h \in Goroutine, Looping(g), SameSearch(g, h), h.pc # "idle",
         h.pc \in Choosing => g.pc \in Choosing,
         h.pc = "empty" => h.faulty
  PROVE  Looping(h)
BY SameSelect DEF Looping, LoopInv, SameSearch

LEMMA ArriveLoops ==
  ASSUME NEW g \in Goroutine, NEW h \in Goroutine, Looping(g), g.pc = "idle",
         h.excluded = g.excluded, h.attempts = g.attempts,
         \/ h.pc = "select" /\ h.direct = g.direct
         \/ h.pc # "idle" /\ h.direct
  PROVE  Looping(h)
BY DEF Looping, LoopInv, Choosing

LEMMA ChosenLoops ==
  ASSUME NEW g \in Goroutine, NEW a \in Select(g), Looping(g), g.attempts < MaxAttempts
  PROVE  Looping(Chosen(g, a))
<1> DEFINE h == Chosen(g, a)
<1>1. /\ h.pc = "freq" /\ h.cand = a /\ h.snap = g.snap /\ h.match = g.match
      /\ h.direct = g.direct /\ h.excluded = g.excluded /\ h.attempts = g.attempts
  BY DEF Chosen, Goroutine
<1> HIDE DEF h
<1>2. Select(h) = Select(g)
  BY <1>1 DEF Select, Candidates
<1>3. Looping(h)
  BY <1>1, <1>2 DEF Looping, LoopInv
<1> QED BY <1>3 DEF h

LEMMA NoCandidateLoops ==
  ASSUME NEW g \in Goroutine, Looping(g), g.attempts >= MaxAttempts \/ Select(g) = {}
  PROVE  Looping(Goto(g, "empty"))
<1> DEFINE h == Goto(g, "empty")
<1>1. /\ h.pc = "empty" /\ h.snap = g.snap /\ h.match = g.match
      /\ h.direct = g.direct /\ h.excluded = g.excluded /\ h.attempts = g.attempts
  BY DEF Goto, Goroutine
<1>2. Select(g) = {} => Candidates(g) = {}
  BY SelectFindsOne
<1> HIDE DEF h
<1>3. Candidates(h) = Candidates(g)
  BY <1>1 DEF Candidates
<1>4. MaxAttempts \in Nat /\ g.attempts \in Nat
  BY DeliveryAssumption DEF Goroutine
<1>5. Looping(h)
  BY <1>1, <1>2, <1>3, <1>4 DEF Looping, LoopInv, Choosing
<1> QED BY <1>5 DEF h

LEMMA RefusedLoops ==
  ASSUME NEW g \in Goroutine, Looping(g), g.pc \in {"freq", "budget"}
  PROVE  Looping(Refused(g))
<1>1. CASE g.direct
  <2>1. Refused(g).direct /\ Refused(g).pc = "empty"
    BY <1>1 DEF Refused, Goto, Goroutine
  <2> QED BY <2>1 DEF Looping
<1>2. CASE ~g.direct
  <2>1. LoopInv(g) /\ g.cand \in Select(g) /\ g.attempts < MaxAttempts
    BY <1>2 DEF Looping, LoopInv, Choosing
  <2> DEFINE h == Refused(g)
  <2>2. /\ h.pc = "select" /\ h.direct = FALSE
        /\ h.excluded = g.excluded \cup {g.cand} /\ h.attempts = g.attempts + 1
    BY <1>2 DEF Refused, Goto, Goroutine
  <2>3. g.cand \notin g.excluded
    BY <2>1 DEF Select, Candidates
  <2>4. /\ IsFiniteSet(g.excluded \cup {g.cand})
        /\ Cardinality(g.excluded \cup {g.cand}) = g.attempts + 1
    BY <2>1, <2>3, FS_AddElement DEF LoopInv
  <2>5. MaxAttempts \in Nat /\ g.attempts \in Nat
    BY DeliveryAssumption DEF Goroutine
  <2> HIDE DEF h
  <2>6. LoopInv(h)
    BY <2>1, <2>2, <2>4, <2>5 DEF LoopInv, Choosing
  <2>7. Looping(h)
    BY <2>2, <2>6 DEF Looping
  <2> QED BY <2>7 DEF h
<1> QED BY <1>1, <1>2

LEMMA ReplaceLoops ==
  ASSUME TypeOK, SearchInv, NEW r \in Request, NEW h,
         req' = [req EXCEPT ![r] = h], Looping(h)
  PROVE  SearchInv'
<1>1. \A q \in Request : req'[q] = IF q = r THEN h ELSE req[q]
  BY DEF TypeOK
<1>2. \A q \in Request : Looping(req'[q])
  BY <1>1 DEF SearchInv
<1> QED BY <1>2 DEF SearchInv

(* The steps that leave the search as it is.                               *)
LEMMA SearchKept ==
  ASSUME Base, SearchInv, NEW r \in Request, NEW h \in Goroutine,
         req' = [req EXCEPT ![r] = h], SameSearch(req[r], h), h.pc # "idle",
         h.pc \in Choosing => req[r].pc \in Choosing,
         h.pc = "empty" => h.faulty
  PROVE  SearchInv'
<1>1. req[r] \in Goroutine /\ Looping(req[r])
  BY DEF Base, TypeOK, SearchInv
<1>2. Looping(h)
  BY <1>1, SearchGoesOn
<1> QED BY <1>2, ReplaceLoops DEF Base

LEMMA GotoSearch ==
  ASSUME NEW g \in Goroutine, NEW p \in Working \cup Done
  PROVE  /\ SameSearch(g, Goto(g, p)) /\ Goto(g, p).faulty = g.faulty
         /\ SameSearch(g, Goto(Failed(g), p)) /\ Goto(Failed(g), p).faulty
         /\ SameSearch(g, Resent(Failed(g)))
         /\ SameSearch(g, [Goto(g, p) EXCEPT !.faulty = TRUE])
         /\ [Goto(g, p) EXCEPT !.faulty = TRUE].faulty
BY DEF SameSearch, Goto, Failed, Resent, Goroutine

LEMMA NextSearch ==
  ASSUME Base, SearchInv, [Next]_vars
  PROVE  SearchInv'
<1>0. \A r \in Request : req[r] \in Goroutine /\ Looping(req[r])
  BY DEF Base, TypeOK, SearchInv
<1>t. TypeOK /\ registry \in Snapshots
  BY DEF Base, TypeOK
<1>1. ASSUME NEW r \in Request, Arrive(r) PROVE SearchInv'
  <2>1. PICK u \in User, m \in Targets :
          req' = [req EXCEPT ![r] = [Goto(Read(req[r], u), "select") EXCEPT !.match = m]]
    BY <1>1, <1>t DEF Arrive, TypeOK
  <2> DEFINE h == [Goto(Read(req[r], u), "select") EXCEPT !.match = m]
  <2>2. m \in SUBSET Ad
    BY DeliveryAssumption
  <2>3. Goto(Read(req[r], u), "select") \in Goroutine
    BY <1>0, <1>t, ReadUpdate, GotoUpdate DEF Working
  <2>4. h \in Goroutine
    BY <2>2, <2>3, FaultyUpdate
  <2>5. /\ h.excluded = req[r].excluded /\ h.attempts = req[r].attempts
        /\ h.pc = "select" /\ h.direct = req[r].direct
    BY <1>0 DEF Goto, Read, Goroutine
  <2>6. req[r].pc = "idle"
    BY <1>1 DEF Arrive
  <2>7. req' = [req EXCEPT ![r] = h]
    BY <2>1
  <2> HIDE DEF h
  <2>8. Looping(h)
    BY <1>0, <2>4, <2>5, <2>6, ArriveLoops
  <2> QED BY <1>t, <2>7, <2>8, ReplaceLoops
<1>2. ASSUME NEW r \in Request, ArriveDirect(r) PROVE SearchInv'
  <2>1. PICK u \in User, a \in registry.ads :
          req' = [req EXCEPT ![r] = [Chosen(Read(req[r], u), a) EXCEPT !.direct = TRUE]]
    BY <1>2, <1>t DEF ArriveDirect, TypeOK
  <2> DEFINE h == [Chosen(Read(req[r], u), a) EXCEPT !.direct = TRUE]
  <2>2. h.pc = "freq" /\ h.direct
    BY <1>0 DEF Chosen, Read, Goroutine
  <2>3. Looping(h)
    BY <2>2 DEF Looping
  <2>4. req' = [req EXCEPT ![r] = h]
    BY <2>1
  <2> HIDE DEF h
  <2> QED BY <1>t, <2>3, <2>4, ReplaceLoops
<1>3. ASSUME NEW r \in Request, ArriveUnknown(r) PROVE SearchInv'
  <2>1. PICK u \in User :
          req' = [req EXCEPT ![r] = [Goto(Read(req[r], u), "empty") EXCEPT !.direct = TRUE]]
    BY <1>3, <1>t DEF ArriveUnknown, TypeOK
  <2> DEFINE h == [Goto(Read(req[r], u), "empty") EXCEPT !.direct = TRUE]
  <2>2. h.pc = "empty" /\ h.direct
    BY <1>0 DEF Goto, Read, Goroutine
  <2>3. Looping(h)
    BY <2>2 DEF Looping
  <2>4. req' = [req EXCEPT ![r] = h]
    BY <2>1
  <2> HIDE DEF h
  <2> QED BY <1>t, <2>3, <2>4, ReplaceLoops
<1>4. ASSUME NEW r \in Request, SelectCandidate(r) PROVE SearchInv'
  <2>1. PICK a \in Select(req[r]) : req' = [req EXCEPT ![r] = Chosen(req[r], a)]
    BY <1>4, <1>t DEF SelectCandidate, TypeOK
  <2>2. req[r].attempts < MaxAttempts
    BY <1>4 DEF SelectCandidate
  <2>3. Looping(Chosen(req[r], a))
    BY <1>0, <2>2, ChosenLoops
  <2> QED BY <1>t, <2>1, <2>3, ReplaceLoops
<1>5. ASSUME NEW r \in Request, NoCandidate(r) PROVE SearchInv'
  <2>1. req' = [req EXCEPT ![r] = Goto(req[r], "empty")]
    BY <1>5, <1>t DEF NoCandidate, TypeOK
  <2>2. req[r].attempts >= MaxAttempts \/ Select(req[r]) = {}
    BY <1>5 DEF NoCandidate
  <2>3. Looping(Goto(req[r], "empty"))
    BY <1>0, <2>2, NoCandidateLoops
  <2> QED BY <1>t, <2>1, <2>3, ReplaceLoops
<1>6. ASSUME NEW r \in Request, req[r].pc \in {"freq", "budget"},
             req' = [req EXCEPT ![r] = Refused(@)]
      PROVE  SearchInv'
  <2>1. req' = [req EXCEPT ![r] = Refused(req[r])]
    BY <1>6, <1>t DEF TypeOK
  <2>2. Looping(Refused(req[r]))
    BY <1>0, <1>6, RefusedLoops
  <2> QED BY <1>t, <2>1, <2>2, ReplaceLoops
<1>7. ASSUME NEW r \in Request, NEW p \in {"budget", "serve", "inline", "gone"},
             req[r].pc \in Working, p # "gone" => req[r].pc \in Choosing,
             req' = [req EXCEPT ![r] = Goto(@, p)]
      PROVE  SearchInv'
  <2> DEFINE h == Goto(req[r], p)
  <2>1. req' = [req EXCEPT ![r] = h]
    BY <1>7, <1>t DEF TypeOK
  <2>2. p \in Working \cup Done
    BY DEF Working, Done
  <2>3. h \in Goroutine /\ h.pc = p /\ SameSearch(req[r], h)
    BY <1>0, <2>2, GotoUpdate, GotoSearch
  <2> HIDE DEF h
  <2> QED BY <1>7, <2>1, <2>3, SearchKept DEF Choosing
<1>8. ASSUME NEW r \in Request, NEW p \in {"budget", "empty"}, req[r].pc \in {"freq", "budget"},
             req' = [req EXCEPT ![r] = Goto(Failed(@), p)]
      PROVE  SearchInv'
  <2> DEFINE h == Goto(Failed(req[r]), p)
  <2>1. req' = [req EXCEPT ![r] = h]
    BY <1>8, <1>t DEF TypeOK
  <2>2. p \in Working \cup Done
    BY DEF Working, Done
  <2>3. h \in Goroutine /\ h.pc = p /\ SameSearch(req[r], h) /\ h.faulty
    BY <1>0, <2>2, FailedUpdate, GotoUpdate, GotoSearch
  <2> HIDE DEF h
  <2> QED BY <1>8, <2>1, <2>3, SearchKept DEF Choosing
<1>9. ASSUME NEW r \in Request, req[r].pc \in {"freq", "budget"},
             req' = [req EXCEPT ![r] = Resent(Failed(@))]
      PROVE  SearchInv'
  <2> DEFINE h == Resent(Failed(req[r]))
  <2>1. req' = [req EXCEPT ![r] = h]
    BY <1>9, <1>t DEF TypeOK
  <2>2. "empty" \in Working \cup Done
    BY DEF Done
  <2>3. h \in Goroutine /\ h.pc = req[r].pc /\ SameSearch(req[r], h)
    BY <1>0, <2>2, FailedUpdate, ResentUpdate, GotoSearch
  <2> HIDE DEF h
  <2> QED BY <1>9, <2>1, <2>3, SearchKept DEF Choosing
<1>10. ASSUME NEW r \in Request, ServeFails(r) PROVE SearchInv'
  <2> DEFINE h == [Goto(req[r], "empty") EXCEPT !.faulty = TRUE]
  <2>1. req' = [req EXCEPT ![r] = h]
    BY <1>10, <1>t DEF ServeFails, TypeOK
  <2>2. "empty" \in Working \cup Done
    BY DEF Done
  <2>3. Goto(req[r], "empty") \in Goroutine /\ Goto(req[r], "empty").pc = "empty"
    BY <1>0, <2>2, GotoUpdate
  <2>4. h \in Goroutine /\ h.pc = "empty"
    BY <2>3, FaultyUpdate
  <2>5. SameSearch(req[r], h) /\ h.faulty
    BY <1>0, <2>2, GotoSearch
  <2> HIDE DEF h
  <2> QED BY <2>1, <2>4, <2>5, SearchKept DEF Choosing
<1>11. ASSUME NEW r \in Request, Handle(r) PROVE SearchInv'
  <2>1. CASE FreqUncapped(r) \/ FreqGranted(r)
    BY <1>7, <2>1 DEF FreqUncapped, FreqGranted, Working, Choosing
  <2>2. CASE BudgetReserved(r)
    BY <1>7, <2>2 DEF BudgetReserved, Working, Choosing
  <2>3. CASE ServeInline(r)
    BY <1>7, <2>3 DEF ServeInline, Working, Choosing
  <2>4. CASE FreqRejected(r) \/ BudgetExhausted(r)
    BY <1>6, <2>4 DEF FreqRejected, BudgetExhausted
  <2>5. CASE FreqError(r) \/ BudgetError(r)
    BY <1>8, <2>5 DEF FreqError, BudgetError
  <2>6. CASE FreqResent(r) \/ BudgetResent(r)
    BY <1>9, <2>6 DEF FreqResent, BudgetResent
  <2> QED BY <1>4, <1>5, <1>10, <1>11, <2>1, <2>2, <2>3, <2>4, <2>5, <2>6 DEF Handle
<1>12. ASSUME NEW r \in Request, Crash(r) PROVE SearchInv'
  BY <1>7, <1>12 DEF Crash
<1>13. CASE UNCHANGED req
  BY <1>13 DEF SearchInv
<1>14. ASSUME NEW s \in Snapshots, StoreSnapshot(s) PROVE SearchInv'
  BY <1>13, <1>14 DEF StoreSnapshot
<1>15. ASSUME NEW u \in User, NEW a \in Ad, WindowExpires(u, a) PROVE SearchInv'
  BY <1>13, <1>15 DEF WindowExpires
<1> QED BY <1>1, <1>2, <1>3, <1>11, <1>12, <1>13, <1>14, <1>15 DEF Next, vars

LEMMA InitSearch == Init => SearchInv
<1> SUFFICES ASSUME Init, NEW r \in Request PROVE Looping(req[r])
  BY DEF SearchInv
<1>1. /\ req[r].pc = "idle" /\ req[r].direct = FALSE
      /\ req[r].excluded = {} /\ req[r].attempts = 0
  BY DEF Init
<1>2. IsFiniteSet({}) /\ Cardinality({}) = 0
  BY FS_EmptySet
<1> QED BY <1>1, <1>2, DeliveryAssumption DEF Looping, LoopInv, Choosing

(* A best candidate among those not refused leaves only refused ones above *)
(* it, and a search without candidates has had them all refused.           *)
LEMMA SearchSound == Base /\ SearchInv => PriorityHeld /\ NoFillJustified
<1> SUFFICES ASSUME Base, SearchInv PROVE PriorityHeld /\ NoFillJustified
  OBVIOUS
<1>0. \A r \in Request : req[r] \in Goroutine /\ Looping(req[r])
  BY DEF Base, TypeOK, SearchInv
<1>1. ASSUME NEW r \in Request, req[r].pc \in {"serve", "inline"}, ~req[r].direct
      PROVE  /\ req[r].cand \notin req[r].excluded
             /\ \A b \in req[r].snap.ads \cap req[r].match :
                  req[r].snap.priority[b] > req[r].snap.priority[req[r].cand]
                    => b \in req[r].excluded
  <2>1. req[r].cand \in Select(req[r])
    BY <1>0, <1>1 DEF Looping, LoopInv, Choosing
  <2>2. req[r].snap \in Snapshot
    BY <1>0, DeliveryAssumption DEF Goroutine
  <2>3. req[r].snap.priority \in [Ad -> Int] /\ req[r].snap.ads \subseteq Ad
    BY <2>2 DEF Snapshot
  <2> QED BY <2>1, <2>3 DEF Select, Candidates
<1>2. ASSUME NEW r \in Request, req[r].pc = "empty", ~req[r].direct, ~req[r].faulty
      PROVE  \/ req[r].snap.ads \cap req[r].match \subseteq req[r].excluded
             \/ Cardinality(req[r].excluded) = MaxAttempts
  BY <1>0, <1>2 DEF Looping, LoopInv, Candidates
<1>3. PriorityHeld
  BY <1>1 DEF PriorityHeld
<1>4. NoFillJustified
  BY <1>2 DEF NoFillJustified
<1> QED BY <1>3, <1>4

(* A request never serves an ad it was refused, nor passes over a better   *)
(* match it was not, whatever requests, reloads and expiries run between   *)
(* two attempts (handler.go, the retry loop).                              *)
THEOREM PrioritySafe == Spec => []PriorityHeld
<1>1. Init => Base /\ SearchInv
  BY InitBase, InitSearch
<1>2. Base /\ SearchInv /\ [Next]_vars => (Base /\ SearchInv)'
  BY NextBase, NextSearch
<1> QED BY <1>1, <1>2, SearchSound, PTL DEF Spec

(* A no-fill without a failure is owed to Redis's refusals alone: of every *)
(* ad that matches, or of as many different ones as there are attempts     *)
(* (handler.go, maxBudgetRetries).                                         *)
THEOREM NoFillSafe == Spec => []NoFillJustified
<1>1. Init => Base /\ SearchInv
  BY InitBase, InitSearch
<1>2. Base /\ SearchInv /\ [Next]_vars => (Base /\ SearchInv)'
  BY NextBase, NextSearch
<1> QED BY <1>1, <1>2, SearchSound, PTL DEF Spec

-----------------------------------------------------------------------------
(***************************************************************************)
(* The viewers.                                                            *)
(***************************************************************************)
(* Every behaviour of the viewers and the handler is one of the handler,   *)
(* so the theorems about it hold of both: budgets are kept, a uid is held  *)
(* to its cap, and /vast shows campaigns as Allowance says.                *)
THEOREM ViewersKeepDelivery ==
  VSpec => Spec /\ [](BudgetCeiling /\ ResponsesReserved /\ FreqCapHeld) /\ ImplementsAllowance
<1>1. VInit => Init
  BY DEF VInit
<1>2. [VNext]_<<vars, viewerVars>> => [Next]_vars
  <2> SUFFICES ASSUME VNext PROVE Next \/ UNCHANGED vars
    OBVIOUS
  <2>1. CASE \E r \in Request, b \in Browser : Send(r, b)
    BY <2>1 DEF Send, Next
  <2>2. CASE \E r \in Request : Receive(r)
    BY <2>2 DEF Receive
  <2>3. CASE Unseen
    BY <2>3 DEF Unseen, Next
  <2> QED BY <2>1, <2>2, <2>3 DEF VNext
<1>3. VSpec => Spec
  BY <1>1, <1>2, PTL DEF VSpec, Spec
<1> QED BY <1>3, BudgetSafe, FreqSafe, DeliveryImplementsAllowance, PTL

(* Type correctness with the browsers: a cookie is a uid that was minted   *)
(* or none, whichever answers arrive in which order.                       *)
Types ==
  /\ jar \in [Browser -> User \cup {NoUser}]
  /\ exchange \in [Request -> Exchange]
  /\ strays \in [Browser -> Nat]

THEOREM ViewerTypeCorrect == VSpec => []VTypeOK
<1>1. VInit => Types
  BY DEF VInit, Types, Exchange
<1>2. Types /\ [VNext]_<<vars, viewerVars>> => Types'
  <2> SUFFICES ASSUME Types, [VNext]_<<vars, viewerVars>> PROVE Types'
    OBVIOUS
  <2>1. ASSUME NEW r \in Request, NEW b \in Browser, Send(r, b) PROVE Types'
    <3>1. PICK explicit \in Named \cup {NoUser}, cookie \in {NoUser, jar[b]} :
            \E id \in Resolve(explicit, cookie) :
              /\ exchange' = [exchange EXCEPT ![r] =
                   [by |-> b, cookie |-> IF id.set THEN id.uid ELSE NoUser, got |-> FALSE]]
              /\ strays' = [strays EXCEPT ![b] =
                              IF id.set /\ Stray(b, cookie) THEN @ + 1 ELSE @]
              /\ UNCHANGED jar
      BY <2>1 DEF Send
    <3>2. PICK id \in Resolve(explicit, cookie) :
              /\ exchange' = [exchange EXCEPT ![r] =
                   [by |-> b, cookie |-> IF id.set THEN id.uid ELSE NoUser, got |-> FALSE]]
              /\ strays' = [strays EXCEPT ![b] =
                              IF id.set /\ Stray(b, cookie) THEN @ + 1 ELSE @]
              /\ UNCHANGED jar
      BY <3>1
    <3>3. id.set => id.uid \in User
      BY <3>2 DEF Resolve, Fresh
    <3> DEFINE cook == IF id.set THEN id.uid ELSE NoUser
               more == IF id.set /\ Stray(b, cookie) THEN strays[b] + 1 ELSE strays[b]
    <3>4. cook \in User \cup {NoUser}
      BY <3>3
    <3>5. more \in Nat
      BY DEF Types
    <3>6. strays' = [strays EXCEPT ![b] = more]
      BY <3>2 DEF Types
    <3> HIDE DEF cook, more
    <3>7. [by |-> b, cookie |-> cook, got |-> FALSE] \in Exchange
      BY <3>4 DEF Exchange
    <3>8. exchange' = [exchange EXCEPT ![r] = [by |-> b, cookie |-> cook, got |-> FALSE]]
      BY <3>2 DEF cook
    <3>9. exchange' \in [Request -> Exchange]
      BY <3>7, <3>8 DEF Types
    <3>10. strays' \in [Browser -> Nat]
      BY <3>5, <3>6 DEF Types
    <3>11. jar' = jar
      BY <3>2
    <3> QED BY <3>9, <3>10, <3>11 DEF Types
  <2>2. ASSUME NEW r \in Request, Receive(r) PROVE Types'
    <3>1. exchange[r] \in Exchange /\ exchange[r].cookie \in User
      BY <2>2 DEF Types, Exchange, Receive
    <3>2. [exchange[r] EXCEPT !.got = TRUE] \in Exchange
      BY <3>1 DEF Exchange
    <3>3. exchange' = [exchange EXCEPT ![r] = [exchange[r] EXCEPT !.got = TRUE]]
      BY <2>2 DEF Receive, Types
    <3> QED BY <2>2, <3>1, <3>2, <3>3 DEF Receive, Types, SetUIDCookie
  <2>3. CASE Unseen \/ UNCHANGED <<vars, viewerVars>>
    BY <2>3 DEF Unseen, Types, viewerVars
  <2> QED BY <2>1, <2>2, <2>3 DEF VNext
<1>3. VSpec => Spec
  BY ViewersKeepDelivery, PTL
<1> QED BY <1>1, <1>2, <1>3, TypeCorrect, PTL DEF VSpec, VTypeOK, Types

-----------------------------------------------------------------------------
(***************************************************************************)
(* The cap of a person.  Every slot a browser was granted outside the      *)
(* named uids was granted to an identity it was minted; the first mint is  *)
(* free, each other one is a stray; and an identity is held to its cap.    *)
(***************************************************************************)

(* Finitely many sets of at most k elements.                               *)
LEMMA UnionBound ==
  ASSUME NEW I, IsFiniteSet(I), NEW f, NEW k \in Nat,
         \A i \in I : IsFiniteSet(f[i]) /\ Cardinality(f[i]) <= k
  PROVE  /\ IsFiniteSet(UNION {f[i] : i \in I})
         /\ Cardinality(UNION {f[i] : i \in I}) <= Cardinality(I) * k
<1> DEFINE U(J) == UNION {f[i] : i \in J}
           P(J) == IsFiniteSet(U(J)) /\ Cardinality(U(J)) <= Cardinality(J) * k
           T == {J \in SUBSET I : ~P(J)}
<1>1. P({})
  <2>1. U({}) = {} /\ 0 * k = 0
    OBVIOUS
  <2>2. IsFiniteSet({}) /\ Cardinality({}) = 0
    BY FS_EmptySet
  <2>3. 0 <= Cardinality({}) * k
    BY <2>1, <2>2
  <2> HIDE DEF U
  <2> QED BY <2>1, <2>2, <2>3
<1>2. ASSUME NEW J \in SUBSET I, NEW i \in J, P(J \ {i}) PROVE P(J)
  <2> DEFINE K == J \ {i}
  <2>1. U(J) = U(K) \cup f[i]
    OBVIOUS
  <2>2. IsFiniteSet(J) /\ Cardinality(J) \in Nat /\ IsFiniteSet(K) /\ Cardinality(K) \in Nat
    BY FS_Subset, FS_CardinalityType
  <2>3. Cardinality(J) = Cardinality(K) + 1
    BY <2>2, FS_RemoveElement
  <2>4. IsFiniteSet(f[i]) /\ Cardinality(f[i]) \in Nat /\ Cardinality(f[i]) <= k
    BY FS_CardinalityType
  <2>5. /\ IsFiniteSet(U(K)) /\ Cardinality(U(K)) \in Nat
        /\ Cardinality(U(K)) <= Cardinality(K) * k
    BY <1>2, FS_CardinalityType
  <2> HIDE DEF U, K
  <2>6. /\ IsFiniteSet(U(K) \cup f[i])
        /\ Cardinality(U(K) \cup f[i]) = Cardinality(U(K)) + Cardinality(f[i])
                                           - Cardinality(U(K) \cap f[i])
    BY <2>4, <2>5, FS_Union
  <2>7. Cardinality(U(K) \cap f[i]) \in Nat
    BY <2>5, FS_Intersection, FS_CardinalityType
  <2>8. Cardinality(U(K) \cup f[i]) <= Cardinality(U(K)) + Cardinality(f[i])
    BY <2>4, <2>5, <2>6, <2>7
  <2>9. \A m \in Nat : (m + 1) * k = m * k + k /\ m * k \in Nat
    OBVIOUS
  <2>10. Cardinality(J) * k = Cardinality(K) * k + k /\ Cardinality(K) * k \in Nat
    BY <2>2, <2>3, <2>9
  <2>11. Cardinality(U(K) \cup f[i]) <= Cardinality(J) * k
    BY <2>2, <2>4, <2>5, <2>6, <2>7, <2>8, <2>10
  <2> QED BY <2>1, <2>6, <2>11
<1>3. T = {}
  <2> SUFFICES ASSUME T # {} PROVE FALSE
    OBVIOUS
  <2>1. T \subseteq FiniteSubsetsOf(I)
    BY FS_FiniteSubsetsOfFinite
  <2>2. PICK J \in T : \A K \in T : <<K, J>> \notin StrictSubsetOrdering(I)
    <3> HIDE DEF T
    <3> QED BY <2>1, FS_StrictSubsetOrderingWellFounded, WFMin
  <2>3. J \in SUBSET I /\ ~P(J)
    BY <2>2
  <2> HIDE DEF P
  <2>4. PICK i \in J : TRUE
    BY <1>1, <2>3
  <2>5. J \ {i} \in T
    BY <1>2, <2>3
  <2>6. <<J \ {i}, J>> \in StrictSubsetOrdering(I)
    BY <2>3, <2>4 DEF StrictSubsetOrdering
  <2> QED BY <2>2, <2>5, <2>6
<1>4. P(I)
  BY <1>3
<1> QED BY <1>4

(* The exchanges in which b was minted an identity, these identities, and  *)
(* whether one has not reached b yet.                                      *)
Mints(b) == {q \in Request : exchange[q].by = b /\ exchange[q].cookie # NoUser}
Ids(b)   == {exchange[q].cookie : q \in Mints(b)}
Outstanding(b) == \E q \in Mints(b) : ~exchange[q].got

(* A slot belongs to the uid its request runs under, and that uid is named *)
(* or was minted for the browser that sent it.                             *)
SlotsOfUser ==
  \A u \in User, a \in Ad : \A r \in slots[u][a] : req[r].pc # "idle" /\ req[r].user = u
UsersKnown ==
  \A r \in Request, b \in Browser \cup {Nobody} :
    (req[r].pc # "idle" /\ exchange[r].by = b) => req[r].user \in Named \cup Ids(b)
MintedWhenSent == \A r \in Request : exchange[r].cookie # NoUser => req[r].pc # "idle"

(* The cookie is one of the mints; a browser without one was never minted  *)
(* any, or the answer is still on its way; and each mint after the first   *)
(* made b a stray.                                                         *)
Known(b) ==
  /\ jar[b] # NoUser => jar[b] \in Ids(b)
  /\ Mints(b) # {} => jar[b] # NoUser \/ Outstanding(b)
  /\ Cardinality(Mints(b)) <= 1 + strays[b]

ViewerInv ==
  /\ SlotsOfUser /\ UsersKnown /\ MintedWhenSent
  /\ \A b \in Browser : Known(b)

LEMMA MintsFinite ==
  ASSUME NEW b
  PROVE  /\ IsFiniteSet(Mints(b)) /\ Cardinality(Mints(b)) \in Nat
         /\ IsFiniteSet(Ids(b)) /\ Cardinality(Ids(b)) <= Cardinality(Mints(b))
         /\ Cardinality(Ids(b)) \in Nat
<1>1. IsFiniteSet(Mints(b))
  BY DeliveryAssumption, FS_Subset DEF Mints
<1>2. IsFiniteSet(Ids(b)) /\ Cardinality(Ids(b)) <= Cardinality(Mints(b))
  <2> DEFINE f == [q \in Mints(b) |-> exchange[q].cookie]
  <2>1. f \in Surjection(Mints(b), Ids(b))
    BY DEF Ids, Surjection
  <2> QED BY <1>1, <2>1, FS_Surjection
<1> QED BY <1>1, <1>2, FS_CardinalityType

(* The handler keeps every request under its uid.                          *)
LEMMA HandlerKeepsUsers ==
  ASSUME Base, NEW r \in Request, Handle(r) \/ Crash(r)
  PROVE  /\ \A q \in Request : req'[q].user = req[q].user
         /\ \A q \in Request : req'[q].pc = "idle" <=> req[q].pc = "idle"
         /\ req[r].pc # "idle"
<1>0. req[r] \in Goroutine /\ req \in [Request -> Goroutine]
  BY DEF Base, TypeOK
<1>1. ASSUME NEW h, req' = [req EXCEPT ![r] = h], h.user = req[r].user,
             h.pc # "idle", req[r].pc # "idle"
      PROVE  /\ \A q \in Request : req'[q].user = req[q].user
             /\ \A q \in Request : req'[q].pc = "idle" <=> req[q].pc = "idle"
             /\ req[r].pc # "idle"
  BY <1>0, <1>1
<1>2. ASSUME NEW g \in Goroutine, NEW p, NEW a
      PROVE  /\ Goto(g, p).user = g.user /\ Goto(g, p).pc = p
             /\ Goto(Failed(g), p).user = g.user /\ Goto(Failed(g), p).pc = p
             /\ Resent(Failed(g)).user = g.user /\ Resent(Failed(g)).pc = g.pc
             /\ Chosen(g, a).user = g.user /\ Chosen(g, a).pc = "freq"
             /\ [Goto(g, p) EXCEPT !.faulty = TRUE].user = g.user
             /\ [Goto(g, p) EXCEPT !.faulty = TRUE].pc = p
  BY DEF Goto, Failed, Resent, Chosen, Goroutine
<1>3. ASSUME NEW g \in Goroutine
      PROVE  Refused(g).user = g.user /\ Refused(g).pc # "idle"
  BY DEF Refused, Goto, Goroutine
<1>4. ASSUME NEW p \in {"budget", "serve", "inline", "empty", "gone"}, req[r].pc # "idle",
             \/ req' = [req EXCEPT ![r] = Goto(req[r], p)]
             \/ req' = [req EXCEPT ![r] = Goto(Failed(req[r]), p)]
      PROVE  /\ \A q \in Request : req'[q].user = req[q].user
             /\ \A q \in Request : req'[q].pc = "idle" <=> req[q].pc = "idle"
             /\ req[r].pc # "idle"
  BY <1>0, <1>1, <1>2, <1>4
<1>5. CASE SelectCandidate(r)
  <2>1. PICK a \in Select(req[r]) : req' = [req EXCEPT ![r] = Chosen(req[r], a)]
    BY <1>0, <1>5 DEF SelectCandidate
  <2> QED BY <1>0, <1>1, <1>2, <1>5, <2>1 DEF SelectCandidate
<1>6. CASE NoCandidate(r) \/ FreqUncapped(r) \/ FreqGranted(r) \/ BudgetReserved(r)
             \/ ServeInline(r) \/ Crash(r) \/ FreqError(r) \/ BudgetError(r)
  <2>1. /\ req[r].pc # "idle"
        /\ \E p \in {"budget", "serve", "inline", "empty", "gone"} :
             \/ req' = [req EXCEPT ![r] = Goto(req[r], p)]
             \/ req' = [req EXCEPT ![r] = Goto(Failed(req[r]), p)]
    BY <1>0, <1>6 DEF NoCandidate, FreqUncapped, FreqGranted, BudgetReserved, ServeInline,
                      Crash, FreqError, BudgetError, Working
  <2> QED BY <1>4, <2>1
<1>7. CASE FreqRejected(r) \/ BudgetExhausted(r)
  <2>1. req' = [req EXCEPT ![r] = Refused(req[r])] /\ req[r].pc # "idle"
    BY <1>0, <1>7 DEF FreqRejected, BudgetExhausted
  <2> QED BY <1>0, <1>1, <1>3, <2>1
<1>8. CASE FreqResent(r) \/ BudgetResent(r)
  <2>1. req' = [req EXCEPT ![r] = Resent(Failed(req[r]))] /\ req[r].pc # "idle"
    BY <1>0, <1>8 DEF FreqResent, BudgetResent
  <2> QED BY <1>0, <1>1, <1>2, <2>1
<1>9. CASE ServeFails(r)
  <2>1. /\ req' = [req EXCEPT ![r] = [Goto(req[r], "empty") EXCEPT !.faulty = TRUE]]
        /\ req[r].pc # "idle"
    BY <1>0, <1>9 DEF ServeFails
  <2> QED BY <1>0, <1>1, <1>2, <2>1
<1> QED BY <1>5, <1>6, <1>7, <1>8, <1>9 DEF Handle

LEMMA UnseenKeepsViewers ==
  ASSUME Base, ViewerInv, Unseen
  PROVE  ViewerInv'
<1>1. UNCHANGED <<jar, exchange, strays>>
  BY DEF Unseen, viewerVars
<1>2. \A b \in Browser : Known(b)'
  BY <1>1 DEF ViewerInv, Known, Mints, Ids, Outstanding
<1>3. ASSUME \A q \in Request : req'[q].user = req[q].user,
             \A q \in Request : req'[q].pc = "idle" <=> req[q].pc = "idle",
             \A u \in User, a \in Ad : \A q \in slots'[u][a] :
               q \in slots[u][a] \/ (q \in Request /\ req[q].pc # "idle" /\ req[q].user = u),
             slots \in [User -> [Ad -> SUBSET Request]]
      PROVE  ViewerInv'
  <2>1. \A u \in User, a \in Ad : slots[u][a] \subseteq Request
    BY <1>3
  <2>2. SlotsOfUser'
    <3> SUFFICES ASSUME NEW u \in User, NEW a \in Ad, NEW q \in slots'[u][a]
                 PROVE  req'[q].pc # "idle" /\ req'[q].user = u
      BY DEF SlotsOfUser
    <3>1. q \in Request
      BY <1>3, <2>1
    <3>2. req[q].pc # "idle" /\ req[q].user = u
      BY <1>3 DEF ViewerInv, SlotsOfUser
    <3> QED BY <1>3, <3>1, <3>2
  <2>3. UsersKnown'
    BY <1>1, <1>3 DEF ViewerInv, UsersKnown, Ids, Mints
  <2>4. MintedWhenSent'
    BY <1>1, <1>3 DEF ViewerInv, MintedWhenSent
  <2> QED BY <1>2, <2>2, <2>3, <2>4 DEF ViewerInv
<1>4. slots \in [User -> [Ad -> SUBSET Request]]
  BY DEF Base, TypeOK
<1>5. ASSUME NEW r \in Request, Handle(r) \/ Crash(r) PROVE ViewerInv'
  <2>1. slots' = slots \/ slots' = [slots EXCEPT ![req[r].user][req[r].cand] = @ \cup {r}]
    BY <1>5 DEF Handle, Crash, SelectCandidate, NoCandidate, FreqUncapped, FreqGranted,
                FreqRejected, FreqError, FreqResent, BudgetReserved, BudgetExhausted,
                BudgetError, BudgetResent, ServeInline, ServeFails
  <2>2. \A u \in User, a \in Ad : \A q \in slots'[u][a] :
          q \in slots[u][a] \/ (q = r /\ req[r].user = u)
    BY <1>4, <2>1
  <2> QED BY <1>3, <1>4, <1>5, <2>2, HandlerKeepsUsers
<1>6. ASSUME NEW s \in Snapshots, StoreSnapshot(s) PROVE ViewerInv'
  BY <1>3, <1>4, <1>6 DEF StoreSnapshot
<1>7. ASSUME NEW u \in User, NEW a \in Ad, WindowExpires(u, a) PROVE ViewerInv'
  <2>1. req' = req /\ slots' = [slots EXCEPT ![u][a] = {}]
    BY <1>7 DEF WindowExpires
  <2> QED BY <1>3, <1>4, <2>1
<1> QED BY <1>5, <1>6, <1>7 DEF Unseen

LEMMA ArrivalOnly ==
  ASSUME Base, NEW r \in Request, Arrive(r) \/ ArriveDirect(r) \/ ArriveUnknown(r)
  PROVE  /\ req[r].pc = "idle" /\ req'[r].pc # "idle" /\ slots' = slots
         /\ \A q \in Request : q # r => req'[q] = req[q]
<1>0. req[r] \in Goroutine /\ req \in [Request -> Goroutine]
  BY DEF Base, TypeOK
<1>1. ASSUME NEW g \in Goroutine, NEW u, NEW p, NEW m, NEW a
      PROVE  /\ [Goto(Read(g, u), p) EXCEPT !.match = m].pc = p
             /\ [Goto(Read(g, u), p) EXCEPT !.direct = TRUE].pc = p
             /\ [Chosen(Read(g, u), a) EXCEPT !.direct = TRUE].pc = "freq"
  BY DEF Goto, Read, Chosen, Goroutine
<1>2. CASE Arrive(r)
  <2>1. PICK u \in User, m \in Targets :
          req' = [req EXCEPT ![r] = [Goto(Read(req[r], u), "select") EXCEPT !.match = m]]
    BY <1>0, <1>2 DEF Arrive
  <2> QED BY <1>0, <1>1, <1>2, <2>1 DEF Arrive
<1>3. CASE ArriveDirect(r)
  <2>1. PICK u \in User, a \in registry.ads :
          req' = [req EXCEPT ![r] = [Chosen(Read(req[r], u), a) EXCEPT !.direct = TRUE]]
    BY <1>0, <1>3 DEF ArriveDirect
  <2> QED BY <1>0, <1>1, <1>3, <2>1 DEF ArriveDirect
<1>4. CASE ArriveUnknown(r)
  <2>1. PICK u \in User :
          req' = [req EXCEPT ![r] = [Goto(Read(req[r], u), "empty") EXCEPT !.direct = TRUE]]
    BY <1>0, <1>4 DEF ArriveUnknown
  <2> QED BY <1>0, <1>1, <1>4, <2>1 DEF ArriveUnknown
<1> QED BY <1>2, <1>3, <1>4

(* A first mint is free; another one is made only for a request that came  *)
(* as a stranger.                                                          *)
LEMMA SendKeepsViewers ==
  ASSUME Base, Types, ViewerInv, NEW r \in Request, NEW b \in Browser, Send(r, b)
  PROVE  ViewerInv'
<1>1. PICK explicit \in Named \cup {NoUser}, cookie \in {NoUser, jar[b]} :
        \E id \in Resolve(explicit, cookie) :
          /\ Arrive(r) \/ ArriveDirect(r) \/ ArriveUnknown(r)
          /\ req'[r].user = id.uid
          /\ exchange' = [exchange EXCEPT ![r] =
               [by |-> b, cookie |-> IF id.set THEN id.uid ELSE NoUser, got |-> FALSE]]
          /\ strays' = [strays EXCEPT ![b] = IF id.set /\ Stray(b, cookie) THEN @ + 1 ELSE @]
          /\ UNCHANGED jar
  BY DEF Send
<1>2. PICK id \in Resolve(explicit, cookie) :
          /\ Arrive(r) \/ ArriveDirect(r) \/ ArriveUnknown(r)
          /\ req'[r].user = id.uid
          /\ exchange' = [exchange EXCEPT ![r] =
               [by |-> b, cookie |-> IF id.set THEN id.uid ELSE NoUser, got |-> FALSE]]
          /\ strays' = [strays EXCEPT ![b] = IF id.set /\ Stray(b, cookie) THEN @ + 1 ELSE @]
          /\ UNCHANGED jar
  BY <1>1
<1> DEFINE cook == IF id.set THEN id.uid ELSE NoUser
<1>3. /\ req[r].pc = "idle" /\ req'[r].pc # "idle" /\ slots' = slots
      /\ \A q \in Request : q # r => req'[q] = req[q]
  BY <1>2, ArrivalOnly
<1>4. /\ exchange'[r].by = b /\ exchange'[r].cookie = cook /\ ~exchange'[r].got
      /\ \A q \in Request : q # r => exchange'[q] = exchange[q]
  BY <1>2 DEF Types
<1>5. exchange[r].cookie = NoUser
  BY <1>3 DEF ViewerInv, MintedWhenSent
<1>6. /\ cook = NoUser => id.uid \in Named \cup {jar[b]} /\ id.uid \in User
      /\ cook # NoUser => cook = id.uid /\ id.set /\ cookie = NoUser
  <2>1. CASE explicit # NoUser
    <3>1. id = [uid |-> explicit, set |-> FALSE]
      BY <2>1 DEF Resolve
    <3> QED BY <2>1, <3>1, ViewerAssumption
  <2>2. CASE explicit = NoUser /\ cookie # NoUser
    <3>1. id = [uid |-> cookie, set |-> FALSE]
      BY <2>2 DEF Resolve
    <3>2. cookie = jar[b] /\ cookie \in User
      BY <2>2 DEF Types
    <3> QED BY <2>2, <3>1, <3>2
  <2>3. CASE explicit = NoUser /\ cookie = NoUser
    <3>1. PICK u \in Fresh : id = [uid |-> u, set |-> TRUE]
      BY <2>3 DEF Resolve
    <3>2. id.set /\ id.uid # NoUser
      BY <3>1, ViewerAssumption DEF Fresh
    <3> QED BY <2>3, <3>2
  <2> QED BY <2>1, <2>2, <2>3
<1> HIDE DEF cook
<1>7. /\ Mints(b)' = IF cook = NoUser THEN Mints(b) ELSE Mints(b) \cup {r}
      /\ \A c : c # b => Mints(c)' = Mints(c)
      /\ \A c : r \notin Mints(c)
  BY <1>4, <1>5 DEF Mints
<1>8. \A c : Ids(c) \subseteq Ids(c)'
  <2> SUFFICES ASSUME NEW c, NEW q \in Mints(c) PROVE exchange[q].cookie \in Ids(c)'
    BY DEF Ids
  <2>1. q \in Request /\ q # r /\ q \in Mints(c)'
    BY <1>7 DEF Mints
  <2> QED BY <1>4, <2>1 DEF Ids
<1>9. cook # NoUser => cook \in Ids(b)'
  BY <1>4, <1>7 DEF Ids
<1>10. SlotsOfUser'
  <2> SUFFICES ASSUME NEW u \in User, NEW a \in Ad, NEW q \in slots[u][a]
               PROVE  req'[q].pc # "idle" /\ req'[q].user = u
    BY <1>3 DEF SlotsOfUser
  <2>1. q \in Request
    BY DEF Base, TypeOK
  <2>2. req[q].pc # "idle" /\ req[q].user = u
    BY DEF ViewerInv, SlotsOfUser
  <2> QED BY <1>3, <2>1, <2>2
<1>11. UsersKnown'
  <2> SUFFICES ASSUME NEW q \in Request, NEW c \in Browser \cup {Nobody},
                      req'[q].pc # "idle", exchange'[q].by = c
               PROVE  req'[q].user \in Named \cup Ids(c)'
    BY DEF UsersKnown
  <2>1. CASE q # r
    BY <1>3, <1>4, <1>8, <2>1 DEF ViewerInv, UsersKnown
  <2>2. CASE q = r /\ cook # NoUser
    BY <1>2, <1>4, <1>6, <1>9, <2>2
  <2>3. CASE q = r /\ cook = NoUser
    <3>1. id.uid \in Named \/ (id.uid = jar[b] /\ jar[b] # NoUser)
      BY <1>6, <2>3, ViewerAssumption
    <3>2. jar[b] # NoUser => jar[b] \in Ids(b)
      BY DEF ViewerInv, Known
    <3> QED BY <1>2, <1>4, <1>8, <2>3, <3>1, <3>2
  <2> QED BY <2>1, <2>2, <2>3
<1>12. MintedWhenSent'
  BY <1>3, <1>4 DEF ViewerInv, MintedWhenSent
<1>13. ASSUME NEW c \in Browser, c # b PROVE Known(c)'
  <2>1. Mints(c)' = Mints(c) /\ jar'[c] = jar[c] /\ strays'[c] = strays[c] /\ Known(c)
    BY <1>2, <1>7, <1>13 DEF ViewerInv, Types
  <2>2. Outstanding(c) => Outstanding(c)'
    <3> SUFFICES ASSUME NEW q \in Mints(c), ~exchange[q].got PROVE Outstanding(c)'
      BY DEF Outstanding
    <3>1. q \in Mints(c)' /\ q # r /\ q \in Request
      BY <1>7, <2>1 DEF Mints
    <3> QED BY <1>4, <3>1 DEF Outstanding
  <2> QED BY <1>8, <2>1, <2>2 DEF Known
<1>14. Known(b)'
  <2>1. jar' = jar /\ Known(b) /\ strays[b] \in Nat
    BY <1>2 DEF ViewerInv, Types
  <2>2. CASE cook = NoUser
    <3>1. Mints(b)' = Mints(b)
      BY <1>7, <2>2
    <3>2. strays'[b] >= strays[b] /\ strays'[b] \in Nat
      <4>1. strays'[b] \in {strays[b], strays[b] + 1}
        BY <1>2 DEF Types
      <4> QED BY <2>1, <4>1
    <3>3. Outstanding(b) => Outstanding(b)'
      <4> SUFFICES ASSUME NEW q \in Mints(b), ~exchange[q].got PROVE Outstanding(b)'
        BY DEF Outstanding
      <4>1. q \in Mints(b)' /\ q # r /\ q \in Request
        BY <1>7, <3>1 DEF Mints
      <4> QED BY <1>4, <4>1 DEF Outstanding
    <3>4. Cardinality(Mints(b))' <= 1 + strays'[b]
      BY <2>1, <3>1, <3>2, MintsFinite DEF Known
    <3> QED BY <1>8, <2>1, <3>1, <3>3, <3>4 DEF Known
  <2>3. CASE cook # NoUser
    <3>1. Mints(b)' = Mints(b) \cup {r}
      BY <1>7, <2>3
    <3>2. r \in Mints(b)' /\ ~exchange'[r].got
      BY <1>4, <3>1
    <3>3. Outstanding(b)'
      BY <3>2 DEF Outstanding
    <3>4. Cardinality(Mints(b))' = Cardinality(Mints(b)) + 1
      BY <1>7, <3>1, MintsFinite, FS_AddElement
    <3>5. CASE Mints(b) = {}
      <4>1. Cardinality(Mints(b)) = 0
        BY <3>5, FS_EmptySet
      <4>2. strays'[b] \in Nat
        <5>1. strays'[b] \in {strays[b], strays[b] + 1}
          BY <1>2 DEF Types
        <5> QED BY <2>1, <5>1
      <4>3. Cardinality(Mints(b))' <= 1 + strays'[b]
        BY <3>4, <4>1, <4>2
      <4> QED BY <1>8, <2>1, <3>3, <4>3 DEF Known
    <3>6. CASE Mints(b) # {}
      <4>1. jar[b] # NoUser \/ Outstanding(b)
        BY <2>1, <3>6 DEF Known
      <4>2. cookie = NoUser /\ id.set
        BY <1>6, <2>3
      <4>3. Stray(b, cookie)
        BY <4>1, <4>2 DEF Stray, Outstanding, Mints
      <4>4. strays'[b] = strays[b] + 1
        BY <1>2, <4>2, <4>3 DEF Types
      <4>5. Cardinality(Mints(b))' <= 1 + strays'[b]
        BY <2>1, <3>4, <4>4, MintsFinite DEF Known
      <4> QED BY <1>8, <2>1, <3>3, <4>5 DEF Known
    <3> QED BY <3>5, <3>6
  <2> QED BY <2>2, <2>3
<1> QED BY <1>10, <1>11, <1>12, <1>13, <1>14 DEF ViewerInv

LEMMA ReceiveKeepsViewers ==
  ASSUME Types, ViewerInv, NEW r \in Request, Receive(r)
  PROVE  ViewerInv'
<1>1. /\ req' = req /\ slots' = slots /\ strays' = strays
      /\ exchange[r].cookie # NoUser
      /\ exchange' = [exchange EXCEPT ![r].got = TRUE]
      /\ jar' = [jar EXCEPT ![exchange[r].by] = exchange[r].cookie]
  BY DEF Receive, vars, SetUIDCookie
<1>2. \A q \in Request : /\ exchange'[q].by = exchange[q].by
                         /\ exchange'[q].cookie = exchange[q].cookie
                         /\ q # r => exchange'[q] = exchange[q]
  BY <1>1 DEF Types, Exchange
<1>3. \A c : Mints(c)' = Mints(c) /\ Ids(c)' = Ids(c)
  BY <1>2 DEF Mints, Ids
<1>4. SlotsOfUser' /\ MintedWhenSent'
  BY <1>1, <1>2 DEF ViewerInv, SlotsOfUser, MintedWhenSent
<1>5. UsersKnown'
  BY <1>1, <1>2, <1>3 DEF ViewerInv, UsersKnown
<1>6. ASSUME NEW c \in Browser PROVE Known(c)'
  <2>1. Known(c)
    BY DEF ViewerInv
  <2>2. CASE c = exchange[r].by
    <3>1. jar'[c] = exchange[r].cookie
      BY <1>1, <2>2 DEF Types
    <3>2. r \in Mints(c)
      BY <1>1, <2>2 DEF Mints
    <3>3. jar'[c] # NoUser /\ jar'[c] \in Ids(c)
      BY <1>1, <3>1, <3>2 DEF Ids
    <3> QED BY <1>1, <1>3, <2>1, <3>3 DEF Known
  <2>3. CASE c # exchange[r].by
    <3>1. jar'[c] = jar[c]
      BY <1>1, <2>3 DEF Types
    <3>2. Outstanding(c) => Outstanding(c)'
      <4> SUFFICES ASSUME NEW q \in Mints(c), ~exchange[q].got PROVE Outstanding(c)'
        BY DEF Outstanding
      <4>1. q \in Mints(c)' /\ q # r /\ q \in Request
        BY <1>3, <2>3 DEF Mints
      <4> QED BY <1>2, <4>1 DEF Outstanding
    <3> QED BY <1>1, <1>3, <2>1, <3>1, <3>2 DEF Known
  <2> QED BY <2>2, <2>3
<1> QED BY <1>4, <1>5, <1>6 DEF ViewerInv

LEMMA InitViewers == VInit => ViewerInv
<1> SUFFICES ASSUME VInit PROVE ViewerInv
  OBVIOUS
<1>1. \A c : Mints(c) = {}
  BY DEF VInit, Mints
<1>2. \A c : Cardinality(Mints(c)) = 0
  BY <1>1, FS_EmptySet
<1>3. \A c \in Browser : Known(c)
  BY <1>1, <1>2 DEF VInit, Known
<1>4. SlotsOfUser /\ UsersKnown /\ MintedWhenSent
  BY DEF VInit, Init, SlotsOfUser, UsersKnown, MintedWhenSent
<1> QED BY <1>3, <1>4 DEF ViewerInv

(* The bound: the slots lie under the identities, each under its cap.      *)
LEMMA CapOfPerson ==
  ASSUME Base, Types, FreqCapHeld, ViewerInv
  PROVE  ViewerCapHeld
<1> SUFFICES ASSUME NEW b \in Browser, NEW a \in Ad, Granted(b, a) # {}
             PROVE  \E s \in published :
                      Cardinality(Granted(b, a)) <= s.freqCap[a] * (1 + strays[b])
  BY DEF ViewerCapHeld
<1> DEFINE I == Ids(b) \cap User
           f == [u \in I |-> slots[u][a]]
           n == [u \in I |-> Cardinality(slots[u][a])]
<1>1. /\ IsFiniteSet(I) /\ Cardinality(I) \in Nat /\ strays[b] \in Nat
      /\ Cardinality(I) <= 1 + strays[b]
  <2>1. /\ IsFiniteSet(I) /\ Cardinality(I) <= Cardinality(Ids(b)) /\ Cardinality(I) \in Nat
    BY MintsFinite, FS_Subset, FS_CardinalityType
  <2>2. Cardinality(Mints(b)) <= 1 + strays[b] /\ strays[b] \in Nat
    BY DEF ViewerInv, Known, Types
  <2> HIDE DEF I
  <2> QED BY <2>1, <2>2, MintsFinite
<1>2. ASSUME NEW u \in User
      PROVE  /\ IsFiniteSet(slots[u][a]) /\ Cardinality(slots[u][a]) \in Nat
             /\ userCount[u][a] \in Nat
             /\ Cardinality(slots[u][a]) <= userCount[u][a]
             /\ userCount[u][a] > 0 => \E s \in published : userCount[u][a] <= s.freqCap[a]
  BY SlotsFinite DEF Base, FreqCapHeld
<1>3. Granted(b, a) \subseteq UNION {f[u] : u \in I}
  <2> SUFFICES ASSUME NEW u \in User \ Named, NEW r \in slots[u][a], exchange[r].by = b
               PROVE  u \in I /\ r \in f[u]
    BY DEF Granted
  <2>1. r \in Request
    BY DEF Base, TypeOK
  <2>2. req[r].pc # "idle" /\ req[r].user = u
    BY DEF ViewerInv, SlotsOfUser
  <2>3. u \in Ids(b)
    BY <2>1, <2>2 DEF ViewerInv, UsersKnown
  <2> QED BY <2>3
<1>4. I # {}
  BY <1>3
<1>5. PICK u \in I : \A v \in I : n[v] <= n[u]
  <2>1. \A v \in I : n[v] \in Int
    BY <1>2
  <2> HIDE DEF I, n
  <2> QED BY <1>1, <1>4, <2>1, LargestExists
<1> DEFINE k == Cardinality(slots[u][a])
<1>6. k \in Nat /\ \A v \in I : IsFiniteSet(f[v]) /\ Cardinality(f[v]) <= k
  BY <1>2, <1>5
<1>7. /\ IsFiniteSet(UNION {f[v] : v \in I})
      /\ Cardinality(UNION {f[v] : v \in I}) <= Cardinality(I) * k
  <2> HIDE DEF I, f, k
  <2> QED BY <1>1, <1>6, UnionBound
<1>8. /\ IsFiniteSet(Granted(b, a)) /\ Cardinality(Granted(b, a)) \in Nat
      /\ Cardinality(Granted(b, a)) <= Cardinality(I) * k
  <2> DEFINE S == UNION {f[v] : v \in I}
             G == Granted(b, a)
  <2>1. G \subseteq S /\ IsFiniteSet(S) /\ Cardinality(S) <= Cardinality(I) * k
    BY <1>3, <1>7
  <2> HIDE DEF S, G
  <2>2. IsFiniteSet(G) /\ Cardinality(G) <= Cardinality(S)
        /\ Cardinality(G) \in Nat /\ Cardinality(S) \in Nat
    BY <2>1, FS_Subset, FS_CardinalityType
  <2>3. Cardinality(I) * k \in Nat
    BY <1>1, <1>6
  <2> HIDE DEF I, k
  <2>4. Cardinality(G) <= Cardinality(I) * k
    BY <2>1, <2>2, <2>3
  <2> QED BY <2>2, <2>4 DEF G
<1>9. k > 0
  <2> SUFFICES ASSUME k = 0 PROVE FALSE
    BY <1>6
  <2>1. Cardinality(Granted(b, a)) = 0
    <3>1. Cardinality(I) * k = 0
      BY <1>1
    <3> HIDE DEF I, k
    <3> QED BY <1>8, <3>1
  <2> QED BY <1>8, <2>1, FS_EmptySet
<1>10. PICK s \in published : k <= s.freqCap[a]
  <2>1. u \in User
    OBVIOUS
  <2>2. k \in Nat /\ userCount[u][a] \in Nat /\ k <= userCount[u][a]
        /\ (userCount[u][a] > 0 => \E s \in published : userCount[u][a] <= s.freqCap[a])
    BY <1>2, <2>1
  <2>3. \A s \in published : s.freqCap[a] \in Nat
    BY DeliveryAssumption DEF Base, TypeOK, Snapshot
  <2> HIDE DEF k
  <2>4. PICK s \in published : userCount[u][a] <= s.freqCap[a]
    BY <1>9, <2>2
  <2> QED BY <2>2, <2>3, <2>4
<1>11. s.freqCap[a] \in Nat
  BY DeliveryAssumption DEF Base, TypeOK, Snapshot
<1>12. Cardinality(I) * k <= s.freqCap[a] * (1 + strays[b])
  <2> DEFINE c == Cardinality(I)
             m == s.freqCap[a]
             t == 1 + strays[b]
  <2>1. c \in Nat /\ k \in Nat /\ m \in Nat /\ t \in Nat /\ c <= t /\ k <= m
    BY <1>1, <1>6, <1>10, <1>11
  <2> HIDE DEF c, k, m, t
  <2>2. c * k <= t * k
    BY <2>1
  <2>3. t * k <= t * m
    BY <2>1
  <2>4. t * m = m * t /\ c * k \in Nat /\ t * k \in Nat /\ t * m \in Nat
    BY <2>1
  <2>5. c * k <= m * t
    BY <2>2, <2>3, <2>4
  <2> QED BY <2>5 DEF c, m, t
<1> QED
  <2> DEFINE c == Cardinality(I) * k
             m == s.freqCap[a] * (1 + strays[b])
             g == Cardinality(Granted(b, a))
  <2>1. c \in Nat /\ m \in Nat /\ g \in Nat /\ g <= c /\ c <= m
    BY <1>1, <1>6, <1>8, <1>11, <1>12
  <2> HIDE DEF c, m, g
  <2>2. g <= m
    BY <2>1
  <2> QED BY <2>2 DEF g, m

(* A person is held to its cap, once for the identity it was first given   *)
(* and once for each time it came as a stranger, for any number of         *)
(* browsers, requests in flight, lost answers and snapshots                *)
(* (tracking/userid.go, Resolve and SetUIDCookie).                         *)
THEOREM ViewerCapSafe == VSpec => []ViewerCapHeld
<1> DEFINE Hyp == Base /\ Types /\ FreqCapHeld
<1>1. ViewerInv /\ Hyp /\ [VNext]_<<vars, viewerVars>> => ViewerInv'
  <2> SUFFICES ASSUME ViewerInv, Base, Types, [VNext]_<<vars, viewerVars>>
               PROVE  ViewerInv'
    OBVIOUS
  <2>1. CASE UNCHANGED <<vars, viewerVars>>
    <3>1. UNCHANGED <<req, slots, jar, exchange, strays>>
      BY <2>1 DEF vars, viewerVars
    <3>2. \A c : Mints(c)' = Mints(c) /\ Ids(c)' = Ids(c)
                /\ (Outstanding(c)' <=> Outstanding(c))
      BY <3>1 DEF Mints, Ids, Outstanding
    <3>3. SlotsOfUser' /\ MintedWhenSent'
      BY <3>1 DEF ViewerInv, SlotsOfUser, MintedWhenSent
    <3>4. UsersKnown'
      BY <3>1, <3>2 DEF ViewerInv, UsersKnown
    <3>5. \A c \in Browser : Known(c)'
      BY <3>1, <3>2 DEF ViewerInv, Known
    <3> QED BY <3>3, <3>4, <3>5 DEF ViewerInv
  <2> QED BY <2>1, UnseenKeepsViewers, SendKeepsViewers, ReceiveKeepsViewers DEF VNext
<1>2. ViewerInv /\ Hyp => ViewerCapHeld
  BY CapOfPerson
<1>3. VSpec => []Hyp
  <2>1. VSpec => Spec /\ []VTypeOK /\ []FreqCapHeld
    BY ViewersKeepDelivery, ViewerTypeCorrect, PTL
  <2>2. Spec => []Base
    BY InitBase, NextBase, PTL DEF Spec
  <2>3. VTypeOK => Types
    BY DEF VTypeOK, Types
  <2> QED BY <2>1, <2>2, <2>3, PTL
<1> HIDE DEF Hyp
<1> QED BY <1>1, <1>2, <1>3, InitViewers, PTL DEF VSpec

=============================================================================
