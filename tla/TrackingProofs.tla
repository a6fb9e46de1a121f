--------------------------- MODULE TrackingProofs ---------------------------
(***************************************************************************)
(* That a pixel fired in time is counted by one handler only, and that an  *)
(* accepted pixel goes uncounted only by a fault of its own, for any       *)
(* number of pixels and fires, any clock and any lives of tokens and       *)
(* claims.                                                                 *)
(***************************************************************************)
EXTENDS Tracking, FiniteSetTheorems, TLAPS

-----------------------------------------------------------------------------
(* The answers of sign.go and handler.go keep the types.                   *)
LEMMA NextTypeOK ==
  ASSUME TypeOK, [Next]_vars
  PROVE  TypeOK'
<1> USE TrackingAssumption DEF TypeOK, Time, Never
<1>1. ASSUME NEW p \in Pixel, Issue(p) PROVE TypeOK'
  BY <1>1 DEF Issue
<1>2. ASSUME NEW f \in Fire, NEW p \in Pixel, Receive(f, p) PROVE TypeOK'
  <2>1. CASE Verify(p)
    <3>1. fire' = [fire EXCEPT ![f] = [@ EXCEPT !.pc = "claim", !.pixel = p, !.since = now]]
      BY <1>2, <2>1 DEF Receive
    <3>2. fire' \in [Fire -> Handler]
      BY <3>1 DEF Handler
    <3> QED
      BY <1>2, <3>2 DEF Receive
  <2>2. CASE ~Verify(p)
    <3>1. fire' = [fire EXCEPT ![f] = [@ EXCEPT !.pc = "gif", !.pixel = p,
                                                !.result = "invalid"]]
      BY <1>2, <2>2 DEF Receive
    <3>2. fire' \in [Fire -> Handler]
      BY <3>1 DEF Handler
    <3> QED
      BY <1>2, <3>2 DEF Receive
  <2> QED
    BY <2>1, <2>2
<1>3. ASSUME NEW f \in Fire, Handle(f) \/ Crash(f) PROVE TypeOK'
  <2>1. fire' \in [Fire -> Handler]
    BY <1>3 DEF Handle, Claim, Duplicate, ClaimError, ClaimResent, Count, CountError,
                CountResent, Crash, Answer, Handler
  <2>2. fire[f].pixel \in Pixel
    BY DEF Handler
  <2>3. now + ClaimTTL \in Nat
    OBVIOUS
  <2>4. claim' \in [Pixel -> Nat \cup {Never}]
    BY <1>3, <2>2, <2>3 DEF Handle, Claim, Duplicate, ClaimError, ClaimResent, Count,
                            CountError, CountResent, Crash, SetNX
  <2>5. /\ count' \in [Pixel -> Nat]
        /\ counted' \in [Pixel -> SUBSET Fire]
    BY <1>3, <2>2 DEF Handle, Claim, Duplicate, ClaimError, ClaimResent, Count,
                      CountError, CountResent, Crash, Incr
  <2>6. now' = now /\ issued' = issued /\ faults' \in Nat
    BY <1>3 DEF Handle, Claim, Duplicate, ClaimError, ClaimResent, Count,
                CountError, CountResent, Crash, Fault
  <2> QED
    BY <2>1, <2>4, <2>5, <2>6
<1>4. CASE Advance
  BY <1>4 DEF Advance
<1>5. CASE UNCHANGED vars
  BY <1>5 DEF vars
<1> QED
  BY <1>1, <1>2, <1>3, <1>4, <1>5 DEF Next

(* Type correctness of URLs, handlers, claims and counters, for any number *)
(* of pixels and fires.                                                    *)
THEOREM TrackingTypeCorrect == Spec => []TypeOK
<1>1. Init => TypeOK
  BY TrackingAssumption DEF Init, TypeOK, Time, Never, Handler
<1>2. TypeOK /\ [Next]_vars => TypeOK'
  BY NextTypeOK
<1> QED
  BY <1>1, <1>2, PTL DEF Spec

-----------------------------------------------------------------------------
(* Fire f holds pixel p: it has incremented its counter, or is about to.   *)
Holds(f, p) == f \in counted[p] \/ (fire[f].pc = "incr" /\ fire[f].pixel = p)

(* A URL was signed in the past, and a verified request reaches SET NX     *)
(* within Delay.                                                           *)
SignedBefore == \A p \in Pixel : issued[p] <= now
WaitsBriefly ==
  \A f \in Fire : fire[f].pc = "claim" =>
    issued[fire[f].pixel] # Never /\ now <= fire[f].since + Delay

CountedAsFired ==
  \A p \in Pixel : \A f \in counted[p] :
    fire[f].pixel = p /\ fire[f].pc \in {"incr", "gif", "gone"}

(* A pixel is held through a claim that outlives every fire in time.       *)
HeldByClaim ==
  \A p \in Pixel, f \in Fire : Holds(f, p) =>
    /\ issued[p] # Never
    /\ f \in InTime(p) => issued[p] + ClaimTTL <= claim[p]

HeldByOne ==
  \A p \in Pixel : \A f, g \in InTime(p) : Holds(f, p) /\ Holds(g, p) => f = g

(* One INCR for each one sent.                                             *)
CountsSends ==
  \A p \in Pixel :
    /\ counted[p] = {} => count[p] = 0
    /\ \A f \in counted[p] : counted[p] = {f} =>
         count[p] <= fire[f].resends + (IF fire[f].pc = "incr" THEN 0 ELSE 1)

Inv == /\ TypeOK /\ SignedBefore /\ WaitsBriefly /\ CountedAsFired
       /\ HeldByClaim /\ HeldByOne /\ CountsSends

LEMMA InitInv == Init => Inv
<1> SUFFICES ASSUME Init PROVE Inv
  OBVIOUS
<1>1. TypeOK
  BY TrackingAssumption DEF Init, TypeOK, Time, Never, Handler
<1>2. SignedBefore /\ WaitsBriefly /\ CountedAsFired /\ CountsSends
  BY DEF Init, SignedBefore, WaitsBriefly, CountedAsFired, CountsSends, Never
<1>3. \A p \in Pixel, f \in Fire : ~Holds(f, p)
  BY DEF Init, Holds
<1>4. HeldByClaim /\ HeldByOne
  BY <1>3 DEF HeldByClaim, HeldByOne, InTime
<1> QED
  BY <1>1, <1>2, <1>4 DEF Inv

LEMMA IssueInv ==
  ASSUME Inv, TypeOK', NEW p \in Pixel, Issue(p)
  PROVE  Inv'
<1> USE TrackingAssumption DEF Inv, TypeOK, Time, Never, Handler
<1>1. /\ now' = now /\ claim' = claim /\ fire' = fire
      /\ count' = count /\ counted' = counted
      /\ issued[p] = Never /\ issued' = [issued EXCEPT ![p] = now]
  BY DEF Issue
<1>2. SignedBefore' /\ WaitsBriefly'
  BY <1>1 DEF SignedBefore, WaitsBriefly
<1>3. CountedAsFired' /\ CountsSends'
  BY <1>1 DEF CountedAsFired, CountsSends
<1>4. \A f \in Fire : ~Holds(f, p)
  BY <1>1 DEF HeldByClaim
<1>5. \A q \in Pixel, f \in Fire : (Holds(f, q) <=> Holds(f, q)')
  BY <1>1 DEF Holds
<1>6. \A q \in Pixel \ {p} : InTime(q)' = InTime(q) /\ issued'[q] = issued[q]
  BY <1>1 DEF InTime
<1>7. HeldByClaim'
  BY <1>1, <1>4, <1>5, <1>6 DEF HeldByClaim
<1>8. HeldByOne'
  BY <1>1, <1>4, <1>5, <1>6 DEF HeldByOne, InTime
<1> QED
  BY <1>2, <1>3, <1>7, <1>8

(* What a step of f that neither counts nor is about to leaves alone.      *)
Quiet(f) ==
  /\ UNCHANGED <<now, issued, count, counted>>
  /\ \A g \in Fire \ {f} : fire'[g] = fire[g]
  /\ fire[f].pc \in {"idle", "claim", "incr"} /\ fire'[f].pc # "incr"
  /\ fire[f].pc # "idle" => /\ fire'[f].pixel = fire[f].pixel
                            /\ fire'[f].since = fire[f].since
  /\ fire[f].pc = "incr" => /\ fire'[f].pc \in {"gif", "gone"}
                            /\ fire'[f].resends = fire[f].resends
  /\ fire'[f].pc = "claim" =>
       \/ fire[f].pc = "claim"
       \/ fire[f].pc = "idle" /\ issued[fire'[f].pixel] # Never /\ fire'[f].since = now
  /\ \/ claim' = claim
     \/ fire[f].pc = "claim" /\ claim' = [claim EXCEPT ![fire[f].pixel] = now + ClaimTTL]

LEMMA QuietInv ==
  ASSUME Inv, TypeOK', NEW f \in Fire, Quiet(f)
  PROVE  Inv'
<1> USE TrackingAssumption DEF Inv, TypeOK, Time, Never, Handler
<1>1. SignedBefore'
  BY DEF Quiet, SignedBefore
<1>2. WaitsBriefly'
  <2> SUFFICES ASSUME NEW g \in Fire, fire'[g].pc = "claim"
               PROVE  issued[fire'[g].pixel] # Never /\ now <= fire'[g].since + Delay
    BY DEF Quiet, WaitsBriefly
  <2>1. CASE g # f
    BY <2>1 DEF Quiet, WaitsBriefly
  <2>2. CASE g = f /\ fire[f].pc = "claim"
    BY <2>2 DEF Quiet, WaitsBriefly
  <2>3. CASE g = f /\ fire[f].pc # "claim"
    BY <2>3 DEF Quiet
  <2> QED
    BY <2>1, <2>2, <2>3
<1>3. CountedAsFired'
  BY DEF Quiet, CountedAsFired
<1>4. CountsSends'
  <2> SUFFICES ASSUME NEW q \in Pixel
               PROVE  /\ counted[q] = {} => count[q] = 0
                      /\ \A g \in counted[q] : counted[q] = {g} =>
                           count[q] <= fire'[g].resends
                                         + (IF fire'[g].pc = "incr" THEN 0 ELSE 1)
    BY DEF Quiet, CountsSends
  <2>1. counted[q] = {} => count[q] = 0
    BY DEF CountsSends
  <2>2. ASSUME NEW g \in counted[q], counted[q] = {g}
        PROVE  count[q] <= fire'[g].resends + (IF fire'[g].pc = "incr" THEN 0 ELSE 1)
    <3>1. count[q] <= fire[g].resends + (IF fire[g].pc = "incr" THEN 0 ELSE 1)
      BY <2>2 DEF CountsSends
    <3>2. CASE g # f
      BY <2>2, <3>1, <3>2 DEF Quiet
    <3>3. CASE g = f
      <4>1. fire[f].pc = "incr"
        BY <3>3 DEF Quiet, CountedAsFired
      <4>2. fire'[f].pc # "incr" /\ fire'[f].resends = fire[f].resends
        BY <4>1 DEF Quiet
      <4>3. fire[f].resends \in Nat /\ count[q] \in Nat
        OBVIOUS
      <4> QED
        BY <3>1, <3>3, <4>1, <4>2, <4>3
    <3> QED
      BY <3>2, <3>3
  <2> QED
    BY <2>1, <2>2
<1>5. \A g \in Fire, q \in Pixel : Holds(g, q)' =>
        Holds(g, q) /\ (g \in InTime(q)' <=> g \in InTime(q))
  BY DEF Quiet, Holds, InTime, CountedAsFired
<1>6. \A q \in Pixel : issued[q] + ClaimTTL <= claim[q] => issued[q] + ClaimTTL <= claim'[q]
  BY DEF Quiet, SignedBefore
<1>7. HeldByClaim'
  BY <1>5, <1>6 DEF Quiet, HeldByClaim
<1>8. HeldByOne'
  BY <1>5 DEF HeldByOne, InTime
<1> QED
  BY <1>1, <1>2, <1>3, <1>4, <1>7, <1>8

LEMMA QuietSteps ==
  ASSUME TypeOK, NEW f \in Fire,
         \/ \E p \in Pixel : Receive(f, p)
         \/ Duplicate(f) \/ ClaimError(f) \/ ClaimResent(f) \/ Crash(f)
         \/ CountError(f) /\ UNCHANGED <<count, counted>>
  PROVE  Quiet(f)
<1> USE DEF TypeOK, Handler
<1>1. ASSUME NEW p \in Pixel, Receive(f, p) PROVE Quiet(f)
  <2>1. CASE Verify(p)
    <3>1. fire' = [fire EXCEPT ![f] = [@ EXCEPT !.pc = "claim", !.pixel = p, !.since = now]]
      BY <1>1, <2>1 DEF Receive
    <3> QED
      BY <1>1, <3>1 DEF Receive, Quiet
  <2>2. CASE ~Verify(p)
    <3>1. fire' = [fire EXCEPT ![f] = [@ EXCEPT !.pc = "gif", !.pixel = p,
                                                !.result = "invalid"]]
      BY <1>1, <2>2 DEF Receive
    <3> QED
      BY <1>1, <3>1 DEF Receive, Quiet
  <2> QED
    BY <2>1, <2>2
<1>2. CASE Duplicate(f)
  BY <1>2 DEF Duplicate, Answer, Quiet
<1>3. CASE ClaimError(f)
  BY <1>3 DEF ClaimError, Answer, SetNX, Quiet
<1>4. CASE ClaimResent(f)
  BY <1>4 DEF ClaimResent, SetNX, Quiet
<1>5. CASE Crash(f)
  BY <1>5 DEF Crash, Quiet
<1>6. CASE CountError(f) /\ UNCHANGED <<count, counted>>
  BY <1>6 DEF CountError, Answer, Quiet
<1> QED
  BY <1>1, <1>2, <1>3, <1>4, <1>5, <1>6

(* The handler whose SET NX set the key is the only one in time to do so:  *)
(* a claim taken for another would still stand.                            *)
LEMMA ClaimInv ==
  ASSUME Inv, TypeOK', NEW f \in Fire, Claim(f)
  PROVE  Inv'
<1> USE TrackingAssumption DEF Inv, TypeOK, Time, Never, Handler
<1> DEFINE p == fire[f].pixel
<1>1. /\ p \in Pixel /\ fire[f].pc = "claim" /\ claim[p] <= now
      /\ now' = now /\ issued' = issued /\ count' = count /\ counted' = counted
      /\ claim' = [claim EXCEPT ![p] = now + ClaimTTL]
      /\ fire' = [fire EXCEPT ![f].pc = "incr", ![f].resends = 0]
  BY DEF Claim, SetNX, Claimed
<1>2. /\ \A g \in Fire \ {f} : fire'[g] = fire[g]
      /\ fire'[f].pc = "incr" /\ fire'[f].pixel = p /\ fire'[f].since = fire[f].since
  BY <1>1
<1>3. \A q \in Pixel : f \notin counted[q]
  BY <1>1 DEF CountedAsFired
<1>4. issued[p] # Never /\ issued[p] <= now /\ now <= fire[f].since + Delay
  BY <1>1 DEF WaitsBriefly, SignedBefore
<1> HIDE DEF p
<1>5. SignedBefore' /\ WaitsBriefly'
  BY <1>1, <1>2 DEF SignedBefore, WaitsBriefly
<1>6. CountedAsFired'
  BY <1>1, <1>2, <1>3 DEF CountedAsFired
<1>7. CountsSends'
  BY <1>1, <1>2, <1>3 DEF CountsSends
<1>8. \A q \in Pixel : InTime(q)' = InTime(q)
  BY <1>1, <1>2 DEF InTime
<1>9. \A g \in Fire, q \in Pixel : Holds(g, q)' => Holds(g, q) \/ (g = f /\ q = p)
  BY <1>1, <1>2 DEF Holds
<1>10. f \in InTime(p) => \A g \in InTime(p) : ~Holds(g, p)
  BY <1>1, <1>4 DEF InTime, HeldByClaim
<1>11. HeldByClaim'
  <2> SUFFICES ASSUME NEW q \in Pixel, NEW g \in Fire, Holds(g, q)'
               PROVE  /\ issued[q] # Never
                      /\ g \in InTime(q) => issued[q] + ClaimTTL <= claim'[q]
    BY <1>1, <1>8 DEF HeldByClaim
  <2>1. CASE q = p
    BY <1>1, <1>4, <2>1
  <2>2. CASE q # p
    BY <1>1, <1>9, <2>2 DEF HeldByClaim
  <2> QED
    BY <2>1, <2>2
<1>12. HeldByOne'
  <2> SUFFICES ASSUME NEW q \in Pixel, NEW g \in InTime(q), NEW h \in InTime(q),
                      Holds(g, q)', Holds(h, q)'
               PROVE  g = h
    BY <1>8 DEF HeldByOne
  <2>1. g \in Fire /\ h \in Fire
    BY DEF InTime
  <2>2. CASE q = p /\ (g = f \/ h = f)
    BY <1>9, <1>10, <2>1, <2>2
  <2>3. CASE ~(q = p /\ (g = f \/ h = f))
    BY <1>9, <2>1, <2>3 DEF HeldByOne
  <2> QED
    BY <2>2, <2>3
<1> QED
  BY <1>5, <1>6, <1>7, <1>11, <1>12

(* INCR, answered or sent again.                                           *)
LEMMA IncrInv ==
  ASSUME Inv, TypeOK', NEW f \in Fire,
         Count(f) \/ CountResent(f) \/ (CountError(f) /\ Incr(f))
  PROVE  Inv'
<1> USE TrackingAssumption DEF Inv, TypeOK, Time, Never, Handler
<1> DEFINE p == fire[f].pixel
<1>1. /\ p \in Pixel /\ fire[f].pc = "incr"
      /\ now' = now /\ issued' = issued /\ claim' = claim
      /\ count' = [count EXCEPT ![p] = @ + 1]
      /\ counted' = [counted EXCEPT ![p] = @ \cup {f}]
  BY DEF Count, CountResent, CountError, Incr
<1>2. /\ \A g \in Fire \ {f} : fire'[g] = fire[g]
      /\ fire'[f].pixel = p /\ fire'[f].since = fire[f].since
      /\ \/ fire'[f].pc = "gif" /\ fire'[f].resends = fire[f].resends
         \/ fire'[f].pc = "incr" /\ fire'[f].resends = fire[f].resends + 1
  <2>1. CASE Count(f) \/ CountError(f)
    BY <2>1 DEF Count, CountError, Answer
  <2>2. CASE CountResent(f)
    BY <2>2 DEF CountResent
  <2> QED
    BY <2>1, <2>2
<1>3. Holds(f, p)
  BY <1>1 DEF Holds
<1> HIDE DEF p
<1>4. SignedBefore' /\ WaitsBriefly'
  BY <1>1, <1>2 DEF SignedBefore, WaitsBriefly
<1>5. CountedAsFired'
  <2> SUFFICES ASSUME NEW q \in Pixel, NEW g \in counted'[q]
               PROVE  fire'[g].pixel = q /\ fire'[g].pc \in {"incr", "gif", "gone"}
    BY DEF CountedAsFired
  <2>1. CASE g = f
    <3>1. q = p
      BY <1>1, <2>1 DEF CountedAsFired, p
    <3> QED
      BY <1>2, <2>1, <3>1
  <2>2. CASE g # f
    <3>1. g \in counted[q]
      BY <1>1, <2>2
    <3> QED
      BY <1>2, <2>2, <3>1 DEF CountedAsFired
  <2> QED
    BY <2>1, <2>2
<1>6. CountsSends'
  <2> SUFFICES ASSUME NEW q \in Pixel
               PROVE  /\ counted'[q] = {} => count'[q] = 0
                      /\ \A g \in counted'[q] : counted'[q] = {g} =>
                           count'[q] <= fire'[g].resends
                                          + (IF fire'[g].pc = "incr" THEN 0 ELSE 1)
    BY DEF CountsSends
  <2>1. CASE q # p
    <3>1. counted'[q] = counted[q] /\ count'[q] = count[q]
      BY <1>1, <2>1
    <3>2. f \notin counted[q]
      BY <1>1, <2>1 DEF CountedAsFired, p
    <3>3. counted[q] = {} => count[q] = 0
      BY DEF CountsSends
    <3>4. \A g \in counted[q] : counted[q] = {g} =>
            count[q] <= fire[g].resends + (IF fire[g].pc = "incr" THEN 0 ELSE 1)
      BY DEF CountsSends
    <3>5. \A g \in counted[q] : fire'[g] = fire[g]
      BY <1>2, <3>2
    <3> QED
      BY <3>1, <3>3, <3>4, <3>5
  <2>2. CASE q = p
    <3>1. count'[p] = count[p] + 1 /\ counted'[p] = counted[p] \cup {f}
      BY <1>1
    <3>2. counted'[p] = {f} => counted[p] = {} \/ counted[p] = {f}
      BY <3>1
    <3>3. counted'[p] = {f} => count[p] <= fire[f].resends
      BY <1>1, <3>2 DEF CountsSends
    <3>4. fire[f].resends \in Nat /\ count[p] \in Nat
      BY <1>1
    <3>5. counted'[p] = {f} =>
            count'[p] <= fire'[f].resends + (IF fire'[f].pc = "incr" THEN 0 ELSE 1)
      BY <1>2, <3>1, <3>3, <3>4
    <3> QED
      BY <2>2, <3>1, <3>5
  <2> QED
    BY <2>1, <2>2
<1>7. \A g \in Fire, q \in Pixel : Holds(g, q)' => Holds(g, q)
  BY <1>1, <1>2, <1>3 DEF Holds
<1>8. \A q \in Pixel : InTime(q)' = InTime(q)
  BY <1>1, <1>2 DEF InTime
<1>9. HeldByClaim'
  BY <1>1, <1>7, <1>8 DEF HeldByClaim
<1>10. HeldByOne'
  BY <1>7, <1>8 DEF HeldByOne, InTime
<1> QED
  BY <1>4, <1>5, <1>6, <1>9, <1>10

LEMMA AdvanceInv ==
  ASSUME Inv, TypeOK', Advance
  PROVE  Inv'
<1> USE TrackingAssumption DEF Inv, TypeOK, Time, Never, Handler
<1>1. /\ now' = now + 1 /\ issued' = issued /\ claim' = claim /\ fire' = fire
      /\ count' = count /\ counted' = counted
      /\ \A f \in Fire : fire[f].pc = "claim" => now < fire[f].since + Delay
  BY DEF Advance
<1>2. SignedBefore'
  BY <1>1 DEF SignedBefore
<1>3. WaitsBriefly'
  <2> SUFFICES ASSUME NEW f \in Fire, fire[f].pc = "claim"
               PROVE  issued[fire[f].pixel] # Never /\ now + 1 <= fire[f].since + Delay
    BY <1>1 DEF WaitsBriefly
  <2> QED
    BY <1>1 DEF WaitsBriefly
<1>4. CountedAsFired' /\ CountsSends'
  BY <1>1 DEF CountedAsFired, CountsSends
<1>5. HeldByClaim' /\ HeldByOne'
  BY <1>1 DEF HeldByClaim, HeldByOne, Holds, InTime
<1> QED
  BY <1>2, <1>3, <1>4, <1>5

LEMMA NextInv ==
  ASSUME Inv, [Next]_vars
  PROVE  Inv'
<1>1. TypeOK'
  BY NextTypeOK DEF Inv
<1>2. ASSUME NEW p \in Pixel, Issue(p) PROVE Inv'
  BY <1>1, <1>2, IssueInv
<1>3. ASSUME NEW f \in Fire,
             \/ \E p \in Pixel : Receive(f, p)
             \/ Duplicate(f) \/ ClaimError(f) \/ ClaimResent(f) \/ Crash(f)
             \/ CountError(f) /\ UNCHANGED <<count, counted>>
      PROVE  Inv'
  <2>1. Quiet(f)
    BY <1>3, QuietSteps DEF Inv
  <2> QED
    BY <1>1, <2>1, QuietInv
<1>4. ASSUME NEW f \in Fire, Claim(f) PROVE Inv'
  BY <1>1, <1>4, ClaimInv
<1>5. ASSUME NEW f \in Fire, Count(f) \/ CountResent(f) \/ (CountError(f) /\ Incr(f))
      PROVE  Inv'
  BY <1>1, <1>5, IncrInv
<1>6. CASE Advance
  BY <1>1, <1>6, AdvanceInv
<1>7. CASE UNCHANGED vars
  BY <1>7 DEF vars, Inv, TypeOK, SignedBefore, WaitsBriefly, CountedAsFired,
              HeldByClaim, HeldByOne, CountsSends, Holds, InTime
<1>8. \A f \in Fire : CountError(f) => Incr(f) \/ UNCHANGED <<count, counted>>
  BY DEF CountError
<1> QED
  BY <1>2, <1>3, <1>4, <1>5, <1>6, <1>7, <1>8 DEF Next, Handle

(* For any number of concurrent handlers, failing or resent commands and   *)
(* crashes, at most one of the fires that reach SET NX before a claim can  *)
(* lapse increments the counter, once unless its INCR was sent again.      *)
THEOREM CountsOnce == Spec => []CountedOnce
<1>1. Inv => CountedOnce
  <2> SUFFICES ASSUME Inv, NEW p \in Pixel
               PROVE  /\ Cardinality(counted[p] \cap InTime(p)) <= 1
                      /\ \A f \in counted[p] : counted[p] = {f} =>
                           count[p] <= 1 + fire[f].resends
    BY DEF CountedOnce
  <2>1. \A f, g \in counted[p] \cap InTime(p) : f = g
    BY DEF Inv, HeldByOne, Holds
  <2>2. ASSUME NEW f \in counted[p] \cap InTime(p)
        PROVE  Cardinality(counted[p] \cap InTime(p)) <= 1
    <3>1. counted[p] \cap InTime(p) = {f}
      BY <2>1, <2>2
    <3> QED
      BY <3>1, FS_Singleton
  <2>3. Cardinality(counted[p] \cap InTime(p)) <= 1
    <3>1. CASE counted[p] \cap InTime(p) = {}
      BY <3>1, FS_EmptySet
    <3>2. CASE counted[p] \cap InTime(p) # {}
      BY <2>2, <3>2
    <3> QED
      BY <3>1, <3>2
  <2>4. \A f \in counted[p] : counted[p] = {f} => count[p] <= 1 + fire[f].resends
    BY DEF Inv, CountsSends, TypeOK, Handler
  <2> QED
    BY <2>3, <2>4
<1>2. Inv /\ [Next]_vars => Inv'
  BY NextInv
<1> QED
  BY <1>1, <1>2, InitInv, PTL DEF Spec

-----------------------------------------------------------------------------
(* The pixels an event may be lost for: a claim was taken or a fire was    *)
(* answered, and no handler counted it or is about to.  A claim alone is   *)
(* enough: the next fire finds it and is answered as a duplicate.          *)
Losing == {p \in Pixel : /\ Accepted(p) # {} \/ claim[p] # Never
                         /\ counted[p] = {} /\ ~Counting(p)}

LossBounded == IsFiniteSet(Losing) /\ Cardinality(Losing) <= faults

(* A step that costs nothing loses nothing ...                             *)
LEMMA NothingLost ==
  ASSUME TypeOK, [Next]_vars, faults' = faults
  PROVE  Losing' \subseteq Losing
<1> USE DEF TypeOK, Handler
<1> SUFFICES ASSUME NEW p \in Pixel,
                    Accepted(p)' # {} \/ claim'[p] # Never,
                    counted'[p] = {}, ~Counting(p)'
             PROVE  /\ Accepted(p) # {} \/ claim[p] # Never
                    /\ counted[p] = {} /\ ~Counting(p)
  BY DEF Losing
<1>1. ASSUME NEW f \in Fire, NEW q \in Pixel, Receive(f, q)
      PROVE  /\ Accepted(p) # {} \/ claim[p] # Never
             /\ counted[p] = {} /\ ~Counting(p)
  <2>1. /\ fire[f].pc = "idle"
        /\ \A g \in Fire \ {f} : fire'[g] = fire[g]
        /\ claim' = claim /\ counted' = counted
    BY <1>1 DEF Receive
  <2>2. fire'[f].pc = "claim" \/ (fire'[f].pc = "gif" /\ fire'[f].result = "invalid")
    <3>1. CASE Verify(q)
      <4>1. fire' = [fire EXCEPT ![f] = [@ EXCEPT !.pc = "claim", !.pixel = q, !.since = now]]
        BY <1>1, <3>1 DEF Receive
      <4> QED BY <4>1
    <3>2. CASE ~Verify(q)
      <4>1. fire' = [fire EXCEPT ![f] = [@ EXCEPT !.pc = "gif", !.pixel = q,
                                                  !.result = "invalid"]]
        BY <1>1, <3>2 DEF Receive
      <4> QED BY <4>1
    <3> QED BY <3>1, <3>2
  <2>3. Accepted(p)' \subseteq Accepted(p)
    BY <2>1, <2>2 DEF Accepted
  <2>4. Counting(p) => Counting(p)'
    BY <2>1 DEF Counting
  <2> QED BY <2>1, <2>3, <2>4
<1>2. ASSUME NEW f \in Fire, Claim(f)
      PROVE  /\ Accepted(p) # {} \/ claim[p] # Never
             /\ counted[p] = {} /\ ~Counting(p)
  <2>1. /\ fire[f].pc = "claim" /\ counted' = counted
        /\ fire' = [fire EXCEPT ![f].pc = "incr", ![f].resends = 0]
    BY <1>2 DEF Claim
  <2>2. /\ \A g \in Fire \ {f} : fire'[g] = fire[g]
        /\ fire'[f].pc = "incr" /\ fire'[f].pixel = fire[f].pixel
    BY <2>1
  <2>3. fire[f].pixel # p
    BY <2>2 DEF Counting
  <2>4. claim'[p] = claim[p]
    BY <1>2, <2>3 DEF Claim, SetNX
  <2>5. Accepted(p)' \subseteq Accepted(p)
    BY <2>2 DEF Accepted
  <2>6. Counting(p) => Counting(p)'
    BY <2>1, <2>2 DEF Counting
  <2> QED BY <2>1, <2>4, <2>5, <2>6
<1>3. ASSUME NEW f \in Fire, Duplicate(f)
      PROVE  /\ Accepted(p) # {} \/ claim[p] # Never
             /\ counted[p] = {} /\ ~Counting(p)
  <2>1. /\ fire[f].pc = "claim" /\ Claimed(fire[f].pixel)
        /\ fire' = [fire EXCEPT ![f].pc = "gif", ![f].result = "duplicate"]
        /\ claim' = claim /\ counted' = counted
    BY <1>3 DEF Duplicate, Answer
  <2>2. /\ \A g \in Fire \ {f} : fire'[g] = fire[g]
        /\ fire'[f].pixel = fire[f].pixel
    BY <2>1
  <2>3. fire[f].pixel = p => claim[p] # Never
    BY <2>1, TrackingAssumption DEF Claimed, Never, Time
  <2>4. fire[f].pixel # p => Accepted(p)' \subseteq Accepted(p)
    BY <2>2 DEF Accepted
  <2>5. Counting(p) => Counting(p)'
    BY <2>1, <2>2 DEF Counting
  <2> QED BY <2>1, <2>3, <2>4, <2>5
<1>4. ASSUME NEW f \in Fire, Count(f)
      PROVE  /\ Accepted(p) # {} \/ claim[p] # Never
             /\ counted[p] = {} /\ ~Counting(p)
  <2>1. /\ fire[f].pc = "incr" /\ claim' = claim
        /\ fire' = [fire EXCEPT ![f].pc = "gif", ![f].result = "ok"]
        /\ counted' = [counted EXCEPT ![fire[f].pixel] = @ \cup {f}]
    BY <1>4 DEF Count, Answer, Incr
  <2>2. /\ \A g \in Fire \ {f} : fire'[g] = fire[g]
        /\ fire'[f].pixel = fire[f].pixel
    BY <2>1
  <2>3. fire[f].pixel # p /\ counted[p] = {}
    BY <2>1
  <2>4. Accepted(p)' \subseteq Accepted(p)
    BY <2>2, <2>3 DEF Accepted
  <2>5. Counting(p) => Counting(p)'
    BY <2>2, <2>3 DEF Counting
  <2> QED BY <2>1, <2>3, <2>4, <2>5
<1>5. ASSUME UNCHANGED <<fire, claim, counted>>
      PROVE  /\ Accepted(p) # {} \/ claim[p] # Never
             /\ counted[p] = {} /\ ~Counting(p)
  BY <1>5 DEF Accepted, Counting
<1>6. ASSUME NEW q \in Pixel, Issue(q)
      PROVE  UNCHANGED <<fire, claim, counted>>
  BY <1>6 DEF Issue
<1>7. CASE Advance \/ UNCHANGED vars
  BY <1>5, <1>7 DEF Advance, vars
<1>8. ~Fault
  BY DEF Fault
<1>9. \A f \in Fire : /\ ~ClaimError(f) /\ ~ClaimResent(f) /\ ~CountError(f)
                      /\ ~CountResent(f) /\ ~Crash(f)
  BY <1>8 DEF ClaimError, ClaimResent, CountError, CountResent, Crash
<1> QED
  BY <1>1, <1>2, <1>3, <1>4, <1>5, <1>6, <1>7, <1>9 DEF Next, Handle

(* ... and a fault loses the event of its own pixel at most.               *)
LEMMA OneLost ==
  ASSUME TypeOK, [Next]_vars, faults' # faults
  PROVE  faults' = faults + 1 /\ \E p \in Pixel : Losing' \subseteq Losing \cup {p}
<1> USE DEF TypeOK, Handler
<1>1. PICK f \in Fire : ClaimError(f) \/ ClaimResent(f) \/ CountError(f)
                          \/ CountResent(f) \/ Crash(f)
  <2>1. \A q \in Pixel : ~Issue(q)
    BY DEF Issue
  <2>2. ~Advance /\ ~UNCHANGED vars
    BY DEF Advance, vars
  <2>3. \A g \in Fire, q \in Pixel : ~Receive(g, q)
    BY DEF Receive
  <2>4. \A g \in Fire : ~Claim(g) /\ ~Duplicate(g) /\ ~Count(g)
    BY DEF Claim, Duplicate, Count
  <2> QED BY <2>1, <2>2, <2>3, <2>4 DEF Next, Handle
<1>2. Fault
  BY <1>1 DEF ClaimError, ClaimResent, CountError, CountResent, Crash
<1> DEFINE p == fire[f].pixel
<1>3. p \in Pixel
  OBVIOUS
<1>4. /\ \A g \in Fire \ {f} : fire'[g] = fire[g]
      /\ fire'[f].pixel = p
  BY <1>1 DEF ClaimError, ClaimResent, CountError, CountResent, Crash, Answer
<1>5. \A q \in Pixel \ {p} : claim'[q] = claim[q]
  BY <1>1 DEF ClaimError, ClaimResent, CountError, CountResent, Crash, SetNX
<1>6. \A q \in Pixel \ {p} : counted'[q] = counted[q]
  BY <1>1 DEF ClaimError, ClaimResent, CountError, CountResent, Crash, Incr
<1> HIDE DEF p
<1>7. ASSUME NEW q \in Pixel, q # p
      PROVE  Accepted(q)' = Accepted(q) /\ (Counting(q)' <=> Counting(q))
  <2>1. fire[f].pixel # q /\ fire'[f].pixel # q
    BY <1>4, <1>7 DEF p
  <2> QED BY <1>4, <2>1 DEF Accepted, Counting
<1>8. Losing' \subseteq Losing \cup {p}
  BY <1>5, <1>6, <1>7 DEF Losing
<1> QED BY <1>2, <1>3, <1>8 DEF Fault

(* Whatever handlers, resends and crashes interleave, the pixels that were *)
(* answered and are in no report number at most the faults: a 200 that is  *)
(* never counted always has a failed command or a crash of its own behind  *)
(* it (tracking/handler.go, the two error branches).                       *)
THEOREM LossPerFault == Spec => []OneLossPerFault
<1>1. Init => TypeOK /\ LossBounded
  <2> SUFFICES ASSUME Init PROVE TypeOK /\ LossBounded
    OBVIOUS
  <2>1. TypeOK
    BY TrackingAssumption DEF Init, TypeOK, Time, Never, Handler
  <2>2. Losing = {}
    BY DEF Init, Losing, Accepted
  <2>3. faults = 0
    BY DEF Init
  <2> QED BY <2>1, <2>2, <2>3, FS_EmptySet DEF LossBounded
<1>2. TypeOK /\ LossBounded /\ [Next]_vars => (TypeOK /\ LossBounded)'
  <2> SUFFICES ASSUME TypeOK, LossBounded, [Next]_vars PROVE TypeOK' /\ LossBounded'
    OBVIOUS
  <2>1. TypeOK' /\ faults \in Nat
    BY NextTypeOK DEF TypeOK
  <2>2. IsFiniteSet(Losing) /\ Cardinality(Losing) \in Nat /\ Cardinality(Losing) <= faults
    BY FS_CardinalityType DEF LossBounded
  <2>3. CASE faults' = faults
    <3>1. IsFiniteSet(Losing') /\ Cardinality(Losing') <= Cardinality(Losing)
          /\ Cardinality(Losing') \in Nat
      BY <2>2, <2>3, NothingLost, FS_Subset, FS_CardinalityType
    <3> QED BY <2>1, <2>2, <2>3, <3>1 DEF LossBounded
  <2>4. CASE faults' # faults
    <3>1. PICK p \in Pixel : Losing' \subseteq Losing \cup {p}
      BY <2>4, OneLost
    <3>2. faults' = faults + 1
      BY <2>4, OneLost
    <3>3. /\ IsFiniteSet(Losing \cup {p})
          /\ Cardinality(Losing \cup {p}) \in Nat
          /\ Cardinality(Losing \cup {p}) <= Cardinality(Losing) + 1
      <4>1. IsFiniteSet(Losing \cup {p})
        BY <2>2, FS_AddElement
      <4>2. Cardinality(Losing \cup {p}) \in {Cardinality(Losing), Cardinality(Losing) + 1}
        BY <2>2, FS_AddElement
      <4> QED BY <2>2, <4>1, <4>2
    <3>4. /\ IsFiniteSet(Losing') /\ Cardinality(Losing') \in Nat
          /\ Cardinality(Losing') <= Cardinality(Losing \cup {p})
      BY <3>1, <3>3, FS_Subset, FS_CardinalityType
    <3> QED BY <2>1, <2>2, <3>2, <3>3, <3>4 DEF LossBounded
  <2> QED BY <2>1, <2>3, <2>4
<1>3. TypeOK /\ LossBounded => OneLossPerFault
  <2> SUFFICES ASSUME TypeOK, LossBounded PROVE OneLossPerFault
    OBVIOUS
  <2> DEFINE L == {p \in Pixel : Accepted(p) # {} /\ counted[p] = {} /\ ~Counting(p)}
  <2>1. L \subseteq Losing
    BY DEF Losing
  <2> HIDE DEF L
  <2>2. Cardinality(L) <= Cardinality(Losing) /\ Cardinality(L) \in Nat
        /\ Cardinality(Losing) \in Nat
    BY <2>1, FS_Subset, FS_CardinalityType DEF LossBounded
  <2>3. Cardinality(L) <= faults
    BY <2>2 DEF LossBounded, TypeOK
  <2> QED BY <2>3 DEF OneLossPerFault, L
<1> QED BY <1>1, <1>2, <1>3, PTL DEF Spec

=============================================================================
