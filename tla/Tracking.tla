------------------------------ MODULE Tracking ------------------------------
(***************************************************************************)
(* A tracking pixel, from the URL serveAd signs to the counter /track      *)
(* increments (tracking/sign.go, tracking/handler.go): HMAC token with an  *)
(* expiry in whole seconds, SET NX of track:<imp>:<event> with a TTL, then *)
(* INCR of ad:<ad>:event:<event>:<date>.                                   *)
(*                                                                         *)
(* One pixel stands for one (imp_id, event): nothing is shared between two *)
(* of them but the counter, and `counted` says which fires it holds.       *)
(* Players, proxies and browsers may fire a URL any number of times.       *)
(*                                                                         *)
(* The clock has Tick units per second, so that what is cut off by Unix()  *)
(* shows.  Adservers and Redis share it.                                   *)
(***************************************************************************)
EXTENDS Integers, FiniteSets

CONSTANTS
  Pixel,       (* the signed (imp_id, event) URLs                        *)
  Fire,        (* every GET /track the model may receive                 *)
  Tick,        (* clock units per second                                 *)
  TokenTTL,    (* TRACKING_TOKEN_TTL, in clock units                     *)
  ClaimTTL,    (* IdempotencyTTL, in clock units                         *)
  Delay,       (* how long a handler takes from Verify to SET NX         *)
  MaxTime,     (* bound: the clock stops here                            *)
  MaxFaults,   (* bound: commands that fail or are resent, crashes       *)
  MaxResends   (* how often the Redis client resends a lost command      *)

ASSUME TrackingAssumption ==
  /\ Tick \in Nat \ {0} /\ TokenTTL \in Nat /\ ClaimTTL \in Nat \ {0}
  /\ Delay \in Nat /\ MaxTime \in Nat
  /\ MaxFaults \in Nat /\ MaxResends \in Nat

Time == 0..MaxTime
Never == -1

VARIABLES
  now,
  issued,      (* [Pixel -> when its URL was signed, Never if not yet]   *)
  claim,       (* [Pixel -> when track:<imp>:<event> expires, Never if   *)
               (* unset]                                                 *)
  fire,        (* [Fire -> a request]                                    *)
  count,       (* [Pixel -> times the counter was incremented for it]    *)
  counted,     (* [Pixel -> the fires that incremented it] (history)     *)
  faults

vars == <<now, issued, claim, fire, count, counted, faults>>

(* since: when the request was verified; exp: its exp parameter.           *)
Handler == [pc      : {"idle", "claim", "incr", "gif", "gone"},
            pixel   : Pixel,
            since   : Time,
            result  : {"none", "invalid", "duplicate", "ok"},
            resends : Nat]

TypeOK ==
  /\ now \in Time
  /\ issued \in [Pixel -> Time \cup {Never}]
  /\ claim \in [Pixel -> Nat \cup {Never}]
  /\ fire \in [Fire -> Handler]
  /\ count \in [Pixel -> Nat]
  /\ counted \in [Pixel -> SUBSET Fire]
  /\ faults \in Nat

Init ==
  /\ now = 0
  /\ issued = [p \in Pixel |-> Never]
  /\ claim = [p \in Pixel |-> Never]
  /\ \E p \in Pixel :
       fire = [f \in Fire |-> [pc |-> "idle", pixel |-> p, since |-> 0,
                               result |-> "none", resends |-> 0]]
  /\ count = [p \in Pixel |-> 0]
  /\ counted = [p \in Pixel |-> {}]
  /\ faults = 0

-----------------------------------------------------------------------------
(* The definitions named for a fault are not part of the specification:    *)
(* they show that the properties notice it.                                *)
Unix(t) == t \div Tick

(* Sign: exp = now.Add(ttl).Unix().                                        *)
Exp(p) == Unix(issued[p] + TokenTTL)

(* Verify, of the URL as it was signed: exp < now.Unix() is expired.       *)
Verify(p) == issued[p] # Never /\ Unix(now) <= Exp(p)

(* Redis drops the key at its expiry.                                      *)
Claimed(p) == claim[p] > now

SetNXPast(p) ==
  claim' = IF Claimed(p) THEN claim ELSE [claim EXCEPT ![p] = now - ClaimTTL]

SetNX(p) == claim' = IF Claimed(p) THEN claim ELSE [claim EXCEPT ![p] = now + ClaimTTL]

Incr(f) ==
  LET p == fire[f].pixel IN
  /\ count' = [count EXCEPT ![p] = @ + 1]
  /\ counted' = [counted EXCEPT ![p] = @ \cup {f}]

Answer(f, r) == fire' = [fire EXCEPT ![f].pc = "gif", ![f].result = r]
Fault == faults < MaxFaults /\ faults' = faults + 1

-----------------------------------------------------------------------------
(* serveAd hands the URL out.                                              *)
Issue(p) ==
  /\ issued[p] = Never
  /\ issued' = [issued EXCEPT ![p] = now]
  /\ UNCHANGED <<now, claim, fire, count, counted, faults>>

(* A URL is fetched; a request that does not verify is answered 204.       *)
Receive(f, p) ==
  /\ fire[f].pc = "idle" /\ issued[p] # Never
  /\ fire' = [fire EXCEPT ![f] =
                IF Verify(p)
                  THEN [@ EXCEPT !.pc = "claim", !.pixel = p, !.since = now]
                  ELSE [@ EXCEPT !.pc = "gif", !.pixel = p, !.result = "invalid"]]
  /\ UNCHANGED <<now, issued, claim, count, counted, faults>>

ClaimOnly(f) ==
  /\ fire[f].pc = "claim" /\ ~Claimed(fire[f].pixel)
  /\ SetNX(fire[f].pixel)
  /\ Answer(f, "ok")
  /\ UNCHANGED <<now, issued, count, counted, faults>>

ClaimAlways(f) ==
  /\ fire[f].pc = "claim"
  /\ claim' = [claim EXCEPT ![fire[f].pixel] = now + ClaimTTL]
  /\ fire' = [fire EXCEPT ![f].pc = "incr", ![f].resends = 0]
  /\ UNCHANGED <<now, issued, count, counted, faults>>

Claim(f) ==
  /\ fire[f].pc = "claim" /\ ~Claimed(fire[f].pixel)
  /\ SetNX(fire[f].pixel)
  /\ fire' = [fire EXCEPT ![f].pc = "incr", ![f].resends = 0]
  /\ UNCHANGED <<now, issued, count, counted, faults>>

Duplicate(f) ==
  /\ fire[f].pc = "claim" /\ Claimed(fire[f].pixel)
  /\ Answer(f, "duplicate")
  /\ UNCHANGED <<now, issued, claim, count, counted, faults>>

(* SETNX fails: nothing is recorded, but Redis may have set the key.       *)
ClaimError(f) ==
  /\ fire[f].pc = "claim" /\ Fault
  /\ SetNX(fire[f].pixel) \/ UNCHANGED claim
  /\ Answer(f, "ok")
  /\ UNCHANGED <<now, issued, count, counted>>

(* The reply is lost and the client sends the command again.               *)
ClaimResent(f) ==
  /\ fire[f].pc = "claim" /\ Fault /\ fire[f].resends < MaxResends
  /\ SetNX(fire[f].pixel)
  /\ fire' = [fire EXCEPT ![f].resends = @ + 1]
  /\ UNCHANGED <<now, issued, count, counted>>

Count(f) ==
  /\ fire[f].pc = "incr"
  /\ Incr(f)
  /\ Answer(f, "ok")
  /\ UNCHANGED <<now, issued, claim, faults>>

(* INCR fails, executed or not; the answer is the same.                    *)
CountError(f) ==
  /\ fire[f].pc = "incr" /\ Fault
  /\ Incr(f) \/ UNCHANGED <<count, counted>>
  /\ Answer(f, "ok")
  /\ UNCHANGED <<now, issued, claim>>

CountResent(f) ==
  /\ fire[f].pc = "incr" /\ Fault /\ fire[f].resends < MaxResends
  /\ Incr(f)
  /\ fire' = [fire EXCEPT ![f].resends = @ + 1]
  /\ UNCHANGED <<now, issued, claim>>

Crash(f) ==
  /\ fire[f].pc \in {"claim", "incr"} /\ Fault
  /\ fire' = [fire EXCEPT ![f].pc = "gone"]
  /\ UNCHANGED <<now, issued, claim, count, counted>>

(* A verified request reaches SET NX within Delay.                         *)
Advance ==
  /\ now < MaxTime
  /\ \A f \in Fire : fire[f].pc = "claim" => now < fire[f].since + Delay
  /\ now' = now + 1
  /\ UNCHANGED <<issued, claim, fire, count, counted, faults>>

Handle(f) ==
  \/ Claim(f) \/ Duplicate(f) \/ ClaimError(f) \/ ClaimResent(f)
  \/ Count(f) \/ CountError(f) \/ CountResent(f)

Next ==
  \/ \E p \in Pixel : Issue(p)
  \/ \E f \in Fire : (\E p \in Pixel : Receive(f, p)) \/ Handle(f) \/ Crash(f)
  \/ Advance

Spec == Init /\ [][Next]_vars

-----------------------------------------------------------------------------
(* The fires of a pixel that were let past Verify and have been answered.  *)
Accepted(p) == {f \in Fire : /\ fire[f].pixel = p /\ fire[f].pc = "gif"
                            /\ fire[f].result \in {"ok", "duplicate"}}
Counting(p) == \E f \in Fire : fire[f].pixel = p /\ fire[f].pc = "incr"

(* The fires that reach SET NX before a claim of the pixel can lapse.      *)
InTime(p) == {f \in Fire : fire[f].since + Delay < issued[p] + ClaimTTL}

(* Of these, by any number of concurrent handlers, whatever fails, at most *)
(* one increments the counter, and it does so once unless the client       *)
(* resent its INCR.  IdempotencyTTL and the default token TTL are both a   *)
(* day: of a token's life this leaves out its last second, which exp cuts  *)
(* off, and the handler's own delay.                                       *)
CountedOnce ==
  \A p \in Pixel :
    /\ Cardinality(counted[p] \cap InTime(p)) <= 1
    /\ \A f \in counted[p] : counted[p] = {f} => count[p] <= 1 + fire[f].resends

(* The mismatch is bounded by the faults: each costs the report at most    *)
(* one event.                                                              *)
OneLossPerFault ==
  Cardinality({p \in Pixel : Accepted(p) # {} /\ counted[p] = {} /\ ~Counting(p)})
    <= faults

=============================================================================
