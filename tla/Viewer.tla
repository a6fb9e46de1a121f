------------------------------- MODULE Viewer -------------------------------
(***************************************************************************)
(* The viewers of /vast and the identity their caps are counted under      *)
(* (tracking/userid.go), around the handler of Delivery.                   *)
(*                                                                         *)
(* A request without ?user_id= and without the oas_uid cookie is served    *)
(* under a fresh uid, which the browser stores when it gets the answer: a  *)
(* request it sends before that is another stranger.  Answers get lost,    *)
(* arrive in any order, and a cross-site request (the cookie is            *)
(* SameSite=Lax, a player is rarely on the adserver's site) goes without   *)
(* the cookie the browser has.                                             *)
(***************************************************************************)
EXTENDS Delivery

CONSTANTS
  Browser,
  Named,      (* the uids a tester writes into ?user_id=                 *)
  NoUser      (* "", no cookie                                           *)

ASSUME ViewerAssumption == Named \in (SUBSET User) \ {{}} /\ NoUser \notin User

VARIABLES
  jar,        (* [Browser -> its oas_uid cookie]                         *)
  exchange,   (* [Request -> who sent it, the Set-Cookie of its answer,  *)
              (*  and whether the answer arrived]                        *)
  strays      (* [Browser -> how often it came as a stranger although it *)
              (*  had been minted an identity] (history)                 *)

viewerVars == <<jar, exchange, strays>>

Nobody == "nobody"

Exchange == [by : Browser \cup {Nobody}, cookie : User \cup {NoUser}, got : BOOLEAN]

(* Whose a request will be is not known before it is sent.                 *)
VInit ==
  /\ Init
  /\ \A r \in Request : req[r].user \in Named
  /\ jar = [b \in Browser |-> NoUser]
  /\ exchange = [r \in Request |-> [by |-> Nobody, cookie |-> NoUser, got |-> FALSE]]
  /\ strays = [b \in Browser |-> 0]

(* uuid.NewString: a uid nobody has had.                                   *)
Fresh == User \ (Named \cup {req[r].user : r \in {q \in Request : req[q].pc # "idle"}})

(* The uids Resolve may choose, and whether it must be set.                *)
Resolve(explicit, cookie) ==
  IF explicit # NoUser THEN {[uid |-> explicit, set |-> FALSE]}
  ELSE IF cookie # NoUser THEN {[uid |-> cookie, set |-> FALSE]}
  ELSE {[uid |-> u, set |-> TRUE] : u \in Fresh}

(* The identity b was given may still be on its way, or stay at home.      *)
Stray(b, cookie) ==
  \/ cookie # jar[b]
  \/ \E q \in Request :
       exchange[q].by = b /\ exchange[q].cookie # NoUser /\ ~exchange[q].got

Send(r, b) ==
  \E explicit \in Named \cup {NoUser}, cookie \in {NoUser, jar[b]} :
    \E id \in Resolve(explicit, cookie) :
      /\ Arrive(r) \/ ArriveDirect(r) \/ ArriveUnknown(r)
      /\ req'[r].user = id.uid
      /\ exchange' = [exchange EXCEPT ![r] =
           [by |-> b, cookie |-> IF id.set THEN id.uid ELSE NoUser, got |-> FALSE]]
      /\ strays' = [strays EXCEPT ![b] = IF id.set /\ Stray(b, cookie) THEN @ + 1 ELSE @]
      /\ UNCHANGED jar

(* Faulty variant, used only to show that a property notices it: the       *)
(* cookie is written with the ad instead of ahead of the selection.        *)
SetUIDCookieWithAd(r) ==
  IF req[r].pc = "inline" THEN exchange[r].cookie ELSE NoUser

(* The Set-Cookie of the answer, whatever the answer is.                   *)
SetUIDCookie(r) == exchange[r].cookie

(* An answer that carries a cookie reaches the browser.                    *)
Receive(r) ==
  /\ req[r].pc \in {"inline", "empty"}
  /\ exchange[r].cookie # NoUser /\ ~exchange[r].got
  /\ exchange' = [exchange EXCEPT ![r].got = TRUE]
  /\ jar' = IF SetUIDCookie(r) = NoUser THEN jar
            ELSE [jar EXCEPT ![exchange[r].by] = SetUIDCookie(r)]
  /\ UNCHANGED <<vars, strays>>

Unseen ==
  /\ \/ \E r \in Request : Handle(r) \/ Crash(r)
     \/ \E s \in Snapshots : StoreSnapshot(s)
     \/ \E u \in User, a \in Ad : WindowExpires(u, a)
  /\ UNCHANGED viewerVars

VNext ==
  \/ \E r \in Request, b \in Browser : Send(r, b)
  \/ \E r \in Request : Receive(r)
  \/ Unseen

VSpec == VInit /\ [][VNext]_<<vars, viewerVars>>

-----------------------------------------------------------------------------
VTypeOK ==
  /\ TypeOK
  /\ jar \in [Browser -> User \cup {NoUser}]
  /\ exchange \in [Request -> Exchange]
  /\ strays \in [Browser -> Nat]

(* What b was granted of an ad in the windows that are open, under all the *)
(* identities it went by.                                                  *)
Granted(b, a) ==
  {r \in UNION {slots[u][a] : u \in User \ Named} : exchange[r].by = b}

(* The cap is meant for a person: one that waits for the answer to its     *)
(* first request and returns the cookie is held to max_impressions per     *)
(* window, whatever the answers were; each time it came as a stranger      *)
(* bought it one more allowance, and nothing else does.                    *)
ViewerCapHeld ==
  \A b \in Browser, a \in Ad :
    \/ Granted(b, a) = {}
    \/ \E s \in published : Cardinality(Granted(b, a)) <= s.freqCap[a] * (1 + strays[b])

=============================================================================
