--------------------------- MODULE RegistryProofs ---------------------------
(***************************************************************************)
(* What an adserver's readers may rely on, for any number of commits,      *)
(* failed loads, lost messages, requests and pings.                        *)
(***************************************************************************)
EXTENDS Registry, TLAPS

-----------------------------------------------------------------------------
(* Type correctness of the life of an adserver.                            *)
THEOREM RegistryTypeCorrect == Spec => []TypeOK
<1>1. Init => TypeOK
  <2> SUFFICES ASSUME Init PROVE TypeOK
    OBVIOUS
  <2>1. 0 \in Version /\ 0 \in 0..MaxMessages /\ 0 \in 0..Attempts /\ 0 \in 0..MaxOpen
    BY RegistryAssumption DEF Version
  <2>2. 0 < Attempts
    BY RegistryAssumption
  <2>3. snapshot \in Version \cup {NoSnapshot} /\ loaded \in Version \cup {NoSnapshot}
    BY DEF Init
  <2> QED BY <2>1, <2>2, <2>3 DEF Init, TypeOK, Booting
<1>2. TypeOK /\ [Next]_vars => TypeOK'
  <2> SUFFICES ASSUME TypeOK, [Next]_vars PROVE TypeOK'
    OBVIOUS
  <2> USE RegistryAssumption DEF TypeOK, Version, NoSnapshot, Booting, Running,
                                 refresher, channels, process
  <2>1. CASE Commit
    BY <2>1 DEF Commit
  <2>2. CASE Terminate
    BY <2>2 DEF Terminate
  <2>3. CASE Notify
    BY <2>3 DEF Notify
  <2>4. CASE TickerFires
    BY <2>4 DEF TickerFires
  <2>5. CASE Query
    BY <2>5 DEF Query
  <2>6. CASE Fail
    BY <2>6 DEF Fail
  <2>7. CASE Store
    BY <2>7 DEF Store
  <2>8. CASE CloseReady
    BY <2>8 DEF CloseReady
  <2>9. CASE Subscribe
    BY <2>9 DEF Subscribe
  <2>10. CASE OnTick
    BY <2>10 DEF OnTick
  <2>11. CASE OnMessage
    BY <2>11 DEF OnMessage
  <2>12. CASE OnStop
    BY <2>12 DEF OnStop
  <2>13. CASE OnClosed
    BY <2>13 DEF OnClosed
  <2>14. CASE Ping
    BY <2>14 DEF Ping
  <2>15. CASE PingFails
    BY <2>15 DEF PingFails
  <2>16. CASE StartRefresher
    BY <2>16 DEF StartRefresher
  <2>17. CASE Fatal
    BY <2>17 DEF Fatal
  <2>18. CASE Listen
    BY <2>18 DEF Listen
  <2>19. CASE GiveUp
    BY <2>19 DEF GiveUp
  <2>20. CASE Accept
    BY <2>20 DEF Accept
  <2>21. CASE Answer
    BY <2>21 DEF Answer
  <2>22. CASE Shutdown
    BY <2>22 DEF Shutdown
  <2>23. CASE Drained
    BY <2>23 DEF Drained
  <2>24. CASE Exit
    BY <2>24 DEF Exit
  <2>25. CASE UNCHANGED vars
    BY <2>25 DEF vars
  <2> QED BY <2>1, <2>2, <2>3, <2>4, <2>5, <2>6, <2>7, <2>8, <2>9,
             <2>10, <2>11, <2>12, <2>13, <2>14, <2>15, <2>16, <2>17,
             <2>18, <2>19, <2>20, <2>21, <2>22, <2>23, <2>24, <2>25 DEF
             Next, Reload, Loop, Boot, Stop
<1> QED BY <1>1, <1>2, PTL DEF Spec

-----------------------------------------------------------------------------
(***************************************************************************)
(* Nothing is older than what it is replaced with: a load under way holds  *)
(* the version Postgres had when it was queried, at least what is stored,  *)
(* since only this goroutine stores.                                       *)
(***************************************************************************)
Fresher ==
  /\ snapshot <= db /\ loaded <= db
  /\ run = "store" => snapshot <= loaded /\ loaded # NoSnapshot

(* There is a snapshot whenever main relies on one.                        *)
Backed ==
  /\ (ready \/ run = "close" \/ main \in Running \/ open > 0) => snapshot # NoSnapshot
  /\ main \in Booting => open = 0
  /\ (main \in {"stopping", "exited"} /\ ~late) => open = 0

LEMMA InitBacked == Init => Fresher /\ Backed
BY DEF Init, Fresher, Backed, NoSnapshot, Running

LEMMA NextFresher ==
  ASSUME TypeOK, Fresher, [Next]_vars
  PROVE  Fresher' /\ snapshot' >= snapshot
<1> USE DEF TypeOK, Fresher, Version, NoSnapshot, refresher, channels, process
<1>1. CASE Commit \/ Terminate \/ Notify \/ TickerFires
  BY <1>1, RegistryAssumption DEF Commit, Terminate, Notify, TickerFires
<1>2. CASE Reload
  BY <1>2, RegistryAssumption DEF Reload, Query, Fail, Store, CloseReady
<1>3. CASE Loop \/ OnClosed
  BY <1>3, RegistryAssumption DEF Loop, OnClosed, Subscribe, OnTick, OnMessage, OnStop
<1>4. CASE Boot \/ Fatal \/ Accept \/ Answer \/ Stop
  BY <1>4, RegistryAssumption DEF Boot, Fatal, Ping, PingFails, StartRefresher, Listen,
     GiveUp, Accept, Answer, Stop, Shutdown, Drained, Exit
<1>5. CASE UNCHANGED vars
  BY <1>5, RegistryAssumption DEF vars
<1> QED BY <1>1, <1>2, <1>3, <1>4, <1>5 DEF Next

LEMMA NextBacked ==
  ASSUME TypeOK, Fresher, Backed, [Next]_vars
  PROVE  Backed'
<1> USE DEF Backed, refresher, channels, process
<1>1. CASE Commit \/ Terminate \/ Notify \/ TickerFires
  BY <1>1 DEF Commit, Terminate, Notify, TickerFires
<1>2. CASE Reload
  BY <1>2 DEF Reload, Query, Fail, Store, CloseReady, Fresher
<1>3. CASE Loop \/ OnClosed
  BY <1>3 DEF Loop, OnClosed, Subscribe, OnTick, OnMessage, OnStop
<1>4. CASE Boot \/ Fatal
  BY <1>4 DEF Boot, Fatal, Ping, PingFails, StartRefresher, Listen, GiveUp, Booting, Running
<1>5. CASE Accept \/ Answer
  BY <1>5, RegistryAssumption DEF Accept, Answer, TypeOK, Booting, Running
<1>6. CASE Stop
  BY <1>6 DEF Stop, Shutdown, Drained, Exit, Booting, Running
<1>7. CASE UNCHANGED vars
  BY <1>7 DEF vars
<1> QED BY <1>1, <1>2, <1>3, <1>4, <1>5, <1>6, <1>7 DEF Next

(* No request finds a nil snapshot, and none is cut off by the end of the  *)
(* process unless Shutdown gave up on it.                                  *)
THEOREM RequestsAnswered == Spec => []AcceptedAreAnswered
<1>1. TypeOK /\ TypeOK' /\ Fresher /\ Backed /\ [Next]_vars => Fresher' /\ Backed'
  BY NextFresher, NextBacked
<1>2. Backed => AcceptedAreAnswered
  BY DEF Backed, AcceptedAreAnswered
<1> QED BY InitBacked, RegistryTypeCorrect, <1>1, <1>2, PTL DEF Spec

(* Readers see versions in the order they were committed, and keep the     *)
(* last one when a reload fails.                                           *)
THEOREM SnapshotsGoForward == Spec => NeverRollsBack
<1>1. TypeOK /\ Fresher /\ [Next]_vars => Fresher' /\ [snapshot' >= snapshot]_vars
  BY NextFresher
<1>2. Init => Fresher
  BY InitBacked
<1> QED BY <1>1, <1>2, RegistryTypeCorrect, PTL DEF Spec, NeverRollsBack

=============================================================================
