--------------------------- MODULE DashboardProofs ---------------------------
(***************************************************************************)
(* The dashboard: who gets in (Accounts), the campaigns it edits while the *)
(* worker completes them (Campaigns), the media of an ad (CreativePicker), *)
(* for any browsers, addresses, campaigns, ads, budgets, URLs, uploads and *)
(* bounds.  The three share no variable: each has a specification and an   *)
(* invariant of its own.                                                   *)
(***************************************************************************)
EXTENDS Accounts, Campaigns, CreativePicker, TLAPS

-----------------------------------------------------------------------------
(* Accounts: types.                                                        *)
LEMMA AccountsStepTypes == TypeOK /\ [Next]_vars => TypeOK'
<1> SUFFICES ASSUME TypeOK, [Next]_vars PROVE TypeOK'
  OBVIOUS
<1>0. 0 \in 0..SessionTTL /\ SessionTTL \in 0..SessionTTL
  BY AccountsAssumption
<1> USE AccountsAssumption DEF TypeOK
<1>1. ASSUME NEW b \in Browser, NEW where \in Requested \cup Acting \cup Shown, Goto(b, where)
      PROVE  at' \in [Browser -> Requested \cup Acting \cup Shown]
  BY <1>1 DEF Goto
<1>2. ASSUME NEW b \in Browser, Proxy(b) \/ LoginPage(b) \/ SetupPage(b) PROVE TypeOK'
  BY <1>1, <1>2 DEF Proxy, LoginPage, SetupPage, Requested, Shown
<1>3. ASSUME NEW b \in Browser, Logout(b) PROVE TypeOK'
  <2>1. session' \in [Browser -> 0..SessionTTL]
    BY <1>0, <1>3 DEF Logout
  <2> QED BY <1>1, <1>3, <2>1 DEF Logout, Requested
<1>4. ASSUME NEW b \in Browser, Enter(b)
      PROVE  session' \in [Browser -> 0..SessionTTL]
             /\ at' \in [Browser -> Requested \cup Acting \cup Shown]
  BY <1>0, <1>1, <1>4 DEF Enter, SetSessionCookie, Requested
<1>5. ASSUME NEW b \in Browser, Count(b) \/ InsertRefused(b) \/ WrongCredentials(b) \/ Fails(b)
      PROVE  TypeOK'
  BY <1>1, <1>5 DEF Count, InsertRefused, WrongCredentials, Fails, Acting, Shown
<1>6. ASSUME NEW b \in Browser, Insert(b) PROVE TypeOK'
  <2>1. users' \in SUBSET User /\ UNCHANGED <<form, late>>
    BY <1>6 DEF Insert
  <2>2. CASE Enter(b)
    BY <1>4, <2>1, <2>2
  <2>3. CASE Goto(b, "error") /\ UNCHANGED session
    BY <1>1, <2>1, <2>3 DEF Shown
  <2> QED BY <1>6, <2>2, <2>3 DEF Insert
<1>7. ASSUME NEW b \in Browser, LogIn(b) PROVE TypeOK'
  BY <1>4, <1>7 DEF LogIn
<1>8. ASSUME NEW b \in Browser, NEW what \in Requested, Visit(b, what) PROVE TypeOK'
  BY <1>1, <1>8 DEF Visit
<1>9. ASSUME NEW b \in Browser, NEW u \in User, SubmitSetup(b, u) PROVE TypeOK'
  <2>1. form' \in [Browser -> User]
    BY <1>9 DEF SubmitSetup
  <2>2. late' \in [Browser -> BOOLEAN]
    BY <1>9 DEF SubmitSetup
  <2> QED BY <1>1, <1>9, <2>1, <2>2 DEF SubmitSetup, Acting
<1>10. ASSUME NEW b \in Browser, NEW u \in User, SubmitLogin(b, u) PROVE TypeOK'
  <2>1. form' \in [Browser -> User]
    BY <1>10 DEF SubmitLogin
  <2> QED BY <1>1, <1>10, <2>1 DEF SubmitLogin, Acting
<1>11. CASE Elapse
  <2>1. session' \in [Browser -> 0..SessionTTL]
    BY <1>11 DEF Elapse, HasSession
  <2> QED BY <1>11, <2>1 DEF Elapse
<1>12. CASE UNCHANGED vars
  BY <1>12 DEF vars
<1> QED BY <1>2, <1>3, <1>5, <1>6, <1>7, <1>8, <1>9, <1>10, <1>11, <1>12 DEF Next, Serve

(* Type correctness: sessions stay within their life, pages are pages.     *)
THEOREM AccountsTypeCorrect == Spec => []TypeOK
<1>1. Init => TypeOK
  <2> SUFFICES ASSUME Init PROVE TypeOK
    OBVIOUS
  <2>1. 0 \in 0..SessionTTL
    BY AccountsAssumption
  <2> QED BY <2>1 DEF Init, TypeOK, Requested
<1> QED BY <1>1, AccountsStepTypes, PTL DEF Spec

-----------------------------------------------------------------------------
(***************************************************************************)
(* A browser past its count submitted before there was an admin: users     *)
(* only grow, so a later one was counted out.                              *)
(***************************************************************************)
CountedOut ==
  \A b \in Browser : late[b] => users # {} /\ at[b] # "insert"

LEMMA StepCountedOut == TypeOK /\ CountedOut /\ [Next]_vars => CountedOut'
<1> SUFFICES ASSUME TypeOK, CountedOut, [Next]_vars PROVE CountedOut'
  OBVIOUS
<1> USE DEF CountedOut, TypeOK
<1>1. ASSUME users \subseteq users', UNCHANGED late,
             \A b \in Browser : late[b] => (at'[b] = at[b] \/ at'[b] # "insert")
      PROVE  CountedOut'
  BY <1>1
<1>2. ASSUME NEW b \in Browser, NEW where, Goto(b, where), where # "insert" \/ ~late[b],
             users \subseteq users', UNCHANGED late
      PROVE  CountedOut'
  BY <1>1, <1>2 DEF Goto
<1>3. ASSUME NEW b \in Browser, Proxy(b) \/ LoginPage(b) \/ SetupPage(b) PROVE CountedOut'
  BY <1>2, <1>3 DEF Proxy, LoginPage, SetupPage
<1>4. ASSUME NEW b \in Browser, Logout(b) \/ InsertRefused(b) \/ WrongCredentials(b) \/ Fails(b)
      PROVE  CountedOut'
  BY <1>2, <1>4 DEF Logout, InsertRefused, WrongCredentials, Fails
<1>5. ASSUME NEW b \in Browser, Count(b) PROVE CountedOut'
  BY <1>2, <1>5 DEF Count
<1>6. ASSUME NEW b \in Browser, Insert(b) PROVE CountedOut'
  BY <1>2, <1>6 DEF Insert, Enter
<1>7. ASSUME NEW b \in Browser, LogIn(b) PROVE CountedOut'
  BY <1>2, <1>7 DEF LogIn, Enter
<1>8. ASSUME NEW b \in Browser, NEW what \in Requested, Visit(b, what) PROVE CountedOut'
  BY <1>2, <1>8 DEF Visit, Requested
<1>9. ASSUME NEW b \in Browser, NEW u \in User, SubmitSetup(b, u) PROVE CountedOut'
  BY <1>9 DEF SubmitSetup, Goto
<1>10. ASSUME NEW b \in Browser, NEW u \in User, SubmitLogin(b, u) PROVE CountedOut'
  BY <1>2, <1>10 DEF SubmitLogin
<1>11. CASE Elapse \/ UNCHANGED vars
  BY <1>1, <1>11 DEF Elapse, vars
<1> QED BY <1>3, <1>4, <1>5, <1>6, <1>7, <1>8, <1>9, <1>10, <1>11 DEF Next, Serve

(* Setup is closed to every form submitted once there is an admin, with    *)
(* any number of submissions racing between count and insert.              *)
THEOREM SetupIsClosed == Spec => SetupCloses
<1>1. Init => CountedOut
  BY DEF Init, CountedOut
<1>2. CountedOut => [\A b \in Browser : (at[b] = "insert" /\ late[b]) => users' \subseteq users]_vars
  BY DEF CountedOut
<1> QED BY <1>1, <1>2, StepCountedOut, AccountsTypeCorrect, PTL DEF Spec, SetupCloses

(* However setups race, an address has one row.                            *)
THEOREM AddressesUnique == Spec => []OneAccountPerAddress
<1>1. Init => OneAccountPerAddress
  BY DEF Init, OneAccountPerAddress
<1>2. OneAccountPerAddress /\ [Next]_vars => OneAccountPerAddress'
  <2> SUFFICES ASSUME OneAccountPerAddress, [Next]_vars PROVE OneAccountPerAddress'
    OBVIOUS
  <2>1. CASE \E b \in Browser : Insert(b)
    BY <2>1 DEF Insert, Taken, OneAccountPerAddress
  <2>2. CASE ~\E b \in Browser : Insert(b)
    <3>1. UNCHANGED users
      BY <2>2 DEF Next, Serve, Proxy, LoginPage, SetupPage, Logout, Count, InsertRefused,
         LogIn, WrongCredentials, Fails, Visit, SubmitSetup, SubmitLogin, Elapse, vars
    <3> QED BY <3>1 DEF OneAccountPerAddress
  <2> QED BY <2>1, <2>2
<1> QED BY <1>1, <1>2, PTL DEF Spec

-----------------------------------------------------------------------------
(***************************************************************************)
(* Campaigns.  The worker decides on rows it read when its tick began, and *)
(* what it completes had spent a budget of this tick.  First the types.    *)
(***************************************************************************)
LEMMA QueryType ==
  ASSUME CampaignsTypeOK
  PROVE  /\ loadQuery \in Snapshot
         /\ \A a \in loadQuery.ads : loadQuery.of[a] \in DOMAIN campaign
         /\ \A c \in DOMAIN campaign : loadQuery.budget[c] = campaign[c].budget
<1> USE CampaignsAssumption
<1>1. AnyCampaign \in Campaign /\ AnyBudget \in Budgets
  BY DEF AnyCampaign, AnyBudget
<1>2. \A a \in Ad : Served(a) => ad[a].campaign \in DOMAIN campaign
  BY DEF Served, CampaignsTypeOK
<1>3. \A c \in DOMAIN campaign : c \in Campaign /\ campaign[c].budget \in Budgets
  BY DEF CampaignsTypeOK, Row
<1> QED BY <1>1, <1>2, <1>3 DEF loadQuery, Snapshot, CampaignsTypeOK

LEMMA CampaignsInitType == CampaignsInit => CampaignsTypeOK
<1> SUFFICES ASSUME CampaignsInit PROVE CampaignsTypeOK
  OBVIOUS
<1> USE CampaignsAssumption
<1>1. AnyCampaign \in Campaign /\ AnyBudget \in Budgets
  BY DEF AnyCampaign, AnyBudget
<1>2. DOMAIN campaign = {} /\ DOMAIN ad = {}
  BY DEF CampaignsInit
<1>3. campaign \in [DOMAIN campaign -> Row] /\ ad \in [DOMAIN ad -> AdRow]
  BY <1>2 DEF CampaignsInit
<1>4. \A a \in Ad : ~Served(a)
  BY <1>2 DEF Served
<1>5. registry \in Snapshot
  BY <1>1, <1>2, <1>4 DEF CampaignsInit, loadQuery, Snapshot
<1>6. tick \in Tick
  BY <1>1 DEF CampaignsInit, Tick
<1>7. /\ imps \in [Campaign -> 0..MaxImps] /\ caps \in [Campaign -> SUBSET Budgets]
      /\ 0 \in 0..MaxMessages /\ 0 \in 0..MaxEdits /\ 0 \in 0..MaxFaults
  BY DEF CampaignsInit, NoCaps
<1> QED BY <1>2, <1>3, <1>5, <1>6, <1>7 DEF CampaignsInit, CampaignsTypeOK

LEMMA RowTypes ==
  ASSUME NEW r \in Row
  PROVE  /\ \A s \in {"active", "paused", "completed", "archived"} :
              [r EXCEPT !.status = s] \in Row /\ [r EXCEPT !.status = s].budget = r.budget
         /\ \A d \in {"before", "inside", "over"} :
              [r EXCEPT !.dates = d] \in Row /\ [r EXCEPT !.dates = d].budget = r.budget
BY DEF Row

LEMMA CampaignsNextType ==
  ASSUME CampaignsTypeOK, [CampaignsNext]_campaignsVars
  PROVE  CampaignsTypeOK'
<1> USE CampaignsAssumption
<1>0. /\ edits \in Int /\ faults \in Int /\ messages \in Int
      /\ tick.at \in Campaign /\ tick.todo \in SUBSET Campaign
  BY DEF CampaignsTypeOK, Tick
<1>1. ASSUME NEW c \in Campaign, NEW w \in Row, SaveCampaign(c, w) PROVE CampaignsTypeOK'
  <2>1. /\ DOMAIN campaign' = DOMAIN campaign \cup {c}
        /\ campaign' \in [DOMAIN campaign' -> Row]
    BY <1>1 DEF SaveCampaign, CampaignsTypeOK
  <2>2. edits' \in 0..MaxEdits
    BY <1>0, <1>1 DEF SaveCampaign, Edit, CampaignsTypeOK
  <2>3. caps' \in [Campaign -> SUBSET Budgets]
    <3>1. w.budget \in Budgets
      BY DEF Row
    <3>2. caps' = caps \/ caps' = [caps EXCEPT ![c] = caps[c] \cup {w.budget}]
      BY <1>1 DEF SaveCampaign
    <3> QED BY <3>1, <3>2 DEF CampaignsTypeOK
  <2> QED BY <1>1, <2>1, <2>2, <2>3 DEF SaveCampaign, CampaignsTypeOK
<1>2. ASSUME NEW c \in Campaign, archiveCampaign(c) \/ TimePasses(c) PROVE CampaignsTypeOK'
  <2>1. c \in DOMAIN campaign /\ campaign[c] \in Row
    BY <1>2 DEF archiveCampaign, TimePasses, CampaignsTypeOK
  <2>2. PICK r \in Row : campaign' = [campaign EXCEPT ![c] = r]
    <3>1. CASE archiveCampaign(c)
      <4>1. campaign' = [campaign EXCEPT ![c] = [campaign[c] EXCEPT !.status = "archived"]]
        BY <3>1 DEF archiveCampaign
      <4> QED BY <2>1, <4>1, RowTypes
    <3>2. CASE TimePasses(c)
      <4>1. \E d \in {"before", "inside", "over"} :
              campaign' = [campaign EXCEPT ![c] = [campaign[c] EXCEPT !.dates = d]]
        BY <3>2 DEF TimePasses
      <4> QED BY <2>1, <4>1, RowTypes
    <3> QED BY <1>2, <3>1, <3>2
  <2>3. DOMAIN campaign' = DOMAIN campaign /\ campaign' \in [DOMAIN campaign' -> Row]
    BY <2>2 DEF CampaignsTypeOK
  <2>4. edits' \in 0..MaxEdits
    BY <1>0, <1>2 DEF archiveCampaign, TimePasses, Edit, CampaignsTypeOK
  <2> QED BY <1>2, <2>3, <2>4 DEF archiveCampaign, TimePasses, CampaignsTypeOK
<1>3. ASSUME NEW a \in Ad, NEW w \in AdRow, SaveAd(a, w) PROVE CampaignsTypeOK'
  <2>1. /\ DOMAIN ad' = DOMAIN ad \cup {a}
        /\ ad' \in [DOMAIN ad' -> AdRow]
        /\ \A b \in DOMAIN ad' : ad'[b].campaign \in DOMAIN campaign
    BY <1>3 DEF SaveAd, CampaignsTypeOK
  <2>2. edits' \in 0..MaxEdits
    BY <1>0, <1>3 DEF SaveAd, Edit, CampaignsTypeOK
  <2> QED BY <1>3, <2>1, <2>2 DEF SaveAd, CampaignsTypeOK
<1>4. ASSUME NEW a \in Ad, archiveAd(a) PROVE CampaignsTypeOK'
  <2>1. a \in DOMAIN ad /\ ad[a] \in AdRow
    BY <1>4 DEF archiveAd, CampaignsTypeOK
  <2> DEFINE r == [ad[a] EXCEPT !.status = "archived"]
  <2>2. r \in AdRow /\ r.campaign = ad[a].campaign
    BY <2>1 DEF AdRow
  <2>3. ad' = [ad EXCEPT ![a] = r]
    BY <1>4 DEF archiveAd
  <2> HIDE DEF r
  <2>4. /\ DOMAIN ad' = DOMAIN ad /\ ad' \in [DOMAIN ad' -> AdRow]
        /\ \A b \in DOMAIN ad' : ad'[b].campaign \in DOMAIN campaign
    BY <2>1, <2>2, <2>3 DEF CampaignsTypeOK
  <2>5. edits' \in 0..MaxEdits
    BY <1>0, <1>4 DEF archiveAd, Edit, CampaignsTypeOK
  <2> QED BY <1>4, <2>4, <2>5 DEF archiveAd, CampaignsTypeOK
<1>5. CASE Reload
  <2>1. messages' \in 0..MaxMessages
    BY <1>0, <1>5 DEF Reload, CampaignsTypeOK
  <2> QED BY <1>5, <2>1, QueryType DEF Reload, CampaignsTypeOK
<1>6. ASSUME NEW a \in Ad, Reserve(a) PROVE CampaignsTypeOK'
  <2> DEFINE c == registry.of[a]
  <2>1. c \in Campaign
    BY DEF CampaignsTypeOK, Snapshot
  <2>2. imps' = [imps EXCEPT ![c] = @ + 1] /\ imps[c] < MaxImps
    BY <1>6 DEF Reserve
  <2>3. imps' \in [Campaign -> 0..MaxImps]
    BY <2>1, <2>2 DEF CampaignsTypeOK
  <2> QED BY <1>6, <2>3 DEF Reserve, CampaignsTypeOK
<1>7. CASE Complete \/ CompleteFails
  <2>1. \/ campaign' = campaign
        \/ /\ campaign[tick.at].status = "active"
           /\ campaign' = [campaign EXCEPT ![tick.at] = [campaign[tick.at] EXCEPT !.status = "completed"]]
    BY <1>7 DEF Complete, CompleteFails
  <2>2. DOMAIN campaign' = DOMAIN campaign /\ campaign' \in [DOMAIN campaign' -> Row]
    <3>1. CASE tick.at \in DOMAIN campaign
      <4>1. campaign[tick.at] \in Row
        BY <3>1 DEF CampaignsTypeOK
      <4> QED BY <2>1, <4>1, RowTypes DEF CampaignsTypeOK
    <3>2. CASE tick.at \notin DOMAIN campaign
      BY <2>1, <3>2 DEF CampaignsTypeOK
    <3> QED BY <3>1, <3>2
  <2>3. tick' \in Tick
    BY <1>7 DEF Complete, CompleteFails, CampaignsTypeOK, Tick
  <2>4. faults' \in 0..MaxFaults
    BY <1>0, <1>7 DEF Complete, CompleteFails, Fault, CampaignsTypeOK
  <2> QED BY <1>7, <2>2, <2>3, <2>4 DEF Complete, CompleteFails, CampaignsTypeOK
<1>8. ASSUME NEW c \in Campaign, ReadCount(c) \/ ReadFails(c) PROVE CampaignsTypeOK'
  <2>1. tick' \in Tick
    BY <1>8 DEF ReadCount, ReadFails, CampaignsTypeOK, Tick
  <2>2. faults' \in 0..MaxFaults
    BY <1>0, <1>8 DEF ReadCount, ReadFails, Fault, CampaignsTypeOK
  <2> QED BY <1>8, <2>1, <2>2 DEF ReadCount, ReadFails, CampaignsTypeOK
<1>9. CASE Load
  <2>1. tick' = [tick EXCEPT !.pc = "read", !.cap = loadQuery.budget,
                             !.todo = Seen(loadQuery), !.paused = FALSE]
    BY <1>9 DEF Load
  <2>2. loadQuery.budget \in [Campaign -> Budgets] /\ Seen(loadQuery) \in SUBSET Campaign
    BY QueryType DEF Snapshot, Seen
  <2>3. tick' \in Tick
    BY <2>1, <2>2 DEF CampaignsTypeOK, Tick
  <2>4. caps' \in [Campaign -> SUBSET Budgets]
    BY <1>9, <2>2 DEF Load
  <2> QED BY <1>9, <2>3, <2>4 DEF Load, CampaignsTypeOK
<1>10. CASE Finish \/ CutShort
  <2>1. tick' \in Tick
    BY <1>10 DEF Finish, CutShort, CampaignsTypeOK, Tick
  <2>2. faults' \in 0..MaxFaults /\ messages' \in 0..MaxMessages
    BY <1>0, <1>10 DEF Finish, CutShort, Fault, CampaignsTypeOK
  <2>3. caps' \in [Campaign -> SUBSET Budgets]
    BY <1>10 DEF Finish, CutShort, NoCaps
  <2> QED BY <1>10, <2>1, <2>2, <2>3 DEF Finish, CutShort, CampaignsTypeOK
<1>11. CASE UNCHANGED campaignsVars
  BY <1>11 DEF campaignsVars, CampaignsTypeOK
<1> QED BY <1>1, <1>2, <1>3, <1>4, <1>5, <1>6, <1>7, <1>8, <1>9, <1>10, <1>11
        DEF CampaignsNext, Dashboard, Work

(* Type correctness of rows, snapshot and tick, for any bounds.            *)
THEOREM CampaignsTypeCorrect == CampaignsSpec => []CampaignsTypeOK
BY CampaignsInitType, CampaignsNextType, PTL DEF CampaignsSpec

-----------------------------------------------------------------------------
(***************************************************************************)
(* Campaigns: what a tick goes on is what it read.                         *)
(***************************************************************************)
Considered(c) ==
  /\ tick.pc # "idle"
  /\ c \in tick.todo \/ (tick.pc = "update" /\ c = tick.at)

(* The cap of a campaign the tick still has to decide on is one the row    *)
(* had since the tick began; the one it decided on had reached it.         *)
TickInv ==
  /\ \A c : Considered(c) =>
       /\ c \in DOMAIN campaign
       /\ tick.cap[c] > 0
       /\ tick.cap[c] \in caps[c]
  /\ tick.pc = "update" => imps[tick.at] >= tick.cap[tick.at]

LEMMA NextTick ==
  ASSUME CampaignsTypeOK, TickInv, [CampaignsNext]_campaignsVars
  PROVE  TickInv'
<1>1. ASSUME NEW c \in Campaign, NEW w \in Row, SaveCampaign(c, w) PROVE TickInv'
  <2>1. /\ tick' = tick /\ imps' = imps /\ DOMAIN campaign \subseteq DOMAIN campaign'
        /\ tick.pc # "idle" => caps' = [caps EXCEPT ![c] = caps[c] \cup {w.budget}]
    BY <1>1 DEF SaveCampaign
  <2>2. \A d \in Campaign : tick.pc # "idle" => caps[d] \subseteq caps'[d]
    BY <2>1 DEF CampaignsTypeOK
  <2>3. \A d : Considered(d) => d \in Campaign
    BY DEF Considered, CampaignsTypeOK, Tick
  <2>4. \A d : Considered(d)' => Considered(d) /\ tick.pc # "idle"
    BY <2>1 DEF Considered
  <2> QED BY <2>1, <2>2, <2>3, <2>4 DEF TickInv
<1>2. ASSUME NEW c \in Campaign, archiveCampaign(c) \/ TimePasses(c) PROVE TickInv'
  <2>1. DOMAIN campaign' = DOMAIN campaign
    BY <1>2 DEF archiveCampaign, TimePasses
  <2>2. tick' = tick /\ imps' = imps /\ caps' = caps
    BY <1>2 DEF archiveCampaign, TimePasses
  <2> QED BY <2>1, <2>2 DEF TickInv, Considered
<1>3. ASSUME NEW a \in Ad, archiveAd(a) \/ \E w \in AdRow : SaveAd(a, w) PROVE TickInv'
  BY <1>3 DEF archiveAd, SaveAd, Edit, TickInv, Considered
<1>4. CASE Reload \/ UNCHANGED campaignsVars
  BY <1>4 DEF Reload, campaignsVars, TickInv, Considered
<1>5. ASSUME NEW a \in Ad, Reserve(a) PROVE TickInv'
  <2>1. \A c \in Campaign : imps[c] \in Int /\ imps'[c] \in Int /\ imps'[c] >= imps[c]
    BY <1>5 DEF Reserve, CampaignsTypeOK, Snapshot
  <2>2. tick.at \in Campaign /\ tick.cap[tick.at] \in Int
    BY CampaignsAssumption DEF CampaignsTypeOK, Tick
  <2>3. tick.pc = "update" => imps'[tick.at] >= tick.cap[tick.at]
    BY <2>1, <2>2 DEF TickInv
  <2> QED BY <1>5, <2>3 DEF Reserve, TickInv, Considered
<1>6. CASE Complete \/ CompleteFails
  <2>1. DOMAIN campaign' = DOMAIN campaign
    BY <1>6 DEF Complete, CompleteFails
  <2>2. /\ tick'.pc = "read" /\ tick'.todo = tick.todo /\ tick'.cap = tick.cap
        /\ tick.pc = "update" /\ caps' = caps
    BY <1>6 DEF Complete, CompleteFails, CampaignsTypeOK, Tick
  <2> QED BY <2>1, <2>2 DEF TickInv, Considered
<1>7. ASSUME NEW c \in Campaign, ReadCount(c) \/ ReadFails(c) PROVE TickInv'
  <2>1. /\ tick'.cap = tick.cap /\ tick'.todo = tick.todo \ {c} /\ tick.pc = "read"
        /\ c \in tick.todo
        /\ \/ tick'.pc = "read"
           \/ tick'.pc = "update" /\ tick'.at = c /\ ~(imps[c] < tick.cap[c])
    BY <1>7 DEF ReadCount, ReadFails, CampaignsTypeOK, Tick
  <2>2. UNCHANGED <<campaign, imps, caps>>
    BY <1>7 DEF ReadCount, ReadFails
  <2>3. imps[c] \in Int /\ tick.cap[c] \in Int
    BY CampaignsAssumption DEF CampaignsTypeOK, Tick
  <2> QED BY <2>1, <2>2, <2>3 DEF TickInv, Considered
<1>8. CASE Load
  <2>1. /\ tick'.pc = "read" /\ tick'.cap = loadQuery.budget /\ tick'.todo = Seen(loadQuery)
        /\ UNCHANGED <<campaign, imps>>
        /\ \A c \in Campaign : caps'[c] = {loadQuery.budget[c]}
    BY <1>8 DEF Load, CampaignsTypeOK, Tick
  <2>2. \A c \in Seen(loadQuery) :
          /\ c \in DOMAIN campaign /\ c \in Campaign
          /\ loadQuery.budget[c] > 0
    BY QueryType DEF Seen
  <2> QED BY <2>1, <2>2 DEF TickInv, Considered
<1>9. CASE Finish \/ CutShort
  BY <1>9 DEF Finish, CutShort, CampaignsTypeOK, Tick, TickInv, Considered
<1> QED BY <1>1, <1>2, <1>3, <1>4, <1>5, <1>6, <1>7, <1>8, <1>9 DEF CampaignsNext, Dashboard, Work

CampaignsInv == CampaignsTypeOK /\ TickInv

LEMMA InitCampaigns == CampaignsInit => CampaignsInv
BY CampaignsInitType DEF CampaignsInit, CampaignsInv, TickInv, Considered

LEMMA NextCampaigns == CampaignsInv /\ [CampaignsNext]_campaignsVars => CampaignsInv'
BY CampaignsNextType, NextTick DEF CampaignsInv

(* Only its UPDATE changes a status without the dashboard.                 *)
LEMMA WorkerSteps ==
  ASSUME CampaignsInv, [CampaignsNext]_campaignsVars, NEW c \in DOMAIN campaign, Completes(c)
  PROVE  c = tick.at /\ tick.pc = "update"
<1>1. ~Dashboard
  <2>1. edits \in Int
    BY DEF CampaignsInv, CampaignsTypeOK
  <2>2. ~Edit
    BY <2>1 DEF Edit, Completes
  <2> QED BY <2>2 DEF Dashboard, SaveCampaign, archiveCampaign, SaveAd, archiveAd
<1>2. \A d \in Campaign : ~TimePasses(d)
  <2> SUFFICES ASSUME NEW d \in Campaign, TimePasses(d) PROVE FALSE
    OBVIOUS
  <2>1. campaign[c] \in Row
    BY DEF CampaignsInv, CampaignsTypeOK
  <2> QED BY <2>1 DEF TimePasses, Row, Completes
<1>3. Complete \/ CompleteFails
  BY <1>1, <1>2 DEF CampaignsNext, Work, Reload, Reserve, Load, ReadCount, ReadFails, Finish,
                    CutShort, campaignsVars, Completes
<1>4. /\ tick.pc = "update"
      /\ campaign' = [campaign EXCEPT ![tick.at] = [campaign[tick.at] EXCEPT !.status = "completed"]]
  BY <1>3 DEF Complete, CompleteFails, Completes
<1> QED BY <1>4 DEF Completes

(* Completion is for a budget the campaign had since the tick began, and   *)
(* that is spent, whatever operators commit meanwhile: the counter only    *)
(* grows, and the cap it is compared with was the row's at Load.           *)
THEOREM SpentIsSpent == CampaignsSpec => CompletesOnlySpent
<1> DEFINE A == \A c \in DOMAIN campaign :
                  Completes(c) => \E b \in caps[c] : b > 0 /\ imps[c] >= b
<1>1. CampaignsInv /\ [CampaignsNext]_campaignsVars => [A]_campaignsVars
  <2> SUFFICES ASSUME CampaignsInv, [CampaignsNext]_campaignsVars, NEW c \in DOMAIN campaign, Completes(c)
               PROVE  \E b \in caps[c] : b > 0 /\ imps[c] >= b
    BY DEF A
  <2>1. c = tick.at /\ tick.pc = "update"
    BY WorkerSteps
  <2>2. tick.cap[c] \in caps[c] /\ tick.cap[c] > 0 /\ imps[c] >= tick.cap[c]
    BY <2>1 DEF CampaignsInv, TickInv, Considered
  <2> QED BY <2>2
<1> HIDE DEF A
<1>2. CampaignsSpec => [][A]_campaignsVars
  BY <1>1, InitCampaigns, NextCampaigns, PTL DEF CampaignsSpec
<1> QED BY <1>2 DEF CompletesOnlySpent, A

-----------------------------------------------------------------------------
(***************************************************************************)
(* The creative picker: what it holds, what a save on its way carries and  *)
(* what the row names was served or stored.                                *)
(***************************************************************************)
(* An upload that is past /api/upload has a content type that is allowed.  *)
Presigning ==
  \A k \in Keys : uploads[k].stage = "put" => uploads[k].mime \in MediaMimes

(* The media columns name nothing, or something that was seen.             *)
Exists(value, urls, keys) ==
  \/ value = NoMedia
  \/ value.source = "external_url" /\ <<value.media, value.mime>> \in urls
  \/ value.source = "internal_s3" /\ <<value.media, value.mime>> \in keys

(* What the form holds, and what a save on its way carries, exists.        *)
Kept ==
  /\ Exists(row, served, stored) /\ Exists(creative, served, stored)
  /\ \A i \in DOMAIN calls :
       calls[i].kind = "save" => Exists(calls[i].media, served, stored)

PickerInv == PickerTypeOK /\ Presigning /\ Kept

-----------------------------------------------------------------------------
(***************************************************************************)
(* Records and queues.                                                     *)
(***************************************************************************)
LEMMA CreativeShape ==
  ASSUME NEW v \in Creative
  PROVE  /\ v.source \in {"external_url", "internal_s3"} /\ v # NoMedia
         /\ v.source = "external_url" => v.media \in Urls /\ v.mime \in MediaMimes
         /\ v.source = "internal_s3" => v.media \in Keys /\ v.mime \in MediaMimes
<1>1. CASE \E u \in Urls, m \in MediaMimes : v = External(u, m)
  BY <1>1 DEF External, NoMedia
<1>2. CASE \E k \in Keys, m \in MediaMimes : v = Internal(k, m)
  BY <1>2 DEF Internal, NoMedia
<1> QED BY <1>1, <1>2 DEF Creative

LEMMA Rereached ==
  ASSUME NEW c \in Call, NEW x \in Reach
  PROVE  /\ [c EXCEPT !.reach = x] \in Call
         /\ [c EXCEPT !.reach = x].kind = c.kind
         /\ [c EXCEPT !.reach = x].media = c.media
<1>1. CASE c \in [kind : {"probe"}, media : Urls, reach : Reach]
  BY <1>1 DEF Call
<1>2. CASE c \in [kind : {"save"}, media : Creative, reach : Reach]
  BY <1>2 DEF Call
<1> QED BY <1>1, <1>2 DEF Call

LEMMA UploadRereached ==
  ASSUME NEW p \in Upload, p.stage \in {"presign", "put"}, NEW x \in Reach
  PROVE  /\ [p EXCEPT !.reach = x] \in Upload
         /\ [p EXCEPT !.reach = x].stage = p.stage
         /\ [p EXCEPT !.reach = x].mime = p.mime
         /\ p.reach \in Reach /\ p.mime \in FileTypes \ {""}
<1>1. p \in [stage : {"presign", "put"}, mime : FileTypes \ {""}, reach : Reach]
  BY DEF Upload
<1> QED BY <1>1 DEF Upload

LEMMA UnderReach ==
  ASSUME NEW x \in Reach, NEW lost \in {"tab", "form"}
  PROVE  Under(x, lost) \in Reach
BY DEF Under, Reach

LEMMA CallShape ==
  ASSUME NEW c \in Call
  PROVE  /\ c.reach \in Reach
         /\ c.kind = "probe" => c.media \in Urls
         /\ c.kind = "save" => c.media \in Creative
BY DEF Call

(* What the queue holds after a step was in it before.                     *)
FromQueue ==
  /\ calls' \in Seq(Call) /\ Len(calls') <= MaxCalls
  /\ \A i \in DOMAIN calls' : \E j \in DOMAIN calls :
       calls'[i].kind = calls[j].kind /\ calls'[i].media = calls[j].media

UploadsKept == uploads' \in [Keys -> Upload] /\ Presigning'

LEMMA Bounds == MaxOpens \in Nat /\ MaxCalls \in Nat
BY PickerAssumption

LEMMA QueueShape ==
  ASSUME PickerTypeOK
  PROVE  /\ DOMAIN calls = 1..Len(calls) /\ Len(calls) \in Nat /\ Len(calls) <= MaxCalls
         /\ \A i \in 1..Len(calls) : calls[i] \in Call
<1>1. calls \in Seq(Call) /\ Len(calls) <= MaxCalls
  BY DEF PickerTypeOK
<1> QED BY <1>1

LEMMA HeadShape ==
  ASSUME PickerTypeOK, calls # <<>>
  PROVE  /\ 1 \in DOMAIN calls /\ Head(calls) = calls[1] /\ Head(calls) \in Call
         /\ Len(calls) - 1 \in Nat
<1>1. calls \in Seq(Call)
  BY DEF PickerTypeOK
<1> QED BY <1>1, QueueShape

LEMMA TailKeeps ==
  ASSUME PickerTypeOK, calls # <<>>, calls' = Tail(calls)
  PROVE  FromQueue
<1>1. calls \in Seq(Call) /\ MaxCalls \in Nat
  BY Bounds DEF PickerTypeOK
<1>2. /\ Tail(calls) \in Seq(Call) /\ Len(Tail(calls)) = Len(calls) - 1
      /\ \A i \in 1..(Len(calls) - 1) : Tail(calls)[i] = calls[i + 1]
  BY <1>1, HeadShape
<1>3. \A i \in DOMAIN calls' : i \in 1..(Len(calls) - 1) /\ calls'[i] = calls[i + 1]
  BY <1>2
<1> QED BY <1>1, <1>2, <1>3, QueueShape DEF FromQueue

LEMMA SameKeeps ==
  ASSUME PickerTypeOK, UNCHANGED calls
  PROVE  FromQueue
BY DEF FromQueue, PickerTypeOK

LEMMA SameUploads ==
  ASSUME PickerTypeOK, Presigning, UNCHANGED uploads
  PROVE  UploadsKept
BY DEF UploadsKept, PickerTypeOK, Presigning

(* Calls and uploads that lost the page, or part of it, are the same calls *)
(* and uploads.                                                            *)
LEMMA Rereaching ==
  ASSUME PickerTypeOK, Presigning,
         \A k \in Keys : \/ uploads'[k] = uploads[k]
                         \/ /\ uploads[k].stage \in {"presign", "put"}
                            /\ \E x \in Reach : uploads'[k] = [uploads[k] EXCEPT !.reach = x],
         uploads' = [k \in Keys |-> uploads'[k]]
  PROVE  UploadsKept
<1>1. ASSUME NEW k \in Keys
      PROVE  /\ uploads'[k] \in Upload
             /\ uploads'[k].stage = "put" => uploads'[k].mime \in MediaMimes
  <2>1. uploads[k] \in Upload
    BY DEF PickerTypeOK
  <2>2. CASE uploads'[k] = uploads[k]
    BY <2>1, <2>2 DEF Presigning
  <2>3. ASSUME uploads[k].stage \in {"presign", "put"},
               NEW x \in Reach, uploads'[k] = [uploads[k] EXCEPT !.reach = x]
        PROVE  /\ uploads'[k] \in Upload
               /\ uploads'[k].stage = "put" => uploads'[k].mime \in MediaMimes
    <3>1. PICK p \in Upload : p = uploads[k]
      BY <2>1
    <3>2. /\ [p EXCEPT !.reach = x] \in Upload
          /\ [p EXCEPT !.reach = x].stage = p.stage
          /\ [p EXCEPT !.reach = x].mime = p.mime
      BY <2>3, <3>1, UploadRereached
    <3> QED BY <2>3, <3>1, <3>2 DEF Presigning
  <2> QED BY <2>2, <2>3
<1> QED BY <1>1 DEF UploadsKept, Presigning

LEMMA UnmountKeeps ==
  ASSUME PickerTypeOK, Presigning, NEW lost \in {"tab", "form"}, Unmount(lost)
  PROVE  FromQueue /\ UploadsKept
<1>1. ASSUME NEW i \in 1..Len(calls)
      PROVE  /\ calls'[i] \in Call
             /\ calls'[i].kind = calls[i].kind /\ calls'[i].media = calls[i].media
  <2>1. PICK c \in Call : c = calls[i]
    BY QueueShape
  <2>2. PICK x \in Reach : x = Under(c.reach, lost)
    BY CallShape, UnderReach
  <2>3. calls'[i] = [c EXCEPT !.reach = x]
    BY <2>1, <2>2, QueueShape DEF Unmount
  <2> QED BY <2>1, <2>3, Rereached
<1>2. calls' = [i \in 1..Len(calls) |-> calls'[i]]
  BY QueueShape DEF Unmount
<1>3. calls' \in Seq(Call) /\ Len(calls') = Len(calls) /\ DOMAIN calls' = 1..Len(calls)
  BY <1>1, <1>2, QueueShape
<1>4. FromQueue
  BY <1>1, <1>3, QueueShape DEF FromQueue
<1>5. ASSUME NEW k \in Keys
      PROVE  \/ uploads'[k] = uploads[k]
             \/ /\ uploads[k].stage \in {"presign", "put"}
                /\ \E x \in Reach : uploads'[k] = [uploads[k] EXCEPT !.reach = x]
  <2>1. CASE uploads[k].stage \in {"presign", "put"}
    <3>1. uploads[k].reach \in Reach
      BY <2>1 DEF PickerTypeOK, Upload, Reach
    <3>2. Under(uploads[k].reach, lost) \in Reach
      BY <3>1, UnderReach
    <3> QED BY <2>1, <3>2 DEF Unmount
  <2>2. CASE uploads[k].stage \notin {"presign", "put"}
    BY <2>2 DEF Unmount
  <2> QED BY <2>1, <2>2
<1>6. uploads' = [k \in Keys |-> uploads'[k]]
  BY DEF Unmount
<1> QED BY <1>4, <1>5, <1>6, Rereaching

LEMMA CloseKeeps ==
  ASSUME PickerTypeOK, Presigning, calls # <<>>, CloseAfterCall
  PROVE  FromQueue /\ UploadsKept
<1> DEFINE n == Len(calls) - 1
<1>0. PICK m \in Nat : m = Len(calls) /\ m <= MaxCalls /\ m - 1 \in Nat
  BY HeadShape, QueueShape
<1>1. n \in Nat /\ n <= MaxCalls
  BY <1>0, Bounds
<1>2. ASSUME NEW i \in 1..n
      PROVE  /\ i + 1 \in DOMAIN calls /\ calls'[i] \in Call
             /\ calls'[i].kind = calls[i + 1].kind /\ calls'[i].media = calls[i + 1].media
  <2>1. i + 1 \in DOMAIN calls
    BY <1>1, QueueShape
  <2>2. PICK c \in Call : c = calls[i + 1]
    BY <2>1, QueueShape
  <2>3. calls'[i] = [c EXCEPT !.reach = "gone"]
    BY <2>2 DEF CloseAfterCall
  <2>4. "gone" \in Reach
    BY DEF Reach
  <2> QED BY <2>1, <2>2, <2>3, <2>4, Rereached
<1>3. calls' = [i \in 1..n |-> calls'[i]]
  BY DEF CloseAfterCall
<1> HIDE DEF n
<1>4. calls' \in Seq(Call) /\ Len(calls') = n /\ DOMAIN calls' = 1..n
  BY <1>1, <1>2, <1>3
<1>5. FromQueue
  BY <1>1, <1>2, <1>4 DEF FromQueue
<1>6. \A k \in Keys : \/ uploads'[k] = uploads[k]
                      \/ /\ uploads[k].stage \in {"presign", "put"}
                         /\ \E x \in Reach : uploads'[k] = [uploads[k] EXCEPT !.reach = x]
  BY DEF CloseAfterCall, Reach
<1>7. uploads' = [k \in Keys |-> uploads'[k]]
  BY DEF CloseAfterCall
<1> QED BY <1>5, <1>6, <1>7, Rereaching

-----------------------------------------------------------------------------
(***************************************************************************)
(* Steps.                                                                  *)
(***************************************************************************)
LEMMA ExistsLonger ==
  ASSUME NEW v, NEW s, NEW t, NEW s2, NEW t2, s \subseteq s2, t \subseteq t2, Exists(v, s, t)
  PROVE  Exists(v, s2, t2)
BY DEF Exists

(* A step that adds no call, and what it saves or commits exists.          *)
LEMMA StepKeeps ==
  ASSUME PickerInv, FromQueue, UploadsKept,
         row' \in Creative \cup {NoMedia}, creative' \in Creative \cup {NoMedia},
         visiting' \in BOOLEAN, opens' \in 0..MaxOpens,
         tab' \in {"url", "upload"}, text' \in Urls \cup {""},
         progress' \in {"none", "some", "full"},
         served \subseteq served', served' \subseteq Urls \X MediaMimes,
         stored \subseteq stored', stored' \subseteq Keys \X MediaMimes,
         Exists(row', served', stored'), Exists(creative', served', stored')
  PROVE  PickerInv'
<1>1. PickerTypeOK'
  BY DEF PickerTypeOK, FromQueue, UploadsKept
<1>2. ASSUME NEW i \in DOMAIN calls', calls'[i].kind = "save"
      PROVE  Exists(calls'[i].media, served', stored')
  <2>1. PICK j \in DOMAIN calls : calls'[i].kind = calls[j].kind /\ calls'[i].media = calls[j].media
    BY DEF FromQueue
  <2>2. Exists(calls[j].media, served, stored)
    BY <1>2, <2>1 DEF PickerInv, Kept
  <2>3. Exists(calls[j].media, served', stored')
    BY <2>2, ExistsLonger
  <2> QED BY <2>1, <2>3
<1> QED BY <1>1, <1>2 DEF PickerInv, Kept, UploadsKept

LEMMA AppendKeeps ==
  ASSUME PickerInv, NEW c \in Call, Len(calls) < MaxCalls, calls' = Append(calls, c),
         c.kind = "save" => Exists(c.media, served, stored),
         UNCHANGED <<row, visiting, opens, creative, tab, text, progress, uploads, served, stored>>
  PROVE  PickerInv'
<1>1. calls \in Seq(Call)
  BY DEF PickerInv, PickerTypeOK
<1>2. PICK n \in Nat : n = Len(calls) /\ n < MaxCalls
  BY QueueShape DEF PickerInv
<1>3. /\ calls' \in Seq(Call) /\ Len(calls') = n + 1
      /\ \A i \in DOMAIN calls' : i = n + 1 \/ i \in DOMAIN calls
      /\ calls'[n + 1] = c /\ \A i \in DOMAIN calls : calls'[i] = calls[i]
  BY <1>1, <1>2
<1>4. Len(calls') <= MaxCalls
  BY <1>2, <1>3, Bounds
<1>5. PickerTypeOK'
  BY <1>3, <1>4 DEF PickerInv, PickerTypeOK
<1>6. ASSUME NEW i \in DOMAIN calls', calls'[i].kind = "save"
      PROVE  Exists(calls'[i].media, served, stored)
  BY <1>3, <1>6 DEF PickerInv, Kept
<1> QED BY <1>5, <1>6 DEF PickerInv, Presigning, Kept

LEMMA MediaShape ==
  ASSUME NEW v \in Creative \cup {NoMedia}
  PROVE  UrlOf(v) \in Urls \cup {""} /\ TabOf(v) \in {"url", "upload"}
<1>1. CASE v \in Creative
  BY <1>1, CreativeShape DEF UrlOf, TabOf
<1>2. CASE v = NoMedia
  BY <1>2 DEF UrlOf, TabOf, NoMedia
<1> QED BY <1>1, <1>2

(* What a probe commits was seen while it was probed.                      *)
LEMMA ProbeSees ==
  ASSUME NEW url \in Urls, NEW head, NEW get
  PROVE  LET v == ProbeExternalMediaURL(url, head, get)
             resp == Answer(head, get)
         IN  \/ v = NoMedia
             \/ /\ v \in Creative /\ v.source = "external_url"
                /\ url \notin Refused /\ resp.status \in 200..299 /\ ~resp.large
                /\ v.media = url /\ v.mime = LowerMime(resp.mime)
                /\ LowerMime(resp.mime) \in MediaMimes
<1> DEFINE m == LowerMime(Answer(head, get).mime)
<1>1. CASE Accepted(url, Answer(head, get))
  <2>1. m \in MediaMimes /\ ProbeExternalMediaURL(url, head, get) = External(url, m)
    BY <1>1 DEF ProbeExternalMediaURL, Accepted
  <2> HIDE DEF m
  <2>2. /\ External(url, m) \in Creative /\ External(url, m).source = "external_url"
        /\ External(url, m).media = url /\ External(url, m).mime = m
    BY <2>1 DEF Creative, External
  <2> QED BY <1>1, <2>1, <2>2 DEF Accepted, m
<1>2. CASE ~Accepted(url, Answer(head, get))
  BY <1>2 DEF ProbeExternalMediaURL
<1> QED BY <1>1, <1>2

LEMMA InternalExists ==
  ASSUME NEW k \in Keys, NEW m \in MediaMimes, NEW s, NEW t, <<k, m>> \in t
  PROVE  Internal(k, m) \in Creative /\ Exists(Internal(k, m), s, t)
BY DEF Internal, Creative, Exists

LEMMA NothingExists == \A s, t : Exists(NoMedia, s, t)
BY DEF Exists

(* What a save carries is typed, and exists.                               *)
LEMMA SaveExists ==
  ASSUME PickerInv, calls # <<>>, Head(calls).kind = "save"
  PROVE  Head(calls).media \in Creative /\ Exists(Head(calls).media, served, stored)
<1>1. PICK c \in Call : c = Head(calls) /\ c = calls[1] /\ 1 \in DOMAIN calls
  BY HeadShape DEF PickerInv
<1> QED BY <1>1, CallShape DEF PickerInv, Kept

LEMMA OperatorKeeps ==
  ASSUME PickerInv, Operator
  PROVE  PickerInv'
<1> USE DEF PickerInv
<1>0. /\ row \in Creative \cup {NoMedia} /\ creative \in Creative \cup {NoMedia}
      /\ Exists(row, served, stored) /\ Exists(creative, served, stored)
      /\ opens \in 0..MaxOpens /\ visiting \in BOOLEAN
      /\ tab \in {"url", "upload"} /\ text \in Urls \cup {""}
      /\ progress \in {"none", "some", "full"}
      /\ served \subseteq Urls \X MediaMimes /\ stored \subseteq Keys \X MediaMimes
  BY DEF PickerTypeOK, Kept
<1>1. CASE Open
  <2>1. FromQueue /\ UploadsKept
    BY <1>1, SameKeeps, SameUploads DEF Open
  <2>2. opens' \in 0..MaxOpens
    <3>1. opens \in 0..MaxOpens /\ opens < MaxOpens /\ opens' = opens + 1
      BY <1>0, <1>1 DEF Open
    <3> QED BY <3>1, Bounds
  <2>3. tab' \in {"url", "upload"} /\ text' \in Urls \cup {""}
    BY <1>0, <1>1, MediaShape DEF Open
  <2> QED BY <1>0, <1>1, <2>1, <2>2, <2>3, StepKeeps DEF Open
<1>2. CASE Leave
  <2>1. FromQueue /\ UploadsKept
    BY <1>2, UnmountKeeps DEF Leave
  <2> QED BY <1>0, <1>2, <2>1, StepKeeps DEF Leave
<1>3. CASE SwitchTab
  <2>1. FromQueue /\ UploadsKept
    BY <1>3, UnmountKeeps DEF SwitchTab
  <2>2. tab' \in {"url", "upload"} /\ text' \in Urls \cup {""}
    BY <1>0, <1>3, MediaShape DEF SwitchTab
  <2> QED BY <1>0, <1>3, <2>1, <2>2, StepKeeps DEF SwitchTab
<1>4. CASE Validate
  <2> DEFINE c == [kind |-> "probe", media |-> text, reach |-> "tab"]
  <2>1. c \in Call /\ c.kind # "save"
    BY <1>0, <1>4 DEF Validate, Call, Reach
  <2>2. calls' = Append(calls, c) /\ Len(calls) < MaxCalls
    BY <1>4 DEF Validate
  <2> HIDE DEF c
  <2> QED BY <1>4, <2>1, <2>2, AppendKeeps DEF Validate
<1>5. CASE Submit
  <2> DEFINE c == [kind |-> "save", media |-> creative, reach |-> "form"]
  <2>1. c \in Call /\ c.media = creative
    BY <1>0, <1>5 DEF Submit, Call, Reach
  <2>2. calls' = Append(calls, c) /\ Len(calls) < MaxCalls
    BY <1>5 DEF Submit
  <2> HIDE DEF c
  <2> QED BY <1>0, <1>5, <2>1, <2>2, AppendKeeps DEF Submit
<1>6. ASSUME NEW u \in Urls \cup {""}, EditUrl(u) PROVE PickerInv'
  <2>1. FromQueue /\ UploadsKept
    BY <1>6, SameKeeps, SameUploads DEF EditUrl
  <2>2. creative' \in Creative \cup {NoMedia} /\ Exists(creative', served', stored')
    BY <1>6, NothingExists DEF EditUrl
  <2> QED BY <1>0, <1>6, <2>1, <2>2, StepKeeps DEF EditUrl
<1>7. ASSUME NEW k \in Keys, NEW type \in FileTypes, ChooseFile(k, type) PROVE PickerInv'
  <2>1. FromQueue
    BY <1>7, SameKeeps DEF ChooseFile
  <2>2. PICK m \in FileTypes \ {""} :
          uploads' = [uploads EXCEPT ![k] = [stage |-> "presign", reach |-> "tab", mime |-> m]]
    BY <1>7 DEF ChooseFile, FileTypes
  <2>3. [stage |-> "presign", reach |-> "tab", mime |-> m] \in Upload
    BY DEF Upload, Reach
  <2>4. UploadsKept
    BY <2>2, <2>3 DEF UploadsKept, Presigning, PickerTypeOK
  <2> QED BY <1>0, <1>7, <2>1, <2>4, StepKeeps DEF ChooseFile
<1> QED BY <1>1, <1>2, <1>3, <1>4, <1>5, <1>6, <1>7 DEF Operator

(* Uploads only end, and only what is stored is committed.                 *)
LEMMA UploadSteps ==
  ASSUME PickerInv, NEW k \in Keys, uploads[k].stage \in {"presign", "put"},
         uploads' = [uploads EXCEPT ![k] = [stage |-> "ended"]]
  PROVE  UploadsKept
<1>1. [stage |-> "ended"] \in Upload
  BY DEF Upload
<1> QED BY <1>1 DEF UploadsKept, PickerInv, PickerTypeOK, Presigning

LEMMA NetworkKeeps ==
  ASSUME PickerInv, Network
  PROVE  PickerInv'
<1> USE DEF PickerInv
<1>0. /\ row \in Creative \cup {NoMedia} /\ creative \in Creative \cup {NoMedia}
      /\ Exists(row, served, stored) /\ Exists(creative, served, stored)
      /\ opens \in 0..MaxOpens /\ visiting \in BOOLEAN
      /\ tab \in {"url", "upload"} /\ text \in Urls \cup {""}
      /\ progress \in {"none", "some", "full"}
      /\ served \subseteq Urls \X MediaMimes /\ stored \subseteq Keys \X MediaMimes
  BY DEF PickerTypeOK, Kept
<1>1. ASSUME NEW head, NEW get, ProbeAnswered(head, get) PROVE PickerInv'
  <2>1. PICK call \in Call : call = Head(calls) /\ call.kind = "probe" /\ call.media \in Urls
    BY <1>1, HeadShape, CallShape DEF ProbeAnswered
  <2> DEFINE resp == Answer(head, get)
             m == LowerMime(resp.mime)
             v == ProbeExternalMediaURL(call.media, head, get)
  <2>2. served \subseteq served' /\ served' \subseteq Urls \X MediaMimes
    <3>1. served \subseteq Urls \X MediaMimes
      BY <1>0
    <3>2. \/ served' = served
          \/ served' = served \cup {<<call.media, x>> : x \in MediaMimes \cap {m}}
      BY <1>1, <2>1 DEF ProbeAnswered
    <3> HIDE DEF m
    <3> QED BY <2>1, <3>1, <3>2
  <2>3. v \in Creative \cup {NoMedia} /\ Exists(v, served', stored')
    <3>1. CASE v = NoMedia
      BY <3>1, NothingExists
    <3>2. CASE v # NoMedia
      <4>1. /\ v \in Creative /\ v.source = "external_url"
            /\ call.media \notin Refused /\ resp.status \in 200..299 /\ ~resp.large
            /\ v.media = call.media /\ v.mime = m /\ m \in MediaMimes
        BY <2>1, <3>2, ProbeSees
      <4>2. <<call.media, m>> \in served'
        BY <1>1, <2>1, <4>1 DEF ProbeAnswered
      <4> HIDE DEF v, m
      <4> QED BY <4>1, <4>2 DEF Exists
    <3> QED BY <3>1, <3>2
  <2>4. creative' = creative \/ creative' = v
    BY <1>1, <2>1 DEF ProbeAnswered, Commit
  <2>5. Exists(creative, served', stored') /\ Exists(row, served', stored') /\ stored' = stored
    <3>1. stored' = stored /\ stored \subseteq stored'
      BY <1>1 DEF ProbeAnswered
    <3> QED BY <1>0, <2>2, <3>1, ExistsLonger
  <2>6. FromQueue /\ UploadsKept
    BY <1>1, TailKeeps, SameUploads DEF ProbeAnswered
  <2> HIDE DEF v
  <2>7. creative' \in Creative \cup {NoMedia} /\ Exists(creative', served', stored')
    BY <1>0, <2>3, <2>4, <2>5
  <2> QED BY <1>0, <1>1, <2>2, <2>5, <2>6, <2>7, StepKeeps DEF ProbeAnswered
<1>2. CASE SaveRefused
  <2>1. FromQueue /\ UploadsKept
    BY <1>2, TailKeeps, SameUploads DEF SaveRefused
  <2> QED BY <1>0, <1>2, <2>1, StepKeeps DEF SaveRefused
<1>3. CASE SaveAccepted \/ CallFails
  <2>1. calls # <<>>
    BY <1>3 DEF SaveAccepted, CallFails
  <2>2. FromQueue /\ UploadsKept /\ visiting' \in BOOLEAN
    <3>1. CASE CloseAfterCall
      BY <2>1, <3>1, CloseKeeps DEF CloseAfterCall
    <3>2. CASE calls' = Tail(calls) /\ UNCHANGED <<visiting, uploads>>
      BY <1>0, <2>1, <3>2, TailKeeps, SameUploads
    <3> QED BY <1>3, <3>1, <3>2 DEF SaveAccepted, CallFails
  <2>3. row' \in Creative \cup {NoMedia} /\ Exists(row', served', stored')
    <3>1. CASE UNCHANGED row
      BY <1>0, <1>3, <3>1 DEF SaveAccepted, CallFails
    <3>2. CASE Head(calls).kind = "save" /\ row' = Head(calls).media
      BY <1>3, <2>1, <3>2, SaveExists DEF SaveAccepted, CallFails
    <3> QED BY <1>3, <3>1, <3>2 DEF SaveAccepted, CallFails
  <2>4. UNCHANGED <<opens, creative, tab, text, progress, served, stored>>
    BY <1>3 DEF SaveAccepted, CallFails
  <2> QED BY <1>0, <2>2, <2>3, <2>4, StepKeeps
<1>4. ASSUME NEW k \in Keys, Presigned(k) PROVE PickerInv'
  <2>1. PICK p \in Upload : p = uploads[k] /\ p.stage = "presign" /\ p.mime \in MediaMimes
    BY <1>4 DEF Presigned, PickerTypeOK
  <2>2. [p EXCEPT !.stage = "put"] \in Upload /\ [p EXCEPT !.stage = "put"].mime = p.mime
    <3>1. p \in [stage : {"presign", "put"}, mime : FileTypes \ {""}, reach : Reach]
      BY <2>1 DEF Upload
    <3> QED BY <3>1 DEF Upload
  <2>3. uploads' = [uploads EXCEPT ![k] = [p EXCEPT !.stage = "put"]]
    BY <1>4, <2>1 DEF Presigned
  <2>4. UploadsKept
    BY <2>1, <2>2, <2>3 DEF UploadsKept, Presigning, PickerTypeOK
  <2>5. FromQueue
    BY <1>4, SameKeeps DEF Presigned
  <2> QED BY <1>0, <1>4, <2>4, <2>5, StepKeeps DEF Presigned
<1>5. ASSUME NEW k \in Keys, Progressed(k) PROVE PickerInv'
  <2>1. FromQueue /\ UploadsKept
    BY <1>5, SameKeeps, SameUploads DEF Progressed
  <2>2. progress' \in {"none", "some", "full"}
    BY <1>0, <1>5 DEF Progressed, ShowProgress
  <2> QED BY <1>0, <1>5, <2>1, <2>2, StepKeeps DEF Progressed
<1>6. ASSUME NEW k \in Keys, Uploaded(k) \/ UploadFails(k) PROVE PickerInv'
  <2>1. PICK m : m = uploads[k].mime
    OBVIOUS
  <2>2. uploads[k].stage = "put" => m \in MediaMimes
    BY <2>1 DEF Presigning
  <2>3. stored' = stored \/ (stored' = stored \cup {<<k, m>>} /\ uploads[k].stage = "put")
    BY <1>6, <2>1 DEF Uploaded, UploadFails
  <2>4. stored \subseteq stored' /\ stored' \subseteq Keys \X MediaMimes /\ served' = served
    <3>1. stored \subseteq Keys \X MediaMimes
      BY <1>0
    <3>2. served' = served
      BY <1>6 DEF Uploaded, UploadFails
    <3> QED BY <2>2, <2>3, <3>1, <3>2
  <2>5. \/ creative' = creative \/ creative' = NoMedia
        \/ /\ creative' = Internal(k, m) /\ m \in MediaMimes
           /\ <<k, m>> \in stored'
    BY <1>6, <2>1, <2>2 DEF Uploaded, UploadFails, Commit
  <2>6. Exists(creative, served', stored') /\ Exists(row, served', stored')
    BY <1>0, <2>4, ExistsLonger
  <2>7. creative' \in Creative \cup {NoMedia} /\ Exists(creative', served', stored')
    BY <1>0, <2>5, <2>6, NothingExists, InternalExists
  <2>8. FromQueue /\ UploadsKept
    BY <1>6, SameKeeps, UploadSteps DEF Uploaded, UploadFails
  <2>9. progress' \in {"none", "some", "full"}
    BY <1>0, <1>6 DEF Uploaded, UploadFails, ShowProgress
  <2>10. UNCHANGED <<row, visiting, opens, tab, text>>
    BY <1>6 DEF Uploaded, UploadFails
  <2> QED BY <1>0, <2>4, <2>6, <2>7, <2>8, <2>9, <2>10, StepKeeps
<1> QED BY <1>1, <1>2, <1>3, <1>4, <1>5, <1>6 DEF Network

LEMMA PickerInitInv == PickerInit => PickerInv
<1> SUFFICES ASSUME PickerInit PROVE PickerInv
  OBVIOUS
<1>1. /\ row \in Creative \cup {NoMedia} /\ Exists(row, served, stored)
      /\ served \subseteq Urls \X MediaMimes
  <2>1. CASE row = NoMedia
    BY <2>1, NothingExists DEF PickerInit
  <2>2. CASE row # NoMedia
    <3>1. PICK u \in Urls : row = External(u, "mp4") /\ "mp4" \in MediaMimes
      BY <2>2 DEF PickerInit, MediaMimes
    <3>2. /\ External(u, "mp4").source = "external_url"
          /\ External(u, "mp4").media = u /\ External(u, "mp4").mime = "mp4"
      BY DEF External
    <3>3. row \in Creative
      BY <3>1 DEF Creative
    <3>4. served = {<<u, "mp4">>}
      BY <2>2, <3>1, <3>2 DEF PickerInit
    <3> QED BY <3>1, <3>2, <3>3, <3>4 DEF Exists
  <2> QED BY <2>1, <2>2
<1>2. /\ calls = <<>> /\ stored = {} /\ opens = 0 /\ creative = NoMedia
      /\ visiting = FALSE /\ tab = "url" /\ text = "" /\ progress = "none"
      /\ uploads = [k \in Keys |-> [stage |-> "unused"]]
  BY DEF PickerInit
<1>3. calls \in Seq(Call) /\ Len(calls) <= MaxCalls /\ DOMAIN calls = {} /\ opens \in 0..MaxOpens
  <2>1. calls = <<>> /\ opens = 0
    BY <1>2
  <2> QED BY <2>1, Bounds
<1>4. uploads \in [Keys -> Upload] /\ Presigning
  BY <1>2 DEF Upload, Presigning
<1>5. PickerTypeOK
  BY <1>1, <1>2, <1>3, <1>4 DEF PickerTypeOK
<1>6. Kept
  BY <1>1, <1>2, <1>3, NothingExists DEF Kept
<1> QED BY <1>4, <1>5, <1>6 DEF PickerInv

LEMMA PickerStep == PickerInv /\ [PickerNext]_pickerVars => PickerInv'
<1>1. ASSUME PickerInv, UNCHANGED pickerVars PROVE PickerInv'
  BY <1>1 DEF pickerVars, PickerInv, PickerTypeOK, Presigning, Kept
<1> QED BY <1>1, OperatorKeeps, NetworkKeeps DEF PickerNext

(* Type correctness of the form, its queue and its uploads, for any URLs,  *)
(* keys, answers and bounds.                                               *)
THEOREM PickerTypeCorrect == PickerSpec => []PickerTypeOK
<1>1. PickerInv => PickerTypeOK
  BY DEF PickerInv
<1> QED BY <1>1, PickerInitInv, PickerStep, PTL DEF PickerSpec

(* What the ad's row names is there, whatever the operator did while       *)
(* answers were pending and whichever of them were lost.                   *)
THEOREM SavedMediaIsThere == PickerSpec => []SavedMediaExists
<1>1. PickerInv => SavedMediaExists
  <2> SUFFICES ASSUME PickerInv, row # NoMedia
               PROVE  <<row.media, row.mime>> \in
                        (IF row.source = "internal_s3" THEN stored ELSE served)
    BY DEF SavedMediaExists
  <2>1. Exists(row, served, stored)
    BY DEF PickerInv, Kept
  <2> QED BY <2>1 DEF Exists
<1> QED BY <1>1, PickerInitInv, PickerStep, PTL DEF PickerSpec

=============================================================================
