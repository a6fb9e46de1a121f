------------------------------ MODULE Campaigns -----------------------------
(***************************************************************************)
(* A campaign's life between its writers and readers: operators who edit   *)
(* rows in the dashboard (campaigns/_actions.ts, ads/_actions.ts), the     *)
(* worker that completes what spent its budget (worker/drainer.go,         *)
(* reconcileBudgets) and the adserver that serves from a snapshot          *)
(* (registry/loader.go, loadQuery) and counts in Redis.                    *)
(*                                                                         *)
(* Dates are what loadQuery makes of them: now() is before, inside or      *)
(* after them.  The counting half of a tick is in Drainer, the inside of a *)
(* reload in Registry, a request in Delivery.                              *)
(***************************************************************************)
EXTENDS Integers, FiniteSets

CONSTANTS
  Campaign, Ad,
  Budgets,      (* total_budget_impressions; 0, as NULL, is no cap       *)
  MaxImps,      (* bound: imps_total                                     *)
  MaxEdits,     (* bound: commits of the dashboard                       *)
  MaxFaults,    (* bound: calls of the worker that fail, and crashes     *)
  MaxMessages   (* bound: invalidations not yet received                 *)

ASSUME CampaignsAssumption ==
  /\ Budgets \subseteq Nat /\ Budgets # {} /\ Campaign # {}
  /\ MaxImps \in Nat /\ MaxEdits \in Nat /\ MaxFaults \in Nat /\ MaxMessages \in Nat

Row == [status : {"active", "paused", "completed", "archived"},
        budget : Budgets,
        dates  : {"before", "inside", "over"}]
AdRow == [status : {"active", "paused", "archived"}, campaign : Campaign]

(* What loadQuery returned: the ads, the campaign of each and its budget.  *)
Snapshot == [ads : SUBSET Ad, of : [Ad -> Campaign], budget : [Campaign -> Budgets]]

VARIABLES
  campaign,    (* [the campaigns created so far -> Row]                  *)
  ad,          (* [the ads created so far -> AdRow]                      *)
  imps,        (* [Campaign -> campaign:<id>:imps_total]                 *)
  tick,        (* the worker's tick, from Load on                        *)
  caps,        (* the budgets each row had during the tick (history)     *)
  registry,    (* the adserver's snapshot                                *)
  messages,    (* invalidations the adserver has not received            *)
  edits, faults

campaignsVars == <<campaign, ad, imps, tick, caps, registry, messages, edits, faults>>

(* cap: `seen`; todo: its campaigns not looked at yet.                     *)
Tick == [pc : {"idle", "read", "update"}, cap : [Campaign -> Budgets],
         todo : SUBSET Campaign, at : Campaign, paused : BOOLEAN]

CampaignsTypeOK ==
  /\ DOMAIN campaign \subseteq Campaign /\ DOMAIN ad \subseteq Ad
  /\ campaign \in [DOMAIN campaign -> Row]
  /\ ad \in [DOMAIN ad -> AdRow]
  /\ \A a \in DOMAIN ad : ad[a].campaign \in DOMAIN campaign
  /\ imps \in [Campaign -> 0..MaxImps]
  /\ tick \in Tick
  /\ caps \in [Campaign -> SUBSET Budgets]
  /\ registry \in Snapshot
  /\ messages \in 0..MaxMessages
  /\ edits \in 0..MaxEdits /\ faults \in 0..MaxFaults

-----------------------------------------------------------------------------
(* The definitions named for a fault are not part of the specification:    *)
(* they show that the properties notice it.                                *)

(* The WHERE clause of loadQuery.                                          *)
Served(a) ==
  /\ a \in DOMAIN ad /\ ad[a].status = "active"
  /\ LET c == campaign[ad[a].campaign] IN c.status = "active" /\ c.dates = "inside"

AnyCampaign == CHOOSE c \in Campaign : TRUE
AnyBudget   == CHOOSE b \in Budgets : TRUE

loadQuery ==
  [ads    |-> {a \in Ad : Served(a)},
   of     |-> [a \in Ad |-> IF Served(a) THEN ad[a].campaign ELSE AnyCampaign],
   budget |-> [c \in Campaign |-> IF c \in DOMAIN campaign THEN campaign[c].budget
                                                           ELSE AnyBudget]]

(* reconcileBudgets: the capped campaigns of the snapshot.                 *)
Seen(snap) == {c \in Campaign : snap.budget[c] > 0 /\ \E a \in snap.ads : snap.of[a] = c}

NoCaps == [c \in Campaign |-> {}]

CampaignsInit ==
  /\ campaign = [c \in {} |-> 0] /\ ad = [a \in {} |-> 0]
  /\ imps = [c \in Campaign |-> 0]
  /\ tick = [pc |-> "idle", cap |-> [c \in Campaign |-> AnyBudget], todo |-> {},
             at |-> AnyCampaign, paused |-> FALSE]
  /\ caps = NoCaps
  /\ registry = loadQuery
  /\ messages = 0 /\ edits = 0 /\ faults = 0

-----------------------------------------------------------------------------
(***************************************************************************)
(* The dashboard.  None of its actions publishes.                          *)
(***************************************************************************)
Edit == edits < MaxEdits /\ edits' = edits + 1

(* createCampaignAction and updateCampaignAction write every field as the  *)
(* form shows it, whatever happened to the row since it was opened.        *)
SaveCampaign(c, row) ==
  /\ Edit
  /\ campaign' = [d \in DOMAIN campaign \cup {c} |-> IF d = c THEN row ELSE campaign[d]]
  /\ caps' = IF tick.pc = "idle" THEN caps ELSE [caps EXCEPT ![c] = @ \cup {row.budget}]
  /\ UNCHANGED <<ad, imps, tick, registry, messages, faults>>

archiveCampaign(c) ==
  /\ c \in DOMAIN campaign
  /\ Edit
  /\ campaign' = [campaign EXCEPT ![c].status = "archived"]
  /\ UNCHANGED <<ad, imps, tick, caps, registry, messages, faults>>

SaveAdAnywhere(a, row) ==
  /\ Edit
  /\ ad' = [b \in DOMAIN ad \cup {a} |-> IF b = a THEN row ELSE ad[b]]
  /\ UNCHANGED <<campaign, imps, tick, caps, registry, messages, faults>>

(* createAdAction and updateAdAction, likewise.                            *)
SaveAd(a, row) ==
  /\ row.campaign \in DOMAIN campaign
  /\ Edit
  /\ ad' = [b \in DOMAIN ad \cup {a} |-> IF b = a THEN row ELSE ad[b]]
  /\ UNCHANGED <<campaign, imps, tick, caps, registry, messages, faults>>

archiveAd(a) ==
  /\ a \in DOMAIN ad
  /\ Edit
  /\ ad' = [ad EXCEPT ![a].status = "archived"]
  /\ UNCHANGED <<campaign, imps, tick, caps, registry, messages, faults>>

(* now() enters or leaves a campaign's dates.                              *)
TimePasses(c) ==
  /\ c \in DOMAIN campaign /\ campaign[c].dates # "over"
  /\ campaign' = [campaign EXCEPT ![c].dates = IF @ = "before" THEN "inside" ELSE "over"]
  /\ UNCHANGED <<ad, imps, tick, caps, registry, messages, edits, faults>>

-----------------------------------------------------------------------------
(***************************************************************************)
(* The adserver                                                            *)
(***************************************************************************)
ReloadMerges ==
  /\ messages' \in {messages, messages - 1} /\ messages' >= 0
  /\ registry' = [loadQuery EXCEPT !.ads = @ \cup registry.ads]
  /\ UNCHANGED <<campaign, ad, imps, tick, caps, edits, faults>>

(* On the ticker, or on a message.                                         *)
Reload ==
  /\ messages' \in {messages, messages - 1} /\ messages' >= 0
  /\ registry' = loadQuery
  /\ UNCHANGED <<campaign, ad, imps, tick, caps, edits, faults>>

(* TryReserve for a selected ad.                                           *)
Reserve(a) ==
  /\ a \in registry.ads
  /\ LET c == registry.of[a]
         cap == registry.budget[c] IN
       /\ imps[c] < MaxImps
       /\ cap > 0 => imps[c] + 1 <= cap
       /\ imps' = [imps EXCEPT ![c] = @ + 1]
  /\ UNCHANGED <<campaign, ad, tick, caps, registry, messages, edits, faults>>

-----------------------------------------------------------------------------
(***************************************************************************)
(* The worker: Load, then, after the counters were drained and stored,     *)
(* reconcileBudgets with what Load returned.                               *)
(***************************************************************************)
Fault == faults < MaxFaults /\ faults' = faults + 1

LoadKeepsCaps ==
  /\ tick.pc = "idle" /\ Seen(loadQuery) # {}
  /\ tick' = [tick EXCEPT !.pc = "read", !.todo = Seen(loadQuery), !.paused = FALSE,
                          !.cap = [c \in Campaign |-> IF @[c] > 0 THEN @[c]
                                                                ELSE loadQuery.budget[c]]]
  /\ caps' = [c \in Campaign |-> {loadQuery.budget[c]}]
  /\ UNCHANGED <<campaign, ad, imps, registry, messages, edits, faults>>

Load ==
  /\ tick.pc = "idle" /\ Seen(loadQuery) # {}
  /\ tick' = [tick EXCEPT !.pc = "read", !.cap = loadQuery.budget,
                          !.todo = Seen(loadQuery), !.paused = FALSE]
  /\ caps' = [c \in Campaign |-> {loadQuery.budget[c]}]
  /\ UNCHANGED <<campaign, ad, imps, registry, messages, edits, faults>>

ReadCountStrict(c) ==
  /\ tick.pc = "read" /\ c \in tick.todo
  /\ tick' = IF imps[c] <= tick.cap[c]
              THEN [tick EXCEPT !.todo = @ \ {c}]
              ELSE [tick EXCEPT !.pc = "update", !.todo = @ \ {c}, !.at = c]
  /\ UNCHANGED <<campaign, ad, imps, caps, registry, messages, edits, faults>>

(* GET, and the comparison with the cap Load returned.                     *)
ReadCount(c) ==
  /\ tick.pc = "read" /\ c \in tick.todo
  /\ tick' = IF imps[c] < tick.cap[c]
              THEN [tick EXCEPT !.todo = @ \ {c}]
              ELSE [tick EXCEPT !.pc = "update", !.todo = @ \ {c}, !.at = c]
  /\ UNCHANGED <<campaign, ad, imps, caps, registry, messages, edits, faults>>

ReadFails(c) ==
  /\ tick.pc = "read" /\ c \in tick.todo /\ Fault
  /\ tick' = [tick EXCEPT !.todo = @ \ {c}]
  /\ UNCHANGED <<campaign, ad, imps, caps, registry, messages, edits>>

(* UPDATE ... SET status='completed' WHERE id=$1 AND status='active'.      *)
Complete ==
  /\ tick.pc = "update"
  /\ IF campaign[tick.at].status = "active"
       THEN /\ campaign' = [campaign EXCEPT ![tick.at].status = "completed"]
            /\ tick' = [tick EXCEPT !.pc = "read", !.paused = TRUE]
       ELSE /\ tick' = [tick EXCEPT !.pc = "read"]
            /\ UNCHANGED campaign
  /\ UNCHANGED <<ad, imps, caps, registry, messages, edits, faults>>

(* It fails, committed or not.                                             *)
CompleteFails ==
  /\ tick.pc = "update" /\ Fault
  /\ \/ UNCHANGED campaign
     \/ /\ campaign[tick.at].status = "active"
        /\ campaign' = [campaign EXCEPT ![tick.at].status = "completed"]
  /\ tick' = [tick EXCEPT !.pc = "read"]
  /\ UNCHANGED <<ad, imps, caps, registry, messages, edits>>

(* One message for all of them, if any; it may reach nobody.               *)
Finish ==
  /\ tick.pc = "read" /\ tick.todo = {}
  /\ tick' = [tick EXCEPT !.pc = "idle"]
  /\ messages' \in IF tick.paused /\ messages < MaxMessages
                     THEN {messages, messages + 1} ELSE {messages}
  /\ caps' = NoCaps
  /\ UNCHANGED <<campaign, ad, imps, registry, edits, faults>>

(* The process dies, or the tick's context ends.                           *)
CutShort ==
  /\ tick.pc # "idle" /\ Fault
  /\ tick' = [tick EXCEPT !.pc = "idle"]
  /\ caps' = NoCaps
  /\ UNCHANGED <<campaign, ad, imps, registry, messages, edits>>

Work ==
  \/ Load \/ (\E c \in Campaign : ReadCount(c) \/ ReadFails(c))
  \/ Complete \/ CompleteFails \/ Finish

Dashboard ==
  \/ \E c \in Campaign : archiveCampaign(c) \/ \E row \in Row : SaveCampaign(c, row)
  \/ \E a \in Ad : archiveAd(a) \/ \E row \in AdRow : SaveAd(a, row)

CampaignsNext ==
  \/ Dashboard
  \/ \E c \in Campaign : TimePasses(c)
  \/ Reload \/ \E a \in Ad : Reserve(a)
  \/ Work \/ CutShort

(* The worker's and the adserver's tickers keep firing.                    *)
Fairness == WF_campaignsVars(Work) /\ WF_campaignsVars(Reload)

CampaignsSpec == CampaignsInit /\ [][CampaignsNext]_campaignsVars /\ Fairness

-----------------------------------------------------------------------------
(* No commit of the dashboard changes this status: the worker does.        *)
Completes(c) == edits' = edits /\ campaign'[c].status # campaign[c].status

(* The worker completes a campaign on a row it read when the tick began    *)
(* and a counter it read a call ago, while operators edit both: the budget *)
(* it counts as spent is one the row had since the tick began.  A raise    *)
(* that was committed before is honoured, and a campaign never is stopped  *)
(* for a budget it had in an earlier tick; a raise committed while the     *)
(* tick runs is not, the UPDATE does not look at the budget again.         *)
CompletesOnlySpent ==
  [][\A c \in DOMAIN campaign :
       Completes(c) => \E b \in caps[c] : b > 0 /\ imps[c] >= b]_campaignsVars

Spent(c) ==
  /\ c \in DOMAIN campaign
  /\ campaign[c].status = "active" /\ campaign[c].dates = "inside"
  /\ campaign[c].budget > 0 /\ imps[c] >= campaign[c].budget
  /\ \E a \in DOMAIN ad : ad[a] = [status |-> "active", campaign |-> c]

(* An active campaign that spent its budget does not stay active: through  *)
(* crashes, failed updates and forms that make it active again.            *)
SpentCompletes == \A c \in Campaign : Spent(c) ~> ~Spent(c)

(* An ad that must not be served any more leaves the adserver's snapshot,  *)
(* although nobody tells it: dashboards do not publish and messages are    *)
(* lost.                                                                   *)
StopsServing ==
  \A a \in Ad : (a \in registry.ads /\ ~Served(a)) ~> (a \notin registry.ads \/ Served(a))

=============================================================================
