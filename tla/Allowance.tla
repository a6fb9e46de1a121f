----------------------------- MODULE Allowance ------------------------------
(***************************************************************************)
(* What buying a campaign means, whatever Redis, snapshots and replicas do *)
(* underneath: the operator offers it budgets, it is shown one impression  *)
(* at a time, never beyond the largest of them, and an impression shown is *)
(* never taken back.  A budget of 0 is no limit.                           *)
(***************************************************************************)
EXTENDS Naturals

CONSTANT Campaign

VARIABLES
  offered,   (* [Campaign -> the budgets it was ever given]              *)
  served     (* [Campaign -> impressions shown]                          *)

vars == <<offered, served>>

Init ==
  /\ offered \in [Campaign -> SUBSET Nat]
  /\ served = [c \in Campaign |-> 0]

Offer ==
  /\ \A c \in Campaign : offered[c] \subseteq offered'[c]
  /\ UNCHANGED served

Allows(budget, n) == budget = 0 \/ n < budget

Serve(c) ==
  /\ \E budget \in offered[c] : Allows(budget, served[c])
  /\ served' = [served EXCEPT ![c] = @ + 1]
  /\ UNCHANGED offered

Next == Offer \/ \E c \in Campaign : Serve(c)

Spec == Init /\ [][Next]_vars

=============================================================================
