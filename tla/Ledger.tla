------------------------------- MODULE Ledger -------------------------------
(***************************************************************************)
(* What daily_stats promises its reader: a hit that /track recorded under  *)
(* an (ad, event, day) is added to that row's column at most once, under   *)
(* that key, and is never taken back.  It may be missing.                  *)
(*                                                                         *)
(* Nothing of Redis, of ticks or of workers is visible here.               *)
(***************************************************************************)
EXTENDS Integers

CONSTANTS
  Key, Hit,
  Size(_)   (* the number of hits of a set *)

VARIABLES
  fired,    (* [Key -> the hits recorded under it]             *)
  booked,   (* [Key -> the hits its column accounts for]       *)
  total     (* [Key -> the number stored in the column]        *)

vars == <<fired, booked, total>>

Init ==
  /\ fired  = [k \in Key |-> {}]
  /\ booked = [k \in Key |-> {}]
  /\ total  = [k \in Key |-> 0]

(* A hit is recorded, under one key.                                       *)
Fire ==
  /\ \E k \in Key, h \in Hit :
       /\ \A j \in Key : h \notin fired[j]
       /\ fired' = [fired EXCEPT ![k] = @ \cup {h}]
  /\ UNCHANGED <<booked, total>>

(* Columns grow by exactly the hits that are newly accounted for.          *)
Book ==
  /\ \A k \in Key :
       /\ booked[k] \subseteq booked'[k] /\ booked'[k] \subseteq fired[k]
       /\ total'[k] = total[k] + Size(booked'[k] \ booked[k])
  /\ DOMAIN booked' = Key /\ DOMAIN total' = Key
  /\ UNCHANGED fired

Next == Fire \/ Book

Spec == Init /\ [][Next]_vars

=============================================================================
