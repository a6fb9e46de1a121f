----------------------------- MODULE MCDelivery -----------------------------
(***************************************************************************)
(* Two requests of one viewer, who may name u1 and be minted u2 and u3,    *)
(* three ads of two campaigns, two snapshots.  The second raises c1 from 1 *)
(* to 2 impressions and a1 from 1 to 2 per window, and drops an ad of c1.  *)
(* Two attempts are fewer than the ads, so the retry bound is reached.     *)
(***************************************************************************)
EXTENDS Viewer, TLC

CONSTANTS r1, r2, b1, u1, u2, u3, a1, a2, a3, c1, c2

MCRequest    == {r1, r2}
MCAd         == {a1, a2, a3}
MCCampaign   == {c1, c2}
MCCampaignOf == a1 :> c1 @@ a2 :> c1 @@ a3 :> c2
MCPriority   == a1 :> 2 @@ a2 :> 2 @@ a3 :> 1

MCBefore == [ads |-> {a1, a2, a3}, priority |-> MCPriority,
             freqCap |-> a1 :> 1 @@ a2 :> 0 @@ a3 :> 0,
             budget |-> c1 :> 1 @@ c2 :> 2]
MCAfter  == [ads |-> {a1, a3}, priority |-> MCPriority,
             freqCap |-> a1 :> 2 @@ a2 :> 0 @@ a3 :> 0,
             budget |-> c1 :> 2 @@ c2 :> 2]

MCSnapshots == {MCBefore, MCAfter}
MCTargets   == {MCAd}

Symmetry == Permutations(MCRequest) \cup Permutations({u2, u3})

=============================================================================
