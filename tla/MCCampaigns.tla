---------------------------- MODULE MCCampaigns -----------------------------
(***************************************************************************)
(* One campaign and two ads, so that edits, reloads, requests and ticks    *)
(* interleave on the same rows; no budget, an impression or two.           *)
(***************************************************************************)
EXTENDS Campaigns

CONSTANTS c1, a1, a2

MCCampaign == {c1}
MCAd == {a1, a2}

=============================================================================
