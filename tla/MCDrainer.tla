----------------------------- MODULE MCDrainer ------------------------------
(***************************************************************************)
(* One or two workers, one ad, two hits; the .cfg files bound the days and *)
(* the failures.                                                           *)
(***************************************************************************)
EXTENDS Drainer, TLC

CONSTANTS w1, w2, a1, h1, h2

MCWorker == {w1, w2}
MCOneWorker == {w1}
MCHit == {h1, h2}
Symmetry == Permutations(MCWorker) \cup Permutations(MCHit)

=============================================================================
