----------------------------- MODULE MCTracking -----------------------------
(***************************************************************************)
(* Two pixels, three fires; half-second clock.                             *)
(***************************************************************************)
EXTENDS Tracking, TLC

CONSTANTS p1, p2, f1, f2, f3

MCPixel == {p1, p2}
MCFire == {f1, f2, f3}
Symmetry == Permutations(MCPixel) \cup Permutations(MCFire)

=============================================================================
