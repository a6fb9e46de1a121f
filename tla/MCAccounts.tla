----------------------------- MODULE MCAccounts -----------------------------
(***************************************************************************)
(* Two browsers, an address written in two ways and another one, two       *)
(* passwords; a session lives for two units.                               *)
(***************************************************************************)
EXTENDS Accounts

CONSTANTS b1, b2, ann, Ann, bob, p1, p2

MCBrowser == {b1, b2}
MCEmail == {ann, Ann, bob}
MCLower == [e \in MCEmail |-> IF e = Ann THEN ann ELSE e]

=============================================================================
