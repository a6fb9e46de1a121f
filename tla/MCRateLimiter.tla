--------------------------- MODULE MCRateLimiter ----------------------------
(***************************************************************************)
(* Two source IPs, a cap of one entry, three requests.  An idle            *)
(* bucket is full again before it may be evicted, as with the defaults     *)
(* (a burst of two seconds' rate, 60 s).                                   *)
(***************************************************************************)
EXTENDS RateLimiter, TLC

CONSTANTS k1, k2, r1, r2, r3

MCKey == {k1, k2}
MCRequest == {r1, r2, r3}
Symmetry == Permutations(MCRequest) \cup Permutations(MCKey)

=============================================================================
