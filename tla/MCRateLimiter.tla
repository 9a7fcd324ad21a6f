---------------------------- MODULE MCRateLimiter ----------------------------
(* Two calls of one client: they race, and sweep their own bucket.          *)
EXTENDS RateLimiter, TLC

CONSTANTS c1, r1, r2

MCClientOf == [r \in Requests |-> c1]
Symmetry == Permutations({r1, r2})
=============================================================================
