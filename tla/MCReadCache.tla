----------------------------- MODULE MCReadCache -----------------------------
(* Model values for the cache: two keys, two requests, one or two jobs.     *)
EXTENDS ReadCache, TLC

CONSTANTS k1, k2, r1, r2, load, prune

Symmetry == Permutations({k1, k2}) \cup Permutations({r1, r2})
=============================================================================
