----------------------------- MODULE MCQueryCache -----------------------------
(* One key, whose entry other keys may evict, and two observers of it.       *)
EXTENDS QueryCache, TLC

CONSTANTS k1, o1, o2

MCWatches == [o \in Observers |-> k1]
Symmetry == Permutations(Observers)
=============================================================================
