---------------------------- MODULE MCQueryCache ----------------------------
(* Small instances of QueryCache for TLC.                                   *)
EXTENDS QueryCache, TLC

CONSTANTS k1, k2, k3, v1, v2, a1, a2, a3, a4, k4

MCKeys  == {k1, k2, k3, k4}
MCVals  == {v1, v2}
MCAddrs == {a1, a2, a3, a4}

\* Keys, results and addresses are interchangeable.
MCSymmetry == Permutations(MCKeys) \cup Permutations(MCVals) \cup Permutations(MCAddrs)
=============================================================================
