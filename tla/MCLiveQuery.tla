---------------------------- MODULE MCLiveQuery -----------------------------
(* One listener of each kind in turn; four writes overrun the channel.       *)
EXTENDS LiveQuery

CONSTANTS k1, k2, l1

Symmetry == Permutations({k1, k2})
=============================================================================
