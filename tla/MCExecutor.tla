------------------------------ MODULE MCExecutor ------------------------------
(* Instances of Executor for TLC: a stream of two keys, and two of one.    *)
EXTENDS Executor, TLC

CONSTANTS s1, s2, s3, k1, k2, k3, k4

MCStreamOf == k1 :> s1 @@ k2 :> s1 @@ k3 :> s2 @@ k4 :> s3

OnlyInserts == Inserts

InsertAndDrop == {"insert", "drop"}

AllOps == Inserts \cup Holders \cup Unlocked

\* The keys of s1 may be exchanged, and so may s2 and s3 with their keys.
SwapStreams == s2 :> s3 @@ s3 :> s2 @@ k3 :> k4 @@ k4 :> k3

Symmetry == Permutations(Calls) \cup Permutations({k1, k2}) \cup {SwapStreams}
=============================================================================
