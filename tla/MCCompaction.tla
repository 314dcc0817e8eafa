---------------------------- MODULE MCCompaction ----------------------------
(* Instances of Compaction for TLC.                                        *)
EXTENDS Compaction, TLC

Symmetry == Permutations(Requests) \cup Permutations(Keys)
=============================================================================
