---------------------------- MODULE MCQueryCache ----------------------------
(* Instances of QueryCache for TLC. *)
EXTENDS QueryCache, TLC

CONSTANTS t1, t2, k1, k2, v1, v2, e1, e2, e3, e4

MCPartitionOf == [k \in Keys |-> IF k = k1 THEN 0 ELSE NumPartitions - 1]
Symmetry == Permutations(Threads) \cup Permutations(Values) \cup Permutations(Entries)
=============================================================================
