---------------------------- MODULE MCMaintenance ----------------------------
(* Maintenance with the constants of its runs. *)
EXTENDS Maintenance, TLC

CONSTANTS u1, p1

MCPasswordOf == u1 :> p1

SessionSymmetry == Permutations(Conns) \cup Permutations(Sessions)
=============================================================================
