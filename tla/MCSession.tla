------------------------------ MODULE MCSession ------------------------------
(* Session with the constants of its runs. *)
EXTENDS Session, TLC

CONSTANTS u1, u2, p1, p2

Single == u1 :> p1
Alike == u1 :> p1 @@ u2 :> p1

SessionSymmetry == Permutations(Conns) \cup Permutations(Sessions) \cup Permutations(Servers)
=============================================================================
