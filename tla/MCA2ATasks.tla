----------------------------- MODULE MCA2ATasks -----------------------------
(* Finite instances of A2ATasks. *)
EXTENDS A2ATasks, TLC

CONSTANTS q1, q2, q3, t1, t2

Symmetry == Permutations(Requests)
=============================================================================
