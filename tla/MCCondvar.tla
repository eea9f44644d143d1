----------------------------- MODULE MCCondvar -----------------------------
EXTENDS Condvar, TLC
CONSTANTS p1, c1, c2, c3

(* Consumers are interchangeable.                                           *)
Symmetry == Permutations(Consumers)
=============================================================================
