---------------------------- MODULE MCResources ----------------------------
(* A small instance of Resources for TLC. *)
EXTENDS Resources, TLC

\* The physical interfaces are interchangeable.
Symmetry == Permutations(Physical)
=============================================================================
