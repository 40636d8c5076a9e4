------------------------------ MODULE MCJobApi ------------------------------
(* Symmetry for the instances of JobApi. *)
EXTENDS JobApi, TLC

Symmetry == Permutations(Requests) \cup Permutations(Jobs)
=============================================================================
