------------------------------- MODULE MCRail -------------------------------
(* Instances of Rail for TLC. *)
EXTENDS Rail, TLC

Symmetry == Permutations(Call) \cup Permutations(List)
=============================================================================
