------------------------------- MODULE MCApi --------------------------------
(* Instances of Api for TLC. *)
EXTENDS Api, TLC

Symmetry == Permutations(Call) \cup Permutations(User)
            \cup Permutations(Session) \cup Permutations(Handset)
=============================================================================
