------------------------------ MODULE MCAccess ------------------------------
(* Instances of Access for TLC. *)
EXTENDS Access, TLC

Symmetry == Permutations(SignIn) \cup Permutations(Session)
            \cup Permutations(Request) \cup Permutations(Mandate)
            \cup Permutations(AuthCode)
=============================================================================
