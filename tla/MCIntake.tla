------------------------------ MODULE MCIntake ------------------------------
(* Instances of Intake for TLC. *)
EXTENDS Intake, TLC

CONSTANTS payer, shop

Symmetry == Permutations(Token) \cup Permutations(Payment)
            \cup Permutations(Request) \cup Permutations(Key)
=============================================================================
