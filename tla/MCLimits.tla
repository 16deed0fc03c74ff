------------------------------ MODULE MCLimits ------------------------------
(* Instances of Limits for TLC; no symmetry, since they check liveness. *)
EXTENDS Limits, TLC
=============================================================================
