----------------------------- MODULE MCPayments -----------------------------
(* Instances of Payments for TLC. *)
EXTENDS Payments, TLC

CONSTANTS s1, s2

\* Undo requests and webhook deliveries are interchangeable, and so are the
\* payments.  Not for the runs that check liveness.
Symmetry == Permutations(Undoer) \cup Permutations(Hook) \cup
            Permutations(Payment)

\* The load balancer sends payments to one server, undo requests and
\* webhooks to the other if there is one.
MCHost == [x \in Payment \cup Undoer \cup Hook |->
              IF x \in Payment \/ s2 \notin Server THEN s1 ELSE s2]
=============================================================================
