------------------------------ MODULE Lifecycle ------------------------------
(***************************************************************************)
(* The status of a payment, as everything outside of it may rely on: which *)
(* status may follow which, whoever writes it.  Payments implements it,    *)
(* Intake lets the payments it has created live by it.                     *)
(***************************************************************************)
CONSTANT Payment

VARIABLE status

\* No status is final.  Most statements do not look at the status they
\* replace, so a late writer can take a settled or failed payment back, also
\* to a payment in transfer when an old request ends a day after it began.
\* What is ruled out: a payment is only settled from 'settling' or 'failed',
\* only held from 'transferring', and an undone one can but fail.
Moves == {<<"none", "initiated">>,
          <<"initiated", "transferring">>,
          <<"transferring", "held">>,    <<"held", "transferring">>,
          <<"held", "refunded">>,
          <<"transferring", "settling">>, <<"settling", "settled">>,
          <<"settled", "settling">>,
          <<"failed", "transferring">>,  <<"failed", "settling">>,
          <<"failed", "settled">>}
         \cup
         ({"initiated", "transferring", "held", "settling", "settled",
           "refunded"} \X {"failed"})

Init == status = [p \in Payment |-> "none"]

Move(p, to) ==
    /\ <<status[p], to>> \in Moves
    /\ status' = [status EXCEPT ![p] = to]

Next == \E p \in Payment : \E move \in Moves : Move(p, move[2])

Spec == Init /\ [][Next]_status
=============================================================================
