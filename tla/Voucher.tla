------------------------------ MODULE Voucher ------------------------------
(***************************************************************************)
(* What a token promises to those who pay and are paid with it: it is good *)
(* for one payment.  It is open until somebody claims it or it expires, is *)
(* claimed only once, and only a token that was claimed, and not failed    *)
(* since, gets a payment, never a second one.  Settled it is only for a    *)
(* payment; which of 'settled' and 'failed' comes last is not promised,    *)
(* since those who write them do not look at what they replace.            *)
(***************************************************************************)
CONSTANTS Token, Payment

VARIABLES
    life,     \* life[t]: where token t is in its life
    paid      \* paid[t]: the payments made with it

State == {"unissued", "created", "claimed", "expired", "settled", "failed"}

Ends == {"settled", "failed"}

Init ==
    /\ life = [t \in Token |-> "unissued"]
    /\ paid = [t \in Token |-> {}]

Move(t, from, to) ==
    /\ life[t] \in from
    /\ life' = [life EXCEPT ![t] = to]
    /\ paid' = paid

Issue(t) == Move(t, {"unissued"}, "created")

Claim(t) == Move(t, {"created"}, "claimed")

\* A sweep expires all it finds.
Expire(stale) ==
    /\ \A t \in stale : life[t] = "created"
    /\ life' = [t \in Token |-> IF t \in stale THEN "expired" ELSE life[t]]
    /\ paid' = paid

Pay(t, p) ==
    /\ life[t] = "claimed"
    /\ paid[t] = {}
    /\ \A u \in Token : p \notin paid[u]
    /\ paid' = [paid EXCEPT ![t] = {p}]
    /\ life' = life

\* The payment ends its token.
End(t) ==
    /\ paid[t] # {}
    /\ \E s \in Ends : Move(t, {"claimed"} \cup Ends, s)

\* A claim that comes to nothing.
Waste(t) == paid[t] = {} /\ Move(t, {"claimed"}, "failed")

Next ==
    \/ \E t \in Token : \/ Issue(t) \/ Claim(t) \/ End(t) \/ Waste(t)
                       \/ \E p \in Payment : Pay(t, p)
    \/ \E stale \in SUBSET Token : Expire(stale)

Spec == Init /\ [][Next]_<<life, paid>>
=============================================================================
