------------------------------- MODULE Escrow -------------------------------
(***************************************************************************)
(* What the payments service promises about money it has taken from a      *)
(* sender: it is either handed on, once, or given back, and once the books *)
(* say it was given back it is never handed on.  A payment may sit in an   *)
(* undo window first, at most once.                                        *)
(***************************************************************************)
CONSTANT Payment

VARIABLE escrow

State == {"open", "held", "lapsed", "sent", "returned"}

Init == escrow = [p \in Payment |-> "open"]

Move(p, from, to) ==
    /\ escrow[p] \in from
    /\ escrow' = [escrow EXCEPT ![p] = to]

Hold(p) == Move(p, {"open"}, "held")

\* The window ends: by release, or because the charge fell through.
Lapse(p) == Move(p, {"held"}, "lapsed")

Send(p) == Move(p, {"open", "lapsed"}, "sent")

GiveBack(p) == Move(p, {"open", "held", "lapsed"}, "returned")

Next == \E p \in Payment : Hold(p) \/ Lapse(p) \/ Send(p) \/ GiveBack(p)

Spec == Init /\ [][Next]_escrow
=============================================================================
