----------------------------- MODULE RateLimit ------------------------------
(***************************************************************************)
(* The fixed-window limiter of internal/http/rate_limit.go: one counter in *)
(* Redis per subject, created by the first INCR of a window and given its  *)
(* TTL by an EXPIRE of its own.  An error of Redis lets the call in.       *)
(***************************************************************************)
EXTENDS Naturals

CONSTANTS
    Subject,       \* IP addresses and users, each with a counter
    Call,          \* requests
    Limit          \* calls let in per window, at least one

VARIABLES
    count,      \* count[s]: INCR's results, up to the first above the limit
    ttl,        \* ttl[s]: what is left of the window, 0 for a key without TTL
    first       \* <<c, s>>: c has had 1 for s and is about to send EXPIRE

\* A counter above the limit refuses, however far above it is.
Top == Limit + 1

\* A window is left in two moves of the clock.
Window == 2

TypeOK ==
    /\ count \in [Subject -> 0..Top]
    /\ ttl \in [Subject -> 0..Window]
    /\ first \subseteq Call \X Subject

Init ==
    /\ count = [s \in Subject |-> 0]
    /\ ttl = [s \in Subject |-> 0]
    /\ first = {}

-----------------------------------------------------------------------------
\* Mutant: every hit sends EXPIRE, so each puts the end of the window off.
VerdictRenewing(s) == IF count[s] < Limit THEN "expire" ELSE "refused"

\* Mutant: the second hit is taken for the first.
VerdictSecond(s) ==
    CASE count[s] = 1 -> "expire"
      [] count[s] # 1 /\ count[s] < Limit -> "passed"
      [] OTHER -> "refused"

\* What the next INCR of s means for its call.
Verdict(s) ==
    CASE count[s] = 0 -> "expire"
      [] count[s] > 0 /\ count[s] < Limit -> "passed"
      [] count[s] >= Limit -> "refused"

Incr(s) == count' = [count EXCEPT ![s] = IF @ < Top THEN @ + 1 ELSE @]

Hit(c, s) ==
    /\ Incr(s)
    /\ first' = IF Verdict(s) = "expire" THEN first \cup {<<c, s>>} ELSE first
    /\ UNCHANGED ttl

\* No answer: the call is let in, whether INCR was executed or not.
HitErrs(s) ==
    /\ Incr(s) \/ UNCHANGED count
    /\ UNCHANGED <<ttl, first>>

\* Mutant: a window of the wrong length.
ExpireLater(c, s) ==
    /\ <<c, s>> \in first
    /\ first' = first \ {<<c, s>>}
    /\ ttl' = [ttl EXCEPT ![s] = 60 * Window]
    /\ UNCHANGED count

Expire(c, s) ==
    /\ <<c, s>> \in first
    /\ first' = first \ {<<c, s>>}
    /\ ttl' = [ttl EXCEPT ![s] = Window]
    /\ UNCHANGED count

\* The error is dropped, and the key has no TTL.
ExpireErrs(c, s) ==
    /\ <<c, s>> \in first
    /\ first' = first \ {<<c, s>>}
    /\ UNCHANGED <<count, ttl>>

\* Redis drops a key whose TTL is over.
Tick(s) ==
    /\ ttl[s] > 0
    /\ ttl' = [ttl EXCEPT ![s] = @ - 1]
    /\ count' = IF ttl[s] = 1 THEN [count EXCEPT ![s] = 0] ELSE count
    /\ UNCHANGED first

-----------------------------------------------------------------------------
\* A counter that nobody will ever give a TTL.
Orphan(s) ==
    /\ count[s] > 0
    /\ ttl[s] = 0
    /\ \A x \in first : x[2] # s
=============================================================================
