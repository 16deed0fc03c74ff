------------------------------- MODULE Limits -------------------------------
(***************************************************************************)
(* Sending limits: lowering them takes effect at once, raising them writes *)
(* a pending change that the reconciler's sweep applies once a cooldown is *)
(* over.  Requests, cancellations and the sweep interleave statement by    *)
(* statement; the sweep works from the rows its listing returned.          *)
(***************************************************************************)
EXTENDS Naturals

CONSTANTS
    User,          \* users
    Setter,        \* PUT /v1/me/limits requests
    Change,        \* rows of pending_limit_changes
    Level,         \* the amounts a request may name
    InitialTx, InitialDay,   \* the limits a user starts with
    MaxFaults      \* bound on errors, crashes and dropped connections

Pair == [tx : Level, day : Level]

\* SetLimits refuses the others.
Valid(want) == want.tx > 0 /\ want.tx <= want.day

Initial == [tx |-> InitialTx, day |-> InitialDay]

ASSUME LimitsAssumption ==
    /\ Level \subseteq Nat
    /\ Initial \in Pair
    /\ Valid(Initial)
    /\ MaxFaults \in Nat

VARIABLES
    limits,     \* limits[u]: per_tx_limit_kobo and per_day_limit_kobo
    change,     \* the rows of pending_limit_changes, a function on those made
    at,         \* at[r]: the next step of request r
    plan,       \* what each request that has begun is about to do
    due,        \* rows of the sweep's listing it has yet to visit
    marking,    \* the row it has applied and is about to mark
    faults      \* faults so far

sweep == <<due, marking>>
vars  == <<limits, change, at, plan, due, marking, faults>>

Limit == {want \in Pair : want.tx > 0 /\ want.tx <= want.day}

\* ripe: applies_at has passed; applied, cancelled: the column is set.
ChangeRow == [user : User, want : Limit, ripe : BOOLEAN, applied : BOOLEAN,
              cancelled : BOOLEAN]

TypeOK ==
    /\ limits \in [User -> Limit]
    /\ DOMAIN change \subseteq Change
    /\ \A c \in DOMAIN change : change[c] \in ChangeRow
    /\ at \in [Setter -> {"idle", "cancel", "apply", "schedule", "done"}]
    /\ DOMAIN plan \subseteq Setter
    /\ \A r \in DOMAIN plan :
          plan[r] \in [user : User, want : Limit, lowers : BOOLEAN]
    /\ \A r \in Setter : at[r] # "idle" => r \in DOMAIN plan
    /\ due \subseteq DOMAIN change
    /\ marking \subseteq DOMAIN change
    /\ faults \in 0..MaxFaults

Init ==
    /\ limits = [u \in User |-> Initial]
    /\ change = [c \in {} |-> 0]
    /\ at = [r \in Setter |-> "idle"]
    /\ plan = [r \in {} |-> 0]
    /\ due = {}
    /\ marking = {}
    /\ faults = 0

-----------------------------------------------------------------------------
Fault == faults < MaxFaults /\ faults' = faults + 1

NoFault == faults' = faults

Goto(r, step) == at' = [at EXCEPT ![r] = step]

With(f, x, value) == [y \in DOMAIN f \cup {x} |->
                         IF y = x THEN value ELSE f[y]]

-----------------------------------------------------------------------------
(* The statements of pending_limits.sql and users.sql.                     *)

Active(c) == ~change[c].applied /\ ~change[c].cancelled

ActiveOf(u) == {c \in DOMAIN change : change[c].user = u /\ Active(c)}

CancelPendingLimitChanges(u) ==
    change' = [c \in DOMAIN change |->
                  IF c \in ActiveOf(u)
                  THEN [change[c] EXCEPT !.cancelled = TRUE]
                  ELSE change[c]]

UpdateUserLimits(u, want) == limits' = [limits EXCEPT ![u] = want]

\* A second active change violates the partial unique index.
CreatePendingLimitChange(c, u, want) ==
    /\ c \notin DOMAIN change
    /\ ActiveOf(u) = {}
    /\ change' = With(change, c,
           [user |-> u, want |-> want, ripe |-> FALSE, applied |-> FALSE,
            cancelled |-> FALSE])

\* Mutant: the listing forgets applies_at.
DuePendingLimitsEarly == {c \in DOMAIN change : Active(c)}

\* Mutant: applies_at compared the wrong way round.
DuePendingLimitsReversed ==
    {c \in DOMAIN change : Active(c) /\ ~change[c].ripe}

DuePendingLimits == {c \in DOMAIN change : Active(c) /\ change[c].ripe}

\* By id: a change cancelled meanwhile is marked all the same.
MarkPendingLimitApplied(c) ==
    change' = [change EXCEPT ![c].applied = TRUE]

-----------------------------------------------------------------------------
(* SetLimits.                                                              *)

Lowers(want, current) == want.tx <= current.tx /\ want.day <= current.day

\* Mutant: the two limits are not compared with each other.
LoadUnchecked(r, u, want) ==
    /\ at[r] = "idle"
    /\ want.tx > 0 /\ want.day > 0
    /\ plan' = With(plan, r,
           [user |-> u, want |-> want, lowers |-> Lowers(want, limits[u])])
    /\ Goto(r, "cancel")
    /\ NoFault
    /\ UNCHANGED <<limits, change, sweep>>

\* Whether the request lowers or raises is decided on the user as read here.
Load(r, u, want) ==
    /\ at[r] = "idle"
    /\ Valid(want)
    /\ plan' = With(plan, r,
           [user |-> u, want |-> want, lowers |-> Lowers(want, limits[u])])
    /\ Goto(r, "cancel")
    /\ NoFault
    /\ UNCHANGED <<limits, change, sweep>>

Cancel(r) ==
    /\ at[r] = "cancel"
    /\ \/ /\ CancelPendingLimitChanges(plan[r].user)
          /\ Goto(r, IF plan[r].lowers THEN "apply" ELSE "schedule")
          /\ NoFault
       \/ Fault /\ Goto(r, "done") /\ UNCHANGED change
    /\ UNCHANGED <<limits, plan, sweep>>

Apply(r) ==
    /\ at[r] = "apply"
    /\ \/ UpdateUserLimits(plan[r].user, plan[r].want) /\ NoFault
       \/ Fault /\ UNCHANGED limits
    /\ Goto(r, "done")
    /\ UNCHANGED <<change, plan, sweep>>

\* An error leaves the user with neither the old pending change nor the new.
Schedule(r, c) ==
    /\ at[r] = "schedule"
    /\ \/ CreatePendingLimitChange(c, plan[r].user, plan[r].want) /\ NoFault
       \/ ActiveOf(plan[r].user) # {} /\ NoFault /\ UNCHANGED change
       \/ Fault /\ UNCHANGED change
    /\ Goto(r, "done")
    /\ UNCHANGED <<limits, plan, sweep>>

\* DELETE /v1/me/limits/pending
CancelPending(u) ==
    /\ ActiveOf(u) # {}
    /\ CancelPendingLimitChanges(u)
    /\ NoFault
    /\ UNCHANGED <<limits, at, plan, sweep>>

\* The cooldown of a change is over.
Ripens(c) ==
    /\ c \in DOMAIN change
    /\ ~change[c].ripe
    /\ change' = [change EXCEPT ![c].ripe = TRUE]
    /\ NoFault
    /\ UNCHANGED <<limits, at, plan, sweep>>

-----------------------------------------------------------------------------
(* ApplyDue, at the start of each sweep of the reconciler.                 *)

ListDue ==
    /\ due = {}
    /\ marking = {}
    /\ DuePendingLimits # {}
    /\ due' = DuePendingLimits
    /\ NoFault
    /\ UNCHANGED <<limits, change, at, plan, marking>>

ApplyOne(c) ==
    /\ marking = {}
    /\ c \in due
    /\ due' = due \ {c}
    /\ \/ /\ UpdateUserLimits(change[c].user, change[c].want)
          /\ marking' = {c}
          /\ NoFault
       \/ Fault /\ UNCHANGED <<limits, marking>>
    /\ UNCHANGED <<change, at, plan>>

MarkOne(c) ==
    /\ c \in marking
    /\ marking' = {}
    /\ \/ MarkPendingLimitApplied(c) /\ NoFault
       \/ Fault /\ UNCHANGED change
    /\ UNCHANGED <<limits, at, plan, due>>

-----------------------------------------------------------------------------
\* The client goes away: what is left of the request errs.
Disconnect(r) ==
    /\ at[r] \notin {"idle", "done"}
    /\ Fault
    /\ Goto(r, "done")
    /\ UNCHANGED <<limits, change, plan, sweep>>

Crash ==
    /\ Fault
    /\ at' = [r \in Setter |-> IF at[r] = "idle" THEN "idle" ELSE "done"]
    /\ due' = {}
    /\ marking' = {}
    /\ UNCHANGED <<limits, change, plan>>

SetterStep(r) == \/ Cancel(r) \/ Apply(r)
                 \/ \E c \in Change : Schedule(r, c)

SweepStep == \E c \in Change : ApplyOne(c) \/ MarkOne(c)

Next ==
    \/ \E r \in Setter :
         \/ \E u \in User, want \in Pair : Load(r, u, want)
         \/ SetterStep(r)
         \/ Disconnect(r)
    \/ \E u \in User : CancelPending(u)
    \/ \E c \in Change : Ripens(c)
    \/ ListDue
    \/ SweepStep
    \/ Crash

Spec == Init /\ [][Next]_vars

\* The reconciler sweeps for ever and cooldowns end.
SweptSpec ==
    /\ Spec
    /\ SF_vars(ListDue)
    /\ WF_vars(SweepStep)
    /\ \A c \in Change : WF_vars(Ripens(c))

-----------------------------------------------------------------------------
(* What the code keeps.                                                    *)

\* Change c has waited for its cooldown.
Grants(c, u) == change[c].user = u /\ change[c].ripe

\* No interleaving of requests, cancellations and sweeps lets a user send
\* more than he could at the start or than a change allows that he asked for
\* at least a cooldown ago.
LimitsAreGranted ==
    \A u \in User :
        /\ \/ limits[u].tx <= InitialTx
           \/ \E c \in DOMAIN change :
                 Grants(c, u) /\ limits[u].tx <= change[c].want.tx
        /\ \/ limits[u].day <= InitialDay
           \/ \E c \in DOMAIN change :
                 Grants(c, u) /\ limits[u].day <= change[c].want.day

Pending(c) == c \in DOMAIN change /\ Active(c)

\* A pending change does not stay pending for ever: it is applied, or a
\* request took its place, also when sweeps are cut off half way.
PendingEnds == \A c \in Change : Pending(c) ~> ~Pending(c)
=============================================================================
