---------------------------- MODULE LimitsProofs ----------------------------
(***************************************************************************)
(* No limit is ever above what was granted, for any number of users,       *)
(* requests, changes, amounts and faults.                                  *)
(***************************************************************************)
EXTENDS Limits, TLAPS

\* A user may have these limits.
Granted(u, want) ==
    /\ \/ want.tx <= InitialTx
       \/ \E c \in DOMAIN change : Grants(c, u) /\ want.tx <= change[c].want.tx
    /\ \/ want.day <= InitialDay
       \/ \E c \in DOMAIN change : Grants(c, u) /\ want.day <= change[c].want.day

\* What a request that lowers the limits is about to write is granted
\* already, whatever has happened since it looked.
LowersToGranted ==
    \A r \in Setter :
        /\ at[r] = "apply" => plan[r].lowers
        /\ at[r] \in {"cancel", "apply"} /\ plan[r].lowers =>
               Granted(plan[r].user, plan[r].want)

\* The sweep only has changes whose cooldown is over.
DueIsRipe == \A c \in due : change[c].ripe

LimitsInv ==
    /\ TypeOK
    /\ \A u \in User : Granted(u, limits[u])
    /\ LowersToGranted
    /\ DueIsRipe

-----------------------------------------------------------------------------
(* The rows of pending changes.                                            *)

ChangesOK ==
    /\ DOMAIN change \subseteq Change
    /\ \A c \in DOMAIN change : change[c] \in ChangeRow

\* Rows are never deleted, moved to another user or amended, and a cooldown
\* that is over stays over.
ChangesGrow ==
    /\ DOMAIN change \subseteq DOMAIN change'
    /\ \A c \in DOMAIN change :
          /\ change'[c].user = change[c].user
          /\ change'[c].want = change[c].want
          /\ change[c].ripe => change'[c].ripe

LEMMA ValidLimits == ASSUME NEW want \in Pair PROVE Valid(want) <=> want \in Limit
BY DEF Valid, Limit

LEMMA LimitFields ==
    ASSUME NEW want \in Limit
    PROVE  want.tx \in Nat /\ want.day \in Nat
BY LimitsAssumption DEF Limit, Pair

\* What a row may become.
Amended(row, new) ==
    /\ new \in ChangeRow
    /\ new.user = row.user
    /\ new.want = row.want
    /\ row.ripe => new.ripe

LEMMA RowFields ==
    ASSUME NEW row \in ChangeRow
    PROVE  /\ Amended(row, row)
           /\ Amended(row, [row EXCEPT !.cancelled = TRUE])
           /\ Amended(row, [row EXCEPT !.applied = TRUE])
           /\ Amended(row, [row EXCEPT !.ripe = TRUE])
<1>1. Amended(row, [row EXCEPT !.cancelled = TRUE])
  <2>1. [row EXCEPT !.cancelled = TRUE] \in ChangeRow
    BY DEF ChangeRow
  <2>2. [row EXCEPT !.cancelled = TRUE].ripe = row.ripe
    BY DEF ChangeRow
  <2>3. QED
    BY <2>1, <2>2 DEF ChangeRow, Amended
<1>2. Amended(row, [row EXCEPT !.applied = TRUE])
  <2>1. [row EXCEPT !.applied = TRUE] \in ChangeRow
    BY DEF ChangeRow
  <2>2. [row EXCEPT !.applied = TRUE].ripe = row.ripe
    BY DEF ChangeRow
  <2>3. QED
    BY <2>1, <2>2 DEF ChangeRow, Amended
<1>3. Amended(row, [row EXCEPT !.ripe = TRUE])
  <2>1. [row EXCEPT !.ripe = TRUE] \in ChangeRow
    BY DEF ChangeRow
  <2>2. [row EXCEPT !.ripe = TRUE].ripe
    BY DEF ChangeRow
  <2>3. QED
    BY <2>1, <2>2 DEF ChangeRow, Amended
<1>4. QED
  BY <1>1, <1>2, <1>3 DEF Amended

LEMMA GrantedStays ==
    ASSUME ChangesGrow, NEW u, NEW want, Granted(u, want)
    PROVE  Granted(u, want)'
<1>1. ASSUME NEW c \in DOMAIN change, Grants(c, u)
      PROVE  /\ c \in DOMAIN change' /\ Grants(c, u)'
             /\ change'[c].want = change[c].want
  BY <1>1 DEF ChangesGrow, Grants
<1>2. QED
  BY <1>1 DEF Granted

LEMMA CancelRows ==
    ASSUME ChangesOK, NEW u, CancelPendingLimitChanges(u)
    PROVE  ChangesOK' /\ ChangesGrow
<1>1. DOMAIN change' = DOMAIN change
  BY DEF CancelPendingLimitChanges
<1>2. ASSUME NEW c \in DOMAIN change
      PROVE  Amended(change[c], change'[c])
  <2>1. change[c] \in ChangeRow
    BY DEF ChangesOK
  <2>2. change'[c] = change[c] \/ change'[c] = [change[c] EXCEPT !.cancelled = TRUE]
    BY DEF CancelPendingLimitChanges
  <2>3. QED
    BY <2>1, <2>2, RowFields
<1>3. QED
  BY <1>1, <1>2 DEF ChangesOK, ChangesGrow, Amended

LEMMA CreateRows ==
    ASSUME ChangesOK, NEW c \in Change, NEW u \in User, NEW want \in Limit,
           CreatePendingLimitChange(c, u, want)
    PROVE  ChangesOK' /\ ChangesGrow
<1>1. /\ c \notin DOMAIN change
      /\ DOMAIN change' = DOMAIN change \cup {c}
      /\ \A d \in DOMAIN change : change'[d] = change[d]
      /\ change'[c] = [user |-> u, want |-> want, ripe |-> FALSE,
                       applied |-> FALSE, cancelled |-> FALSE]
  BY DEF CreatePendingLimitChange, With
<1>2. change'[c] \in ChangeRow
  BY <1>1 DEF ChangeRow
<1>3. QED
  BY <1>1, <1>2 DEF ChangesOK, ChangesGrow

LEMMA ColumnRows ==
    ASSUME ChangesOK, NEW c \in DOMAIN change,
           \/ change' = [change EXCEPT ![c].ripe = TRUE]
           \/ change' = [change EXCEPT ![c].applied = TRUE]
    PROVE  ChangesOK' /\ ChangesGrow
<1>1. DOMAIN change' = DOMAIN change
  OBVIOUS
<1>2. ASSUME NEW d \in DOMAIN change
      PROVE  Amended(change[d], change'[d])
  <2>1. change[d] \in ChangeRow
    BY DEF ChangesOK
  <2>2. \/ change'[d] = change[d]
        \/ change'[d] = [change[d] EXCEPT !.ripe = TRUE]
        \/ change'[d] = [change[d] EXCEPT !.applied = TRUE]
    OBVIOUS
  <2>3. QED
    BY <2>1, <2>2, RowFields
<1>3. QED
  BY <1>1, <1>2 DEF ChangesOK, ChangesGrow, Amended

LEMMA SameRows ==
    ASSUME ChangesOK, UNCHANGED change
    PROVE  ChangesOK' /\ ChangesGrow
BY DEF ChangesOK, ChangesGrow

\* Every step keeps the rows of pending changes.
LEMMA RowsKept ==
    ASSUME TypeOK, [Next]_vars
    PROVE  ChangesOK' /\ ChangesGrow
<1>1. ChangesOK
  BY DEF TypeOK, ChangesOK
<1>2. ASSUME NEW r \in Setter, NEW u \in User, NEW want \in Pair, Load(r, u, want)
      PROVE  UNCHANGED change
  BY <1>2 DEF Load
<1>3. ASSUME NEW r \in Setter, Cancel(r)
      PROVE  CancelPendingLimitChanges(plan[r].user) \/ UNCHANGED change
  BY <1>3 DEF Cancel
<1>4. ASSUME NEW r \in Setter, Apply(r) PROVE UNCHANGED change
  BY <1>4 DEF Apply
<1>5. ASSUME NEW r \in Setter, NEW c \in Change, Schedule(r, c)
      PROVE  ChangesOK' /\ ChangesGrow
  <2>1. plan[r].user \in User /\ plan[r].want \in Limit
    BY <1>5 DEF Schedule, TypeOK
  <2>2. CASE CreatePendingLimitChange(c, plan[r].user, plan[r].want)
    BY <2>1, <2>2, <1>1, CreateRows
  <2>3. CASE UNCHANGED change
    BY <2>3, <1>1, SameRows
  <2>4. QED
    BY <1>5, <2>2, <2>3 DEF Schedule
<1>6. ASSUME NEW c \in Change, Ripens(c) PROVE ChangesOK' /\ ChangesGrow
  BY <1>1, <1>6, ColumnRows DEF Ripens
<1>7. ASSUME NEW c \in Change, MarkOne(c) PROVE ChangesOK' /\ ChangesGrow
  <2>1. c \in DOMAIN change
    BY <1>7 DEF MarkOne, TypeOK
  <2>2. QED
    BY <2>1, <1>1, <1>7, ColumnRows, SameRows DEF MarkOne, MarkPendingLimitApplied
<1>8. ASSUME NEW r \in Setter, Disconnect(r) PROVE UNCHANGED change
  BY <1>8 DEF Disconnect
<1>9. ASSUME NEW c \in Change, ApplyOne(c) PROVE UNCHANGED change
  BY <1>9 DEF ApplyOne
<1>10. ASSUME NEW u \in User, CancelPending(u) PROVE CancelPendingLimitChanges(u)
  BY <1>10 DEF CancelPending
<1>11. ListDue \/ Crash \/ UNCHANGED vars => UNCHANGED change
  BY DEF ListDue, Crash, vars
<1>12. QED
  BY <1>1, <1>2, <1>3, <1>4, <1>5, <1>6, <1>7, <1>8, <1>9, <1>10, <1>11,
     CancelRows, SameRows
  DEF Next, SetterStep, SweepStep

-----------------------------------------------------------------------------
(* The type invariant.                                                     *)

PlanRow == [user : User, want : Limit, lowers : BOOLEAN]

AtSteps == {"idle", "cancel", "apply", "schedule", "done"}

\* TypeOK but for the rows of pending changes.
RequestsOK ==
    /\ at \in [Setter -> AtSteps]
    /\ DOMAIN plan \subseteq Setter
    /\ \A r \in DOMAIN plan : plan[r] \in PlanRow
    /\ \A r \in Setter : at[r] # "idle" => r \in DOMAIN plan

LEMMA TypeParts ==
    TypeOK <=> /\ limits \in [User -> Limit]
               /\ ChangesOK
               /\ RequestsOK
               /\ due \subseteq DOMAIN change
               /\ marking \subseteq DOMAIN change
               /\ faults \in 0..MaxFaults
BY DEF TypeOK, ChangesOK, RequestsOK, PlanRow, AtSteps

LEMMA FaultType ==
    ASSUME TypeOK, Fault \/ NoFault
    PROVE  faults' \in 0..MaxFaults
BY LimitsAssumption DEF TypeOK, Fault, NoFault

LEMMA GotoType ==
    ASSUME RequestsOK, NEW r \in Setter, at[r] # "idle", NEW s \in AtSteps,
           Goto(r, s), UNCHANGED plan
    PROVE  RequestsOK'
BY DEF RequestsOK, Goto

LEMMA LoadType ==
    ASSUME RequestsOK, limits \in [User -> Limit],
           NEW r \in Setter, NEW u \in User, NEW want \in Pair, Load(r, u, want)
    PROVE  RequestsOK'
<1> DEFINE new == [user |-> u, want |-> want, lowers |-> Lowers(want, limits[u])]
<1>1. want \in Limit
  BY ValidLimits DEF Load
<1>2. Lowers(want, limits[u]) \in BOOLEAN
  BY DEF Lowers
<1>3. new \in PlanRow
  BY <1>1, <1>2 DEF PlanRow
<1>4. /\ DOMAIN plan' = DOMAIN plan \cup {r}
      /\ plan'[r] = new
      /\ \A q \in DOMAIN plan \ {r} : plan'[q] = plan[q]
  BY DEF Load, With
<1>5. at' = [at EXCEPT ![r] = "cancel"]
  BY DEF Load, Goto
<1> HIDE DEF new
<1>6. QED
  BY <1>3, <1>4, <1>5 DEF RequestsOK, AtSteps

LEMMA TypeInit == Init => TypeOK
<1> SUFFICES ASSUME Init PROVE TypeOK
  OBVIOUS
<1>1. Initial \in Limit
  BY LimitsAssumption, ValidLimits
<1>2. limits \in [User -> Limit]
  BY <1>1 DEF Init
<1>3. DOMAIN change = {} /\ DOMAIN plan = {} /\ due = {} /\ marking = {}
  BY DEF Init
<1>4. at \in [Setter -> {"idle", "cancel", "apply", "schedule", "done"}]
      /\ \A r \in Setter : at[r] = "idle"
  BY DEF Init
<1>5. faults \in 0..MaxFaults
  BY LimitsAssumption DEF Init
<1>6. QED
  BY <1>2, <1>3, <1>4, <1>5 DEF TypeOK

LEMMA TypeNext == TypeOK /\ [Next]_vars => TypeOK'
<1> SUFFICES ASSUME TypeOK, [Next]_vars PROVE TypeOK'
  OBVIOUS
<1>1. /\ limits \in [User -> Limit] /\ RequestsOK
      /\ due \subseteq DOMAIN change /\ marking \subseteq DOMAIN change
  BY TypeParts
<1>2. /\ ChangesOK'
      /\ due \subseteq DOMAIN change' /\ marking \subseteq DOMAIN change'
  BY <1>1, RowsKept DEF ChangesGrow
<1> DEFINE Rest == /\ limits' \in [User -> Limit]
                   /\ RequestsOK'
                   /\ due' \subseteq DOMAIN change'
                   /\ marking' \subseteq DOMAIN change'
                   /\ faults' \in 0..MaxFaults
<1>3. ASSUME NEW r \in Setter, NEW u \in User, NEW want \in Pair, Load(r, u, want)
      PROVE  Rest
  <2>1. RequestsOK'
    BY <1>1, <1>3, LoadType
  <2>2. UNCHANGED <<limits, due, marking>> /\ NoFault
    BY <1>3 DEF Load, sweep
  <2>3. QED
    BY <2>1, <2>2, <1>1, <1>2, FaultType
<1>4. ASSUME NEW r \in Setter, Cancel(r) PROVE Rest
  <2>1. /\ at[r] # "idle" /\ UNCHANGED plan
        /\ \E s \in AtSteps : Goto(r, s)
    BY <1>4 DEF Cancel, AtSteps
  <2>2. UNCHANGED <<limits, due, marking>> /\ (Fault \/ NoFault)
    BY <1>4 DEF Cancel, sweep
  <2>3. QED
    BY <2>1, <2>2, <1>1, <1>2, FaultType, GotoType
<1>5. ASSUME NEW r \in Setter, Apply(r) PROVE Rest
  <2>1. /\ at[r] # "idle" /\ UNCHANGED plan
        /\ \E s \in AtSteps : Goto(r, s)
    BY <1>5 DEF Apply, AtSteps
  <2>2. UNCHANGED <<due, marking>> /\ (Fault \/ NoFault)
    BY <1>5 DEF Apply, sweep
  <2>3. plan[r].user \in User /\ plan[r].want \in Limit
    BY <2>1, <1>1 DEF RequestsOK, PlanRow
  <2>4. limits' \in [User -> Limit]
    BY <2>3, <1>1, <1>5 DEF Apply, UpdateUserLimits
  <2>5. QED
    BY <2>1, <2>2, <2>4, <1>1, <1>2, FaultType, GotoType
<1>6. ASSUME NEW r \in Setter, NEW c \in Change, Schedule(r, c) PROVE Rest
  <2>1. /\ at[r] # "idle" /\ UNCHANGED plan
        /\ \E s \in AtSteps : Goto(r, s)
    BY <1>6 DEF Schedule, AtSteps
  <2>2. UNCHANGED <<limits, due, marking>> /\ (Fault \/ NoFault)
    BY <1>6 DEF Schedule, sweep
  <2>3. QED
    BY <2>1, <2>2, <1>1, <1>2, FaultType, GotoType
<1>7. ASSUME NEW r \in Setter, Disconnect(r) PROVE Rest
  <2>1. /\ at[r] # "idle" /\ UNCHANGED plan
        /\ \E s \in AtSteps : Goto(r, s)
    BY <1>7 DEF Disconnect, AtSteps
  <2>2. UNCHANGED <<limits, due, marking>> /\ Fault
    BY <1>7 DEF Disconnect, sweep
  <2>3. QED
    BY <2>1, <2>2, <1>1, <1>2, FaultType, GotoType
<1>8. ASSUME (\E u \in User : CancelPending(u)) \/ (\E c \in Change : Ripens(c))
      PROVE  Rest
  <2>1. UNCHANGED <<limits, at, plan, due, marking>> /\ NoFault
    BY <1>8 DEF CancelPending, Ripens, sweep
  <2>2. QED
    BY <2>1, <1>1, <1>2, FaultType DEF RequestsOK
<1>9. ASSUME ListDue PROVE Rest
  <2>1. UNCHANGED <<limits, change, at, plan, marking>> /\ NoFault
    BY <1>9 DEF ListDue
  <2>2. due' \subseteq DOMAIN change'
    BY <1>9, <2>1 DEF ListDue, DuePendingLimits
  <2>3. QED
    BY <2>1, <2>2, <1>1, FaultType DEF RequestsOK
<1>10. ASSUME NEW c \in Change, ApplyOne(c) PROVE Rest
  <2>1. UNCHANGED <<change, at, plan>> /\ (Fault \/ NoFault)
    BY <1>10 DEF ApplyOne
  <2>2. c \in DOMAIN change /\ due' \subseteq due
        /\ (marking' = {c} \/ marking' = marking)
    BY <1>1, <1>10 DEF ApplyOne
  <2>3. change[c].user \in User /\ change[c].want \in Limit
    BY <2>2 DEF TypeOK, ChangeRow
  <2>4. limits' \in [User -> Limit]
    BY <2>3, <1>1, <1>10 DEF ApplyOne, UpdateUserLimits
  <2>5. QED
    BY <2>1, <2>2, <2>4, <1>1, FaultType DEF RequestsOK
<1>11. ASSUME NEW c \in Change, MarkOne(c) PROVE Rest
  <2>1. UNCHANGED <<limits, at, plan, due>> /\ marking' = {}
        /\ (Fault \/ NoFault)
    BY <1>11 DEF MarkOne
  <2>2. QED
    BY <2>1, <1>1, <1>2, FaultType DEF RequestsOK
<1>12. ASSUME Crash PROVE Rest
  <2>1. UNCHANGED <<limits, change, plan>> /\ due' = {} /\ marking' = {} /\ Fault
    BY <1>12 DEF Crash
  <2>2. /\ at' \in [Setter -> AtSteps]
        /\ \A r \in Setter : at'[r] # "idle" => at[r] # "idle"
    BY <1>12 DEF Crash, AtSteps
  <2>3. RequestsOK'
    BY <2>1, <2>2, <1>1 DEF RequestsOK
  <2>4. QED
    BY <2>1, <2>3, <1>1, FaultType
<1>13. ASSUME UNCHANGED vars PROVE Rest
  BY <1>13, <1>1 DEF vars, RequestsOK, TypeOK
<1>14. Rest
  BY <1>3, <1>4, <1>5, <1>6, <1>7, <1>8, <1>9, <1>10, <1>11, <1>12, <1>13
  DEF Next, SetterStep, SweepStep
<1>15. QED
  BY <1>2, <1>14, TypeParts DEF TypeOK, ChangesOK, RequestsOK, PlanRow, AtSteps

\* The variables have their types in every behaviour of the limits.
THEOREM TypeCorrect == Spec => []TypeOK
BY TypeInit, TypeNext, PTL DEF Spec

-----------------------------------------------------------------------------
(* What has been granted stays granted, so only the steps that write the   *)
(* limits, and the look at them that comes before, need an argument.       *)

LimitsGranted == \A u \in User : Granted(u, limits[u])

LEMMA LimitsSame ==
    ASSUME TypeOK, LimitsGranted, ChangesGrow, UNCHANGED limits
    PROVE  LimitsGranted'
<1> SUFFICES ASSUME NEW u \in User, NEW want, want = limits[u]
             PROVE  Granted(u, want)'
  BY DEF LimitsGranted, Granted
<1>1. Granted(u, want)
  BY DEF LimitsGranted
<1>2. QED
  BY <1>1, GrantedStays

LEMMA LimitsWritten ==
    ASSUME TypeOK, LimitsGranted, ChangesGrow,
           NEW v \in User, NEW given \in Limit, Granted(v, given),
           UpdateUserLimits(v, given)
    PROVE  LimitsGranted'
<1> SUFFICES ASSUME NEW u \in User, NEW want, want = limits'[u]
             PROVE  Granted(u, want)'
  BY DEF LimitsGranted, Granted
<1>1. CASE u = v
  <2>1. want = given
    BY <1>1 DEF TypeOK, UpdateUserLimits
  <2>2. QED
    BY <1>1, <2>1, GrantedStays
<1>2. CASE u # v
  <2>1. want = limits[u]
    BY <1>2 DEF TypeOK, UpdateUserLimits
  <2>2. Granted(u, want)
    BY <2>1 DEF LimitsGranted
  <2>3. QED
    BY <2>2, GrantedStays
<1>3. QED
  BY <1>1, <1>2

\* A ripe change grants what it asks for.
LEMMA RipeGrants ==
    ASSUME TypeOK, NEW c \in DOMAIN change, change[c].ripe
    PROVE  Granted(change[c].user, change[c].want)
<1>1. change[c].want \in Limit
  BY DEF TypeOK, ChangeRow
<1>2. change[c].want.tx <= change[c].want.tx
      /\ change[c].want.day <= change[c].want.day
  BY <1>1, LimitFields
<1>3. QED
  BY <1>2 DEF Granted, Grants

\* Nor does a request that lowers the limits ask for more than it has seen.
LEMMA LowersGrants ==
    ASSUME TypeOK, LimitsGranted, NEW u \in User, NEW want \in Limit,
           Lowers(want, limits[u])
    PROVE  Granted(u, want)
<1>1. limits[u] \in Limit
  BY DEF TypeOK
<1>2. /\ want.tx \in Nat /\ want.day \in Nat
      /\ limits[u].tx \in Nat /\ limits[u].day \in Nat
      /\ InitialTx \in Nat /\ InitialDay \in Nat
  BY <1>1, LimitFields, LimitsAssumption DEF Initial, Pair
<1>3. \A c \in DOMAIN change :
          change[c].want.tx \in Nat /\ change[c].want.day \in Nat
  BY LimitFields DEF TypeOK, ChangeRow
<1>4. want.tx <= limits[u].tx /\ want.day <= limits[u].day
  BY DEF Lowers
<1>5. Granted(u, limits[u])
  BY DEF LimitsGranted
<1>6. CASE limits[u].tx <= InitialTx
  BY <1>2, <1>3, <1>4, <1>5, <1>6 DEF Granted
<1>7. CASE \E c \in DOMAIN change :
               Grants(c, u) /\ limits[u].tx <= change[c].want.tx
  BY <1>2, <1>3, <1>4, <1>5, <1>7 DEF Granted
<1>8. QED
  BY <1>5, <1>6, <1>7 DEF Granted

LowerOK(r) ==
    /\ at[r] = "apply" => plan[r].lowers
    /\ at[r] \in {"cancel", "apply"} /\ plan[r].lowers =>
           Granted(plan[r].user, plan[r].want)

LEMMA PlanStays ==
    ASSUME ChangesGrow, NEW r, plan'[r] = plan[r],
           Granted(plan[r].user, plan[r].want)
    PROVE  Granted(plan[r].user, plan[r].want)'
<1> SUFFICES ASSUME NEW u, NEW want, u = plan[r].user, want = plan[r].want
             PROVE  Granted(plan[r].user, plan[r].want)'
  OBVIOUS
<1>1. Granted(u, want)
  OBVIOUS
<1>2. Granted(u, want)'
  BY <1>1, GrantedStays
<1>3. plan'[r].user = u /\ plan'[r].want = want
  OBVIOUS
<1>4. QED
  BY <1>2, <1>3 DEF Granted, Grants

\* A request whose plan stays and which enters neither step.
LEMMA LowerKept ==
    ASSUME NEW r, LowerOK(r), ChangesGrow,
           at'[r] = at[r] \/ at'[r] \notin {"cancel", "apply"},
           plan'[r] = plan[r]
    PROVE  LowerOK(r)'
<1>1. CASE at'[r] = at[r]
  BY <1>1, PlanStays DEF LowerOK
<1>2. CASE at'[r] \notin {"cancel", "apply"}
  BY <1>2 DEF LowerOK
<1>3. QED
  BY <1>1, <1>2

-----------------------------------------------------------------------------
(* The inductive invariant.                                                *)

LEMMA InvParts ==
    LimitsInv <=> /\ TypeOK
                  /\ LimitsGranted
                  /\ \A r \in Setter : LowerOK(r)
                  /\ DueIsRipe
BY DEF LimitsInv, LimitsGranted, LowersToGranted, LowerOK

LEMMA InvInit == Init => LimitsInv
<1> SUFFICES ASSUME Init PROVE LimitsInv
  OBVIOUS
<1>1. InitialTx <= InitialTx /\ InitialDay <= InitialDay
  <2>1. InitialTx \in Level /\ InitialDay \in Level
    BY LimitsAssumption DEF Initial, Pair
  <2>2. InitialTx \in Nat /\ InitialDay \in Nat
    BY <2>1, LimitsAssumption
  <2>3. QED
    BY <2>2
<1>2. \A u \in User : limits[u].tx = InitialTx /\ limits[u].day = InitialDay
  BY DEF Init, Initial
<1>3. LimitsGranted
  BY <1>1, <1>2 DEF LimitsGranted, Granted
<1>4. DueIsRipe /\ \A r \in Setter : LowerOK(r)
  BY DEF Init, DueIsRipe, LowerOK
<1>5. QED
  BY <1>3, <1>4, TypeInit, InvParts

LEMMA LoadKeeps ==
    ASSUME LimitsInv, ChangesGrow,
           NEW r \in Setter, NEW u \in User, NEW want \in Pair, Load(r, u, want)
    PROVE  \A q \in Setter : LowerOK(q)'
<1>1. TypeOK /\ LimitsGranted /\ (\A q \in Setter : LowerOK(q)) /\ ChangesGrow
  BY InvParts
<1>2. want \in Limit
  BY ValidLimits DEF Load
<1>3. /\ plan'[r] = [user |-> u, want |-> want, lowers |-> Lowers(want, limits[u])]
      /\ \A q \in DOMAIN plan \ {r} : plan'[q] = plan[q]
  BY DEF Load, With
<1>4. /\ at'[r] = "cancel"
      /\ \A q \in Setter \ {r} : at'[q] = at[q]
  BY <1>1 DEF Load, Goto, TypeOK
<1>5. LowerOK(r)'
  <2>1. Lowers(want, limits[u]) => Granted(u, want)'
    BY <1>1, <1>2, LowersGrants, GrantedStays
  <2>2. /\ plan'[r].user = u /\ plan'[r].want = want
        /\ plan'[r].lowers = Lowers(want, limits[u])
    BY <1>3
  <2>3. Lowers(want, limits[u]) => Granted(plan[r].user, plan[r].want)'
    BY <2>1, <2>2 DEF Granted
  <2>4. QED
    BY <1>4, <2>2, <2>3 DEF LowerOK
<1>6. ASSUME NEW q \in Setter \ {r} PROVE LowerOK(q)'
  <2>1. CASE q \in DOMAIN plan
    BY <2>1, <1>1, <1>3, <1>4, LowerKept
  <2>2. CASE q \notin DOMAIN plan
    BY <2>2, <1>1, <1>4 DEF TypeOK, LowerOK
  <2>3. QED
    BY <2>1, <2>2
<1>7. QED
  BY <1>5, <1>6

\* A request that goes on from at[r] alters no other.
LEMMA GotoKeeps ==
    ASSUME TypeOK, \A q \in Setter : LowerOK(q), ChangesGrow, UNCHANGED plan,
           NEW r \in Setter, NEW s, s \notin {"cancel", "apply"}, Goto(r, s)
    PROVE  \A q \in Setter : LowerOK(q)'
<1> TAKE q \in Setter
<1>1. at'[q] = at[q] \/ at'[q] \notin {"cancel", "apply"}
  BY DEF Goto, TypeOK
<1>2. QED
  BY <1>1, LowerKept

LEMMA CancelKeeps ==
    ASSUME TypeOK, \A q \in Setter : LowerOK(q), ChangesGrow,
           NEW r \in Setter, Cancel(r)
    PROVE  \A q \in Setter : LowerOK(q)'
<1>1. UNCHANGED plan
  BY DEF Cancel
<1>2. CASE Goto(r, "schedule") \/ Goto(r, "done")
  BY <1>1, <1>2, GotoKeeps
<1>3. CASE plan[r].lowers /\ Goto(r, "apply")
  <2>1. /\ at[r] = "cancel" /\ at'[r] = "apply"
        /\ \A q \in Setter \ {r} : at'[q] = at[q]
    BY <1>3 DEF Cancel, Goto, TypeOK
  <2>2. Granted(plan[r].user, plan[r].want)'
    BY <2>1, <1>1, <1>3, PlanStays DEF LowerOK
  <2>3. LowerOK(r)'
    BY <2>1, <2>2, <1>1, <1>3 DEF LowerOK
  <2>4. \A q \in Setter \ {r} : LowerOK(q)'
    BY <2>1, <1>1, LowerKept
  <2>5. QED
    BY <2>3, <2>4
<1>4. QED
  BY <1>2, <1>3 DEF Cancel

LEMMA InvNext == LimitsInv /\ [Next]_vars => LimitsInv'
<1> SUFFICES ASSUME LimitsInv, [Next]_vars PROVE LimitsInv'
  OBVIOUS
<1>1. TypeOK /\ LimitsGranted /\ (\A q \in Setter : LowerOK(q)) /\ DueIsRipe
  BY InvParts
<1>2. TypeOK' /\ ChangesGrow
  BY <1>1, TypeNext, RowsKept
<1>3. due' \subseteq due => DueIsRipe'
  BY <1>1, <1>2 DEF DueIsRipe, ChangesGrow, TypeOK
<1> DEFINE Rest == LimitsGranted' /\ (\A q \in Setter : LowerOK(q)') /\ DueIsRipe'
<1>4. ASSUME NEW r \in Setter, NEW u \in User, NEW want \in Pair, Load(r, u, want)
      PROVE  Rest
  <2>1. UNCHANGED <<limits, due>>
    BY <1>4 DEF Load, sweep
  <2>2. QED
    BY <2>1, <1>1, <1>2, <1>3, <1>4, LimitsSame, LoadKeeps, InvParts
<1>5. ASSUME NEW r \in Setter, Cancel(r) PROVE Rest
  <2>1. UNCHANGED <<limits, due>>
    BY <1>5 DEF Cancel, sweep
  <2>2. QED
    BY <2>1, <1>1, <1>2, <1>3, <1>5, LimitsSame, CancelKeeps
<1>6. ASSUME NEW r \in Setter, Apply(r) PROVE Rest
  <2>1. UNCHANGED <<plan, due>> /\ Goto(r, "done") /\ at[r] = "apply"
    BY <1>6 DEF Apply, sweep
  <2>2. /\ plan[r].user \in User /\ plan[r].want \in Limit
        /\ Granted(plan[r].user, plan[r].want)
    BY <2>1, <1>1 DEF TypeOK, LowerOK
  <2>3. LimitsGranted'
    BY <2>2, <1>1, <1>2, <1>6, LimitsWritten, LimitsSame DEF Apply
  <2>4. QED
    BY <2>1, <2>3, <1>1, <1>2, <1>3, GotoKeeps
<1>7. ASSUME NEW r \in Setter, (\E c \in Change : Schedule(r, c)) \/ Disconnect(r)
      PROVE  Rest
  <2>1. UNCHANGED <<limits, plan, due>> /\ Goto(r, "done")
    BY <1>7 DEF Schedule, Disconnect, sweep
  <2>2. QED
    BY <2>1, <1>1, <1>2, <1>3, LimitsSame, GotoKeeps
<1>8. ASSUME UNCHANGED <<limits, plan>>, due' \subseteq due,
             \A q \in Setter : at'[q] = at[q] \/ at'[q] = "done"
      PROVE  Rest
  <2>1. \A q \in Setter : LowerOK(q)'
    BY <1>1, <1>2, <1>8, LowerKept
  <2>2. QED
    BY <2>1, <1>1, <1>2, <1>3, <1>8, LimitsSame
<1>9. ASSUME \/ \E u \in User : CancelPending(u)
             \/ \E c \in Change : Ripens(c) \/ MarkOne(c)
             \/ UNCHANGED vars
      PROVE  Rest
  <2>1. UNCHANGED <<limits, at, plan, due>>
    BY <1>9 DEF CancelPending, Ripens, MarkOne, vars, sweep
  <2>2. QED
    BY <2>1, <1>8
<1>10. ASSUME ListDue PROVE Rest
  <2>1. UNCHANGED <<limits, change, at, plan>> /\ due' = DuePendingLimits
    BY <1>10 DEF ListDue
  <2>2. DueIsRipe'
    BY <2>1 DEF DueIsRipe, DuePendingLimits
  <2>3. \A q \in Setter : LowerOK(q)'
    BY <2>1, <1>1, <1>2, LowerKept
  <2>4. QED
    BY <2>1, <2>2, <2>3, <1>1, <1>2, LimitsSame
<1>11. ASSUME NEW c \in Change, ApplyOne(c) PROVE Rest
  <2>1. UNCHANGED <<at, plan>> /\ due' \subseteq due
    BY <1>11 DEF ApplyOne
  <2>2. c \in DOMAIN change /\ change[c].ripe
    BY <1>1, <1>11 DEF ApplyOne, DueIsRipe, TypeOK
  <2>3. /\ change[c].user \in User /\ change[c].want \in Limit
        /\ Granted(change[c].user, change[c].want)
    BY <2>2, <1>1, RipeGrants DEF TypeOK, ChangeRow
  <2>4. LimitsGranted'
    BY <2>3, <1>1, <1>2, <1>11, LimitsWritten, LimitsSame DEF ApplyOne
  <2>5. \A q \in Setter : LowerOK(q)'
    BY <2>1, <1>1, <1>2, LowerKept
  <2>6. QED
    BY <2>1, <2>4, <2>5, <1>3
<1>12. ASSUME Crash PROVE Rest
  <2>1. UNCHANGED <<limits, plan>> /\ due' \subseteq due
    BY <1>12 DEF Crash
  <2>2. \A q \in Setter : at'[q] = at[q] \/ at'[q] = "done"
    BY <1>12 DEF Crash
  <2>3. QED
    BY <2>1, <2>2, <1>8
<1>13. Rest
  BY <1>4, <1>5, <1>6, <1>7, <1>9, <1>10, <1>11, <1>12
  DEF Next, SetterStep, SweepStep
<1>14. QED
  BY <1>2, <1>13, InvParts DEF LimitsInv, LimitsGranted, LowersToGranted, LowerOK

\* In every behaviour no user may send more than he could at the start or
\* than a change allows that he asked for at least a cooldown ago.
THEOREM NeverRaisedEarly == Spec => []LimitsAreGranted
<1>1. LimitsInv => LimitsAreGranted
  BY DEF LimitsInv, LimitsAreGranted, Granted
<1>2. QED
  BY <1>1, InvInit, InvNext, PTL DEF Spec

=============================================================================
