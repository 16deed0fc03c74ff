------------------------------ MODULE Mandates ------------------------------
(***************************************************************************)
(* The mandates of the users and their default.  VerifyMandate and         *)
(* SetDefault are several statements each, which interleave; two unique    *)
(* indexes are all that serialises them.  Who may call at all is not       *)
(* decided here, see Access.                                               *)
(***************************************************************************)
EXTENDS Naturals

CONSTANTS
    User,          \* users
    Mandate,       \* rows of mandates
    AuthCode,      \* authorization codes of Paystack
    Caller         \* requests

VARIABLES
    mandate,    \* the rows of mandates, a function on those inserted
    call        \* what each request that has begun is doing

MandateRow == [user : User, code : AuthCode, active : BOOLEAN,
               isDefault : BOOLEAN]

CallStep == {"list", "unsetFirst", "create", "unset", "set", "revoke", "done"}

\* about: the mandate, or the authorization code, the request is about.
Call == [user : User, about : Mandate \cup AuthCode, step : CallStep,
         isFirst : BOOLEAN]

TypeOK ==
    /\ DOMAIN mandate \subseteq Mandate
    /\ \A m \in DOMAIN mandate : mandate[m] \in MandateRow
    /\ DOMAIN call \subseteq Caller
    /\ \A r \in DOMAIN call : call[r] \in Call

Init ==
    /\ mandate = [m \in {} |-> 0]
    /\ call = [r \in {} |-> 0]

-----------------------------------------------------------------------------
With(f, x, value) == [y \in DOMAIN f \cup {x} |->
                         IF y = x THEN value ELSE f[y]]

At(r, step) == r \in DOMAIN call /\ call[r].step = step

Goto(r, step) == call' = [call EXCEPT ![r].step = step]

End(r) == Goto(r, "done")

-----------------------------------------------------------------------------
(* The statements of mandates.sql and the indexes of migration 3.          *)

ListUserMandates(u) ==
    {m \in DOMAIN mandate : mandate[m].user = u /\ mandate[m].active}

DefaultsOf(u) == {m \in ListUserMandates(u) : mandate[m].isDefault}

\* mandates_user_authcode_idx: also the code of a revoked mandate is taken.
CodeTaken(u, code) ==
    \E m \in DOMAIN mandate : mandate[m].user = u /\ mandate[m].code = code

UnsetDefaultMandate(u) ==
    mandate' = [m \in DOMAIN mandate |->
                   IF mandate[m].user = u
                   THEN [mandate[m] EXCEPT !.isDefault = FALSE]
                   ELSE mandate[m]]

\* mandates_user_default_idx: at most one active default.
DefaultTaken(u, m) == DefaultsOf(u) \ {m} # {}

CreateMandate(m, u, code, isDefault) ==
    /\ m \notin DOMAIN mandate
    /\ ~CodeTaken(u, code)
    /\ ~(isDefault /\ DefaultTaken(u, m))
    /\ mandate' = With(mandate, m, [user |-> u, code |-> code, active |-> TRUE,
                                    isDefault |-> isDefault])

\* The mandate may be a revoked one.
Settable(m, u) ==
    /\ m \in DOMAIN mandate
    /\ mandate[m].user = u
    /\ ~(mandate[m].active /\ DefaultTaken(u, m))

SetDefaultMandate(m, u) ==
    /\ Settable(m, u)
    /\ mandate' = [mandate EXCEPT ![m].isDefault = TRUE]

RevokeMandate(m, u) ==
    mandate' = IF m \in DOMAIN mandate /\ mandate[m].user = u
               THEN [mandate EXCEPT ![m].active = FALSE, ![m].isDefault = FALSE]
               ELSE mandate

-----------------------------------------------------------------------------
Begins(r, u, about, step) ==
    /\ call' = With(call, r, [user |-> u, about |-> about, step |-> step,
                              isFirst |-> FALSE])
    /\ UNCHANGED mandate

\* Paystack has confirmed the authorization; otherwise nothing happens.
VerifyMandate(r, u, code) == Begins(r, u, code, "list")

SetDefault(r, u, m) == Begins(r, u, m, "unset")

Revoke(r, u, m) == Begins(r, u, m, "revoke")

\* Mutant: the default is unset whether or not this mandate becomes it.
ListAndUnset(r, errs) ==
    LET first == errs \/ ListUserMandates(call[r].user) = {} IN
    /\ At(r, "list")
    /\ call' = [call EXCEPT ![r].isFirst = first, ![r].step = "unsetFirst"]
    /\ UNCHANGED mandate

\* An error of the listing is dropped and counts as no mandates.
List(r, errs) ==
    LET first == errs \/ ListUserMandates(call[r].user) = {} IN
    /\ At(r, "list")
    /\ call' = [call EXCEPT ![r].isFirst = first,
                            ![r].step = IF first THEN "unsetFirst" ELSE "create"]
    /\ UNCHANGED mandate

\* So is an error of this statement.
UnsetFirst(r, errs) ==
    /\ At(r, "unsetFirst")
    /\ IF errs THEN UNCHANGED mandate ELSE UnsetDefaultMandate(call[r].user)
    /\ Goto(r, "create")

Create(r, m) ==
    /\ At(r, "create")
    /\ CreateMandate(m, call[r].user, call[r].about, call[r].isFirst)
    /\ End(r)

\* One of the indexes is violated.
CreateConflicts(r) ==
    /\ At(r, "create")
    /\ \/ CodeTaken(call[r].user, call[r].about)
       \/ call[r].isFirst /\ DefaultsOf(call[r].user) # {}
    /\ End(r)
    /\ UNCHANGED mandate

Unset(r) ==
    /\ At(r, "unset")
    /\ UnsetDefaultMandate(call[r].user)
    /\ Goto(r, "set")

\* No such row, or the index is violated: the old default stays unset.
Set(r) ==
    /\ At(r, "set")
    /\ \/ SetDefaultMandate(call[r].about, call[r].user)
       \/ ~Settable(call[r].about, call[r].user) /\ UNCHANGED mandate
    /\ End(r)

RevokeOne(r) ==
    /\ At(r, "revoke")
    /\ RevokeMandate(call[r].about, call[r].user)
    /\ End(r)

\* A statement errs, or the client goes away.
Errs(r) ==
    /\ r \in DOMAIN call
    /\ \/ List(r, TRUE)
       \/ UnsetFirst(r, TRUE)
       \/ ~At(r, "done") /\ End(r) /\ UNCHANGED mandate

Step(r) ==
    \/ List(r, FALSE)
    \/ UnsetFirst(r, FALSE)
    \/ \E m \in Mandate : Create(r, m)
    \/ CreateConflicts(r)
    \/ Unset(r) \/ Set(r)
    \/ RevokeOne(r)

-----------------------------------------------------------------------------
\* A verification under way with a code that another request brought, or
\* that is saved already, may unset the default and then fail to insert.
SameCode(r, q) ==
    /\ r # q
    /\ call[r].user = call[q].user
    /\ call[r].about \in AuthCode
    /\ call[r].about = call[q].about

\* The requests of u so far only named mandates of u, verified each code
\* once, and revoked nothing.
Orderly(u) ==
    /\ \A m \in DOMAIN mandate : mandate[m].user = u => mandate[m].active
    /\ \A r \in DOMAIN call : call[r].user = u =>
          /\ call[r].step # "revoke"
          /\ call[r].about \in AuthCode \/ call[r].about \in ListUserMandates(u)
          /\ \A q \in DOMAIN call : ~SameCode(r, q)

\* Every request of u has returned.
Settled(u) == \A r \in DOMAIN call : call[r].user = u => At(r, "done")

\* However many requests verify mandates and choose the default at the same
\* time, when they have returned exactly one mandate is the default, unless a
\* statement has failed, a code was verified twice or a mandate was revoked.
OneDefaultRemains(u) ==
    Orderly(u) /\ Settled(u) /\ ListUserMandates(u) # {} =>
        \E m \in Mandate : DefaultsOf(u) = {m}
=============================================================================
