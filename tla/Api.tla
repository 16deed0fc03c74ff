--------------------------------- MODULE Api ---------------------------------
(***************************************************************************)
(* The authenticated routes of internal/http/server.go, as far as their    *)
(* limiter and the notices are concerned: a call is counted for its user,  *)
(* and what is let in registers and removes push tokens and notifies the   *)
(* handsets of users.  What else the calls do, and who has a session, is   *)
(* in Access, Intake and Payments.                                         *)
(***************************************************************************)
EXTENDS Naturals, FiniteSets

CONSTANTS
    Call,          \* requests, each followed by another one
    User,          \* users
    Session,       \* rows of device_sessions
    Handset,       \* FCM tokens
    Limit,         \* calls per window and user
    MaxFaults      \* bound on errors and clients that go away

ASSUME ApiAssumption ==
    /\ Limit \in Nat \ {0}
    /\ MaxFaults \in Nat

VARIABLES
    session,    \* session[s]: whose session it is, "none" before the sign-in
    at,         \* at[c]: the next step of call c
    ask,        \* what each call under way was sent with
    count, ttl, first,                    \* see RateLimit
    pushToken, todo, disowned,            \* see Push
    dead, refused,                        \* see Push
    faults      \* faults so far

Nobody == "none"

L == INSTANCE RateLimit WITH Subject <- User
P == INSTANCE Push

limiter == <<count, ttl, first>>
push == <<pushToken, todo, disowned, dead, refused>>
vars == <<session, at, ask, limiter, push, faults>>

\* The calls that matter here; "notify" stands for those that end in a
\* notice to all handsets of a user: a payment settled, an account locked.
\* user: who signs in, calls, or is to be notified; session: his, or the
\* one found for a registration.
Ask == [op : {"signIn", "register", "deregister", "notify"},
        user : User,
        session : Session \cup {P!NoSession},
        handset : Handset \cup {Nobody}]

Step == {"idle", "expire", "handle", "upsert", "send"}

TypeOK ==
    /\ session \in [Session -> User \cup {Nobody}]
    /\ at \in [Call -> Step]
    /\ DOMAIN ask \subseteq Call
    /\ \A c \in DOMAIN ask : ask[c] \in Ask
    /\ L!TypeOK
    /\ P!TypeOK
    /\ faults \in 0..MaxFaults

Init ==
    /\ session = [s \in Session |-> Nobody]
    /\ at = [c \in Call |-> "idle"]
    /\ ask = [c \in {} |-> 0]
    /\ L!Init
    /\ P!Init
    /\ faults = 0

-----------------------------------------------------------------------------
Fault == faults < MaxFaults /\ faults' = faults + 1

NoFault == faults' = faults

Goto(c, step) == at' = [at EXCEPT ![c] = step]

Asks(c, op, u, s, d) ==
    ask' = [x \in DOMAIN ask \cup {c} |->
               IF x = c THEN [op |-> op, user |-> u, session |-> s, handset |-> d]
                        ELSE ask[x]]

Forget(c) == ask' = [x \in DOMAIN ask \ {c} |-> ask[x]]

Return(c) == Goto(c, "idle") /\ Forget(c)

-----------------------------------------------------------------------------
(* The way in.                                                             *)

\* A sign-in opens a session (CreateDeviceSession) and then tells the other
\* handsets of the user.  Its limiter, by address, is left out.
SignIn(c, u, s) ==
    /\ at[c] = "idle"
    /\ session[s] = Nobody
    /\ session' = [session EXCEPT ![s] = u]
    /\ Asks(c, "signIn", u, s, Nobody)
    /\ Goto(c, "handle")
    /\ NoFault
    /\ UNCHANGED <<limiter, push>>

\* A call of the user subject: the limiter lets it in or, with 429, refuses
\* it.
CallBy(c, subject, op, u, s, d) ==
    /\ at[c] = "idle"
    /\ subject # Nobody
    /\ \/ /\ L!Hit(c, subject)
          /\ IF L!Verdict(subject) = "refused"
             THEN UNCHANGED <<at, ask>>
             ELSE /\ Goto(c, IF L!Verdict(subject) = "expire"
                             THEN "expire" ELSE "handle")
                  /\ Asks(c, op, u, s, d)
          /\ NoFault
       \/ /\ Fault
          /\ L!HitErrs(subject)
          /\ Goto(c, "handle")
          /\ Asks(c, op, u, s, d)
    /\ UNCHANGED <<session, push>>

RegisterCall(c, s, d) ==
    CallBy(c, session[s], "register", session[s], s, d)

DeregisterCall(c, s, d) ==
    CallBy(c, session[s], "deregister", session[s], P!NoSession, d)

NotifyingCall(c, s, u) ==
    CallBy(c, session[s], "notify", u, P!NoSession, Nobody)

Expire(c) ==
    /\ at[c] = "expire"
    /\ \E s \in User :
         \/ L!Expire(c, s) /\ NoFault
         \/ L!ExpireErrs(c, s) /\ Fault
    /\ Goto(c, "handle")
    /\ UNCHANGED <<session, ask, push>>

-----------------------------------------------------------------------------
(* The handlers.                                                           *)

Handles(c, op) == at[c] = "handle" /\ ask[c].op = op

\* register looks for the caller's session, which may have been revoked
\* meanwhile; then, or on an error, the token is bound to none.
BindSession(c) ==
    /\ Handles(c, "register")
    /\ \/ UNCHANGED ask
       \/ ask' = [ask EXCEPT ![c].session = P!NoSession]
    /\ Goto(c, "upsert")
    /\ NoFault
    /\ UNCHANGED <<session, limiter, push>>

Register(c) ==
    /\ at[c] = "upsert"
    /\ P!UpsertPushToken(ask[c].handset, ask[c].user, ask[c].session)
    /\ Return(c)
    /\ NoFault
    /\ UNCHANGED <<session, limiter, todo, disowned, dead, refused>>

Deregister(c) ==
    /\ Handles(c, "deregister")
    /\ P!RevokePushToken(ask[c].handset)
    /\ Return(c)
    /\ NoFault
    /\ UNCHANGED <<session, limiter, todo, disowned, dead, refused>>

List(c) ==
    /\ \/ /\ Handles(c, "signIn")
          /\ P!NotifyNewDeviceLogin(c, ask[c].user, ask[c].session)
       \/ /\ Handles(c, "notify")
          /\ P!FanoutToUser(c, ask[c].user)
    /\ Goto(c, "send")
    /\ Forget(c)
    /\ NoFault
    /\ UNCHANGED <<session, limiter>>

Send(c) ==
    /\ at[c] = "send"
    /\ \E d \in Handset :
         \/ NoFault /\ (P!Send(c, d) \/ P!Prune(c, d, FALSE))
         \/ Fault /\ (P!SendErrs(c, d) \/ P!Prune(c, d, TRUE))
    /\ UNCHANGED <<session, at, ask, limiter>>

Finish(c) ==
    /\ at[c] = "send"
    /\ P!Idle(c)
    /\ Return(c)
    /\ NoFault
    /\ UNCHANGED <<session, limiter, push>>

\* A statement errs, or the client goes away with all that is left to do.
Errs(c) ==
    /\ at[c] \in {"handle", "upsert", "send"}
    /\ Fault
    /\ P!Abandon(c)
    /\ Return(c)
    /\ UNCHANGED <<session, limiter>>

-----------------------------------------------------------------------------
WindowPasses(u) ==
    /\ L!Tick(u)
    /\ NoFault
    /\ UNCHANGED <<session, at, ask, push>>

Uninstall(d) ==
    /\ P!Uninstall(d)
    /\ NoFault
    /\ UNCHANGED <<session, at, ask, limiter>>

CallStep(c) == \/ Expire(c) \/ BindSession(c) \/ Register(c)
               \/ Deregister(c) \/ List(c) \/ Send(c) \/ Finish(c)

Next ==
    \/ \E c \in Call :
         \/ \E s \in Session :
              \/ \E u \in User : SignIn(c, u, s) \/ NotifyingCall(c, s, u)
              \/ \E d \in Handset :
                    RegisterCall(c, s, d) \/ DeregisterCall(c, s, d)
         \/ CallStep(c)
         \/ Errs(c)
    \/ \E u \in User : WindowPasses(u)
    \/ \E d \in Handset : Uninstall(d)

Spec == Init /\ [][Next]_vars

-----------------------------------------------------------------------------
(* What the code keeps.                                                    *)

\* A window, once it has an end, is not put off by the calls that come in
\* before: whoever is refused is let in again, however steadily he calls ...
WindowsAreFixed ==
    [][\A s \in User : ttl[s] > 0 => ttl'[s] <= ttl[s]]_vars

\* ... unless his counter has no end.  That takes an error: the call that
\* creates a counter, and no other, is about to give it its TTL, however the
\* calls of a subject overlap.
OrphansAreFaults ==
    (\E s \in User : L!Orphan(s)) => faults > 0

\* The row of a handset whose app is there is only replaced by another
\* registration.  It is removed on request, or by a notice that Firebase has
\* just refused in words the code takes for those about a dead token (they
\* may be about the message); all other notices in flight, to the same
\* handset under its last user or to others, do not take it away.
RegisteredStays ==
    [][\A d \in DOMAIN pushToken \ dead :
          \/ d \in DOMAIN pushToken'
          \/ \E c \in Call : <<c, d>> \in refused
          \/ \E c \in Call : Handles(c, "deregister") /\ ask[c].handset = d]_vars

\* A notice goes to all handsets that were listed: the loop ends before it
\* has come to each only when the client went away.
NobodyIsSkipped ==
    [][\A c \in Call :
          \/ Cardinality(todo[c] \ todo'[c]) <= 1
          \/ faults' > faults]_vars
=============================================================================
