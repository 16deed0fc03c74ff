------------------------------- MODULE Access -------------------------------
(***************************************************************************)
(* Who may act for a user: codes are requested and verified, a sign-in     *)
(* opens a session, AuthMiddleware looks at the session and at the user    *)
(* before each request, and sessions are revoked one by one, all but one,  *)
(* or with the account lock.  Behind the middleware stand the handlers of  *)
(* Mandates.  Every step is one SQL statement.                             *)
(***************************************************************************)
EXTENDS Naturals, Sequences

CONSTANTS
    Phone,         \* phone numbers: a user is known by his
    Asker,         \* POST /v1/auth/otp requests
    SignIn,        \* POST /v1/auth/verify requests
    Session,       \* rows of device_sessions
    Request,       \* authenticated requests
    Mandate,       \* rows of mandates
    AuthCode,      \* authorization codes of Paystack
    MaxAttempts,   \* otp_requests.max_attempts
    MaxFaults      \* bound on errors and dropped connections

ASSUME AccessAssumption ==
    /\ MaxAttempts \in Nat
    /\ MaxFaults \in Nat
    /\ Asker \cap SignIn = {}
    /\ (Asker \cup SignIn) \cap Request = {}
    /\ Mandate \cap AuthCode = {}

VARIABLES
    otp,        \* otp[p]: the rows of otp_requests for p, oldest first
    user,       \* user[p]: users.status, "none" before the first sign-in
    session,    \* the rows of device_sessions, a function on those inserted
    at,         \* at[x]: the next step of request x, of any kind
    phone,      \* phone[x]: whose codes x asks for or verifies
    tried,      \* tried[x]: the code sign-in x was given and the row it found
    request,    \* what each authenticated request that has begun carries
    mandate,    \* see Mandates
    call,
    faults      \* faults so far

signing == <<otp, phone, tried>>
vars == <<otp, user, session, at, phone, tried, request, mandate, call, faults>>

M == INSTANCE Mandates WITH User <- Phone, Caller <- Request

Code == [live : BOOLEAN, verified : BOOLEAN, attempts : Nat]

SessionRow == [phone : Phone, revoked : BOOLEAN]

\* barred: when the request came in, its session was revoked or its user
\* locked.  Only the properties look at it.
Carried == [session : Session, barred : BOOLEAN]

Thread == Asker \cup SignIn \cup Request

Step == {"idle", "expire", "create", "count", "verify", "loadUser",
         "createUser", "createSession", "session", "user", "handle",
         "others", "lockLookup", "lockOthers", "lockOwn", "mandates", "done"}

TypeOK ==
    /\ \A p \in Phone : otp[p] \in Seq(Code)
    /\ user \in [Phone -> {"none", "active", "locked"}]
    /\ DOMAIN session \subseteq Session
    /\ \A s \in DOMAIN session : session[s] \in SessionRow
    /\ at \in [Thread -> Step]
    /\ DOMAIN phone \subseteq Asker \cup SignIn
    /\ \A x \in DOMAIN phone : phone[x] \in Phone
    /\ \A x \in DOMAIN tried :
          tried[x].row \in 1..Len(otp[phone[x]]) /\ tried[x].typed \in Nat
    /\ DOMAIN request \subseteq Request
    /\ \A r \in DOMAIN request :
          request[r] \in Carried /\ request[r].session \in DOMAIN session
    /\ M!TypeOK
    /\ faults \in 0..MaxFaults

Init ==
    /\ otp = [p \in Phone |-> <<>>]
    /\ user = [p \in Phone |-> "none"]
    /\ session = [s \in {} |-> 0]
    /\ at = [x \in Thread |-> "idle"]
    /\ phone = [x \in {} |-> 0]
    /\ tried = [x \in {} |-> 0]
    /\ request = [r \in {} |-> 0]
    /\ M!Init
    /\ faults = 0

-----------------------------------------------------------------------------
Fault == faults < MaxFaults /\ faults' = faults + 1

NoFault == faults' = faults

Goto(x, step) == at' = [at EXCEPT ![x] = step]

With(f, x, value) == [y \in DOMAIN f \cup {x} |->
                         IF y = x THEN value ELSE f[y]]

\* A statement errs or the client goes away: the request ends there.
Errs(x) ==
    /\ at[x] \notin {"idle", "mandates", "done"}
    /\ Fault
    /\ Goto(x, "done")
    /\ UNCHANGED <<signing, user, session, request, mandate, call>>

-----------------------------------------------------------------------------
(* RequestOTP: the codes of the phone are expired, then one is made.       *)

RequestOTP(a, p) ==
    /\ at[a] = "idle"
    /\ phone' = With(phone, a, p)
    /\ Goto(a, "expire")
    /\ NoFault
    /\ UNCHANGED <<otp, tried, user, session, request, mandate, call>>

ExpirePreviousOTPs(a) ==
    LET p == phone[a] IN
    /\ at[a] = "expire"
    /\ otp' = [otp EXCEPT ![p] =
                  [i \in DOMAIN otp[p] |->
                      IF otp[p][i].verified THEN otp[p][i]
                      ELSE [otp[p][i] EXCEPT !.live = FALSE]]]
    /\ Goto(a, "create")
    /\ NoFault
    /\ UNCHANGED <<phone, tried, user, session, request, mandate, call>>

CreateOTPRequest(a) ==
    /\ at[a] = "create"
    /\ otp' = [otp EXCEPT ![phone[a]] =
                  Append(@, [live |-> TRUE, verified |-> FALSE, attempts |-> 0])]
    /\ Goto(a, "done")
    /\ NoFault
    /\ UNCHANGED <<phone, tried, user, session, request, mandate, call>>

\* Five minutes pass.
CodeLapses(p) ==
    /\ \E i \in DOMAIN otp[p] :
          /\ otp[p][i].live
          /\ otp' = [otp EXCEPT ![p][i].live = FALSE]
    /\ NoFault
    /\ UNCHANGED <<at, phone, tried, user, session, request, mandate, call>>

-----------------------------------------------------------------------------
(* VerifyOTP.                                                              *)

Unverified(p) == {i \in DOMAIN otp[p] : ~otp[p][i].verified}

\* GetLatestOTPRequest.
IsLatest(p, i) == i \in Unverified(p) /\ \A j \in Unverified(p) : j <= i

\* The row neither expired nor used up its attempts.
Acceptable(p, i) == otp[p][i].live /\ otp[p][i].attempts < MaxAttempts

\* typed: the code that was sent as row i, or none of them (0).
VerifyOTP(x, p, typed) ==
    /\ at[x] = "idle"
    /\ phone' = With(phone, x, p)
    /\ \/ \E i \in Unverified(p) :
             /\ IsLatest(p, i)
             /\ Acceptable(p, i)
             /\ tried' = With(tried, x, [typed |-> typed, row |-> i])
             /\ Goto(x, "count")
       \/ /\ \A i \in Unverified(p) : IsLatest(p, i) => ~Acceptable(p, i)
          /\ Goto(x, "done")
          /\ UNCHANGED tried
    /\ NoFault
    /\ UNCHANGED <<otp, user, session, request, mandate, call>>

\* IncrementOTPAttempts; then the code is compared.
Count(x) ==
    LET p == phone[x] IN
    /\ at[x] = "count"
    /\ otp' = [otp EXCEPT ![p][tried[x].row].attempts = @ + 1]
    /\ Goto(x, IF tried[x].typed = tried[x].row THEN "verify" ELSE "done")
    /\ NoFault
    /\ UNCHANGED <<phone, tried, user, session, request, mandate, call>>

MarkOTPVerified(x) ==
    /\ at[x] = "verify"
    /\ otp' = [otp EXCEPT ![phone[x]][tried[x].row].verified = TRUE]
    /\ Goto(x, "loadUser")
    /\ NoFault
    /\ UNCHANGED <<phone, tried, user, session, request, mandate, call>>

\* The status of the user is not looked at.
GetUserByPhone(x) ==
    /\ at[x] = "loadUser"
    /\ Goto(x, IF user[phone[x]] = "none" THEN "createUser" ELSE "createSession")
    /\ NoFault
    /\ UNCHANGED <<signing, user, session, request, mandate, call>>

\* users.phone is unique: the second of two first sign-ins fails.
CreateUser(x) ==
    LET p == phone[x] IN
    /\ at[x] = "createUser"
    /\ \/ /\ user[p] = "none"
          /\ user' = [user EXCEPT ![p] = "active"]
          /\ Goto(x, "createSession")
       \/ user[p] # "none" /\ Goto(x, "done") /\ UNCHANGED user
    /\ NoFault
    /\ UNCHANGED <<signing, session, request, mandate, call>>

CreateDeviceSession(x, s) ==
    /\ at[x] = "createSession"
    /\ s \notin DOMAIN session
    /\ session' = With(session, s, [phone |-> phone[x], revoked |-> FALSE])
    /\ Goto(x, "done")
    /\ NoFault
    /\ UNCHANGED <<signing, user, request, mandate, call>>

-----------------------------------------------------------------------------
(* AuthMiddleware.                                                         *)

Caller(r) == session[request[r].session].phone

Arrive(r, s) ==
    /\ at[r] = "idle"
    /\ s \in DOMAIN session
    /\ request' = With(request, r,
           [session |-> s,
            barred |-> session[s].revoked \/ user[session[s].phone] = "locked"])
    /\ Goto(r, "session")
    /\ NoFault
    /\ UNCHANGED <<signing, user, session, mandate, call>>

\* GetActiveDeviceSessionByJTI
ActiveSession(r) == ~session[request[r].session].revoked

CheckSession(r) ==
    /\ at[r] = "session"
    /\ Goto(r, IF ActiveSession(r) THEN "user" ELSE "done")
    /\ NoFault
    /\ UNCHANGED <<signing, user, session, request, mandate, call>>

\* Mutant: the status of the account is not looked at.
CheckUserNever(r) ==
    /\ at[r] = "user"
    /\ Goto(r, "handle")
    /\ NoFault
    /\ UNCHANGED <<signing, user, session, request, mandate, call>>

CheckUser(r) ==
    /\ at[r] = "user"
    /\ Goto(r, IF user[Caller(r)] = "locked" THEN "done" ELSE "handle")
    /\ NoFault
    /\ UNCHANGED <<signing, user, session, request, mandate, call>>

-----------------------------------------------------------------------------
(* Devices and the lock.                                                   *)

RevokeDeviceSession(s, p) ==
    session' = IF session[s].phone = p
               THEN [session EXCEPT ![s].revoked = TRUE] ELSE session

RevokeAllOtherDeviceSessions(s, p) ==
    session' = [t \in DOMAIN session |->
                   IF session[t].phone = p /\ t # s
                   THEN [session[t] EXCEPT !.revoked = TRUE] ELSE session[t]]

\* DELETE /v1/me/devices/:id
Revoke(r, s) ==
    /\ at[r] = "handle"
    /\ s \in DOMAIN session
    /\ RevokeDeviceSession(s, Caller(r))
    /\ Goto(r, "done")
    /\ NoFault
    /\ UNCHANGED <<signing, user, request, mandate, call>>

\* DELETE /v1/me/devices: the caller's session is looked up once more.
RevokeAllOthers(r) ==
    /\ at[r] = "handle"
    /\ Goto(r, IF ActiveSession(r) THEN "others" ELSE "done")
    /\ NoFault
    /\ UNCHANGED <<signing, user, session, request, mandate, call>>

RevokeOthers(r) ==
    /\ at[r] \in {"others", "lockOthers"}
    /\ RevokeAllOtherDeviceSessions(request[r].session, Caller(r))
    /\ Goto(r, IF at[r] = "others" THEN "done" ELSE "lockOwn")
    /\ NoFault
    /\ UNCHANGED <<signing, user, request, mandate, call>>

\* Mutant: a status that CheckUser does not know.
LockFreezes(r) ==
    /\ at[r] = "handle"
    /\ user' = [user EXCEPT ![Caller(r)] = "frozen"]
    /\ Goto(r, "lockLookup")
    /\ NoFault
    /\ UNCHANGED <<signing, session, request, mandate, call>>

\* POST /v1/me/lock: SetUserStatus, then the sessions, as far as they can
\* be revoked: an error of a later statement is not reported.
Lock(r) ==
    /\ at[r] = "handle"
    /\ user' = [user EXCEPT ![Caller(r)] = "locked"]
    /\ Goto(r, "lockLookup")
    /\ NoFault
    /\ UNCHANGED <<signing, session, request, mandate, call>>

LockLookup(r) ==
    /\ at[r] = "lockLookup"
    /\ Goto(r, IF ActiveSession(r) THEN "lockOthers" ELSE "done")
    /\ NoFault
    /\ UNCHANGED <<signing, user, session, request, mandate, call>>

\* The error is dropped and the own session is revoked nevertheless.
LockOthersErrs(r) ==
    /\ at[r] = "lockOthers"
    /\ Fault
    /\ Goto(r, "lockOwn")
    /\ UNCHANGED <<signing, user, session, request, mandate, call>>

LockOwn(r) ==
    /\ at[r] = "lockOwn"
    /\ RevokeDeviceSession(request[r].session, Caller(r))
    /\ Goto(r, "done")
    /\ NoFault
    /\ UNCHANGED <<signing, user, request, mandate, call>>

-----------------------------------------------------------------------------
(* The mandates handlers.  A client knows the mandates that exist.         *)

HandleMandates(r) ==
    /\ at[r] = "handle"
    /\ \/ \E c \in AuthCode : M!VerifyMandate(r, Caller(r), c)
       \/ \E m \in DOMAIN mandate :
             M!SetDefault(r, Caller(r), m) \/ M!Revoke(r, Caller(r), m)
    /\ Goto(r, "mandates")
    /\ NoFault
    /\ UNCHANGED <<signing, user, session, request>>

Handled(r) ==
    /\ at[r] = "mandates"
    /\ \/ M!Step(r) /\ NoFault
       \/ M!Errs(r) /\ Fault
    /\ UNCHANGED <<signing, user, session, at, request>>

-----------------------------------------------------------------------------
AskerStep(a) == ExpirePreviousOTPs(a) \/ CreateOTPRequest(a)

SignInStep(x) == \/ Count(x) \/ MarkOTPVerified(x)
                 \/ GetUserByPhone(x) \/ CreateUser(x)
                 \/ \E s \in Session : CreateDeviceSession(x, s)

RequestStep(r) ==
    \/ CheckSession(r) \/ CheckUser(r)
    \/ \E s \in Session : Revoke(r, s)
    \/ RevokeAllOthers(r) \/ RevokeOthers(r)
    \/ Lock(r) \/ LockLookup(r) \/ LockOthersErrs(r) \/ LockOwn(r)
    \/ HandleMandates(r) \/ Handled(r)

Next ==
    \/ \E p \in Phone :
         \/ \E a \in Asker : RequestOTP(a, p)
         \/ \E x \in SignIn, typed \in 0..Len(otp[p]) : VerifyOTP(x, p, typed)
         \/ CodeLapses(p)
    \/ \E a \in Asker : AskerStep(a)
    \/ \E x \in SignIn : SignInStep(x)
    \/ \E r \in Request :
         \/ \E s \in Session : Arrive(r, s)
         \/ RequestStep(r)
    \/ \E x \in Thread : Errs(x)

Spec == Init /\ [][Next]_vars

-----------------------------------------------------------------------------
(* What the code keeps.                                                    *)

\* A request that comes in after its session was revoked, or after its user
\* locked the account, gets past AuthMiddleware under no interleaving with
\* sign-ins that open sessions meanwhile and locks that revoke but some: it
\* revokes no session and touches no mandate.
BarredDoNothing ==
    \A r \in DOMAIN request : request[r].barred =>
        at[r] \in {"session", "user", "done"} /\ r \notin DOMAIN call

\* The requests that pass keep one default mandate per user, as long as no
\* statement fails: see OneDefaultRemains in Mandates.
DefaultRemains == faults = 0 => \A p \in Phone : M!OneDefaultRemains(p)
=============================================================================
