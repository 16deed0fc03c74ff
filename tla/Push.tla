-------------------------------- MODULE Push --------------------------------
(***************************************************************************)
(* The push tokens of the handsets and the notices sent to them.  A token  *)
(* is registered for a user and a session, reassigned when the handset     *)
(* changes hands, and removed by its owner or when Firebase disowns it.    *)
(* Who registers and who notifies when is not decided here, see Api.       *)
(***************************************************************************)
EXTENDS Naturals

CONSTANTS
    User,          \* users
    Session,       \* rows of device_sessions
    Handset,       \* FCM tokens: one per installation of the app
    Call           \* the requests that notify

VARIABLES
    pushToken,  \* the rows that are not revoked, a function on Handset
    todo,       \* todo[c]: the listed handsets c has still to send to
    disowned,   \* <<c, d>>: c takes d for dead and is about to remove its row
    dead,       \* the tokens that Firebase no longer knows
    refused     \* <<c, d>>: ... knows d and refused c's message in words that
                \* c looks for in the answers about dead tokens

\* device_session_id is NULL when the session was not found.
NoSession == "no session"

TokenRow == [user : User, session : Session \cup {NoSession}]

TypeOK ==
    /\ DOMAIN pushToken \subseteq Handset
    /\ \A d \in DOMAIN pushToken : pushToken[d] \in TokenRow
    /\ todo \in [Call -> SUBSET Handset]
    /\ disowned \subseteq Call \X Handset
    /\ dead \subseteq Handset
    /\ refused \subseteq Call \X Handset

Init ==
    /\ pushToken = [d \in {} |-> 0]
    /\ todo = [c \in Call |-> {}]
    /\ disowned = {}
    /\ dead = {}
    /\ refused = {}

-----------------------------------------------------------------------------
(* The statements of push_tokens.sql.                                      *)

\* ON CONFLICT (fcm_token) of an active row, its user and session change.
UpsertPushToken(d, u, s) ==
    pushToken' = [e \in DOMAIN pushToken \cup {d} |->
                     IF e = d THEN [user |-> u, session |-> s]
                              ELSE pushToken[e]]

RevokePushToken(d) ==
    pushToken' = [e \in DOMAIN pushToken \ {d} |-> pushToken[e]]

ListUserPushTokens(u) == {d \in DOMAIN pushToken : pushToken[d].user = u}

ListUserPushTokensExceptSession(u, s) ==
    {d \in ListUserPushTokens(u) : pushToken[d].session # s}

-----------------------------------------------------------------------------
(* Notices.                                                                *)

Idle(c) == todo[c] = {} /\ \A d \in Handset : <<c, d>> \notin disowned

\* NotifyPaymentReceived and NotifyAccountLocked.
FanoutToUser(c, u) ==
    /\ todo' = [todo EXCEPT ![c] = ListUserPushTokens(u)]
    /\ UNCHANGED <<pushToken, disowned, dead, refused>>

NotifyNewDeviceLogin(c, u, s) ==
    /\ todo' = [todo EXCEPT ![c] = ListUserPushTokensExceptSession(u, s)]
    /\ UNCHANGED <<pushToken, disowned, dead, refused>>

Sent(c, d) == todo' = [todo EXCEPT ![c] = @ \ {d}]

Ready(c, d) == d \in todo[c] /\ \A e \in Handset : <<c, e>> \notin disowned

\* Mutant: the loop ends with the first handset that is gone.
SendStops(c, d) ==
    /\ Ready(c, d)
    /\ IF d \in dead THEN /\ todo' = [todo EXCEPT ![c] = {}]
                          /\ disowned' = disowned \cup {<<c, d>>}
                     ELSE Sent(c, d) /\ UNCHANGED disowned
    /\ UNCHANGED <<pushToken, dead, refused>>

\* Firebase answers as it should: only a token it does not know is dead.
Send(c, d) ==
    /\ Ready(c, d)
    /\ Sent(c, d)
    /\ disowned' = IF d \in dead THEN disowned \cup {<<c, d>>} ELSE disowned
    /\ UNCHANGED <<pushToken, dead, refused>>

\* Mutant: whatever error comes back, the token is taken for a dead one.
SendErrsPrunes(c, d) ==
    /\ Ready(c, d)
    /\ Sent(c, d)
    /\ disowned' = disowned \cup {<<c, d>>}
    /\ refused' \in {refused, refused \cup {<<c, d>>}}
    /\ UNCHANGED <<pushToken, dead>>

\* Any other error is logged, unless its text has one of the words of
\* isUnregistered in it ("not-found", "invalid-argument", ...), whatever it
\* is about.
SendErrs(c, d) ==
    /\ Ready(c, d)
    /\ Sent(c, d)
    /\ \/ /\ refused' = refused \cup {<<c, d>>}
          /\ disowned' = disowned \cup {<<c, d>>}
       \/ UNCHANGED <<refused, disowned>>
    /\ UNCHANGED <<pushToken, dead>>

\* RevokePushToken by the token's value; its error is dropped.
Prune(c, d, errs) ==
    /\ <<c, d>> \in disowned
    /\ disowned' = disowned \ {<<c, d>>}
    /\ refused' = refused \ {<<c, d>>}
    /\ IF errs THEN UNCHANGED pushToken ELSE RevokePushToken(d)
    /\ UNCHANGED <<todo, dead>>

\* The client of c goes away: the sends that are left err.
Abandon(c) ==
    /\ todo' = [todo EXCEPT ![c] = {}]
    /\ disowned' = {x \in disowned : x[1] # c}
    /\ refused' = {x \in refused : x[1] # c}
    /\ UNCHANGED <<pushToken, dead>>

\* The app is removed from the handset, or its token replaced.
Uninstall(d) ==
    /\ d \notin dead
    /\ dead' = dead \cup {d}
    /\ UNCHANGED <<pushToken, todo, disowned, refused>>
=============================================================================
