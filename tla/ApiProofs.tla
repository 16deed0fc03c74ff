----------------------------- MODULE ApiProofs ------------------------------
(***************************************************************************)
(* The limiter and the notices, for any number of calls, users, sessions   *)
(* and handsets, any limit and any number of faults.                       *)
(***************************************************************************)
EXTENDS Api, FiniteSetTheorems, TLAPS

\* A counter that is not there has no TTL.  One that still waits for its
\* EXPIRE has none either, and waits for one call only.
Windows ==
    \A u \in User :
        /\ count[u] = 0 => ttl[u] = 0
        /\ \A x \in first : x[2] = u =>
              /\ count[u] > 0
              /\ ttl[u] = 0
              /\ \A y \in first : y[2] = u => y = x

\* What the limiter has let in is known, and a push token call names a
\* handset.
AsksOK ==
    \A c \in Call :
        /\ at[c] \in {"expire", "handle", "upsert"} => c \in DOMAIN ask
        /\ at[c] = "upsert" => ask[c].op = "register"
        /\ c \in DOMAIN ask /\ ask[c].op \in {"register", "deregister"} =>
              ask[c].handset \in Handset

\* About to be removed are only tokens that Firebase no longer knows and
\* those for which it has refused the message in the words looked for.
DisownedWithReason == \A x \in disowned : x[2] \in dead \/ x \in refused

LimiterOK == L!TypeOK /\ Windows /\ OrphansAreFaults

PushOK == P!TypeOK /\ DisownedWithReason

CallsOK ==
    /\ session \in [Session -> User \cup {Nobody}]
    /\ at \in [Call -> Step]
    /\ DOMAIN ask \subseteq Call
    /\ \A c \in DOMAIN ask : ask[c] \in Ask
    /\ AsksOK
    /\ faults \in 0..MaxFaults

\* The inductive invariant.
ApiInv == LimiterOK /\ PushOK /\ CallsOK

-----------------------------------------------------------------------------
(* The limiter.                                                            *)

\* A step of the limiter that leaves no counter without an end behind.
Tidy ==
    /\ L!TypeOK'
    /\ Windows'
    /\ \A u \in User : L!Orphan(u)' => L!Orphan(u)

LEMMA VerdictFacts ==
    ASSUME L!TypeOK, NEW u \in User
    PROVE  L!Verdict(u) = "expire" <=> count[u] = 0
BY ApiAssumption DEF L!TypeOK, L!Top, L!Verdict

LEMMA IncrType ==
    ASSUME L!TypeOK, NEW u \in User, L!Incr(u)
    PROVE  /\ count' \in [User -> 0..L!Top]
           /\ count'[u] > 0
           /\ \A v \in User : v # u => count'[v] = count[v]
BY ApiAssumption DEF L!TypeOK, L!Top, L!Incr

LEMMA HitTidy ==
    ASSUME L!TypeOK, Windows, NEW c \in Call, NEW u \in User, L!Hit(c, u)
    PROVE  Tidy
<1>1. /\ count' \in [User -> 0..L!Top]
      /\ count'[u] > 0
      /\ \A v \in User : v # u => count'[v] = count[v]
  BY IncrType DEF L!Hit
<1>2. first' = IF count[u] = 0 THEN first \cup {<<c, u>>} ELSE first
  BY VerdictFacts DEF L!Hit
<1>3. ttl' = ttl
  BY DEF L!Hit
<1>4. L!TypeOK'
  BY <1>1, <1>2, <1>3 DEF L!TypeOK
<1>5. Windows'
  <2> SUFFICES ASSUME NEW v \in User
               PROVE  /\ count'[v] = 0 => ttl'[v] = 0
                      /\ \A x \in first' : x[2] = v =>
                            /\ count'[v] > 0
                            /\ ttl'[v] = 0
                            /\ \A y \in first' : y[2] = v => y = x
    BY DEF Windows
  <2>1. CASE v # u
    BY <2>1, <1>1, <1>2, <1>3 DEF Windows
  <2>2. CASE v = u /\ count[u] = 0
    <3>1. \A x \in first : x[2] # u
      BY <2>2 DEF Windows
    <3>2. \A x \in first' : x[2] = u => x = <<c, u>>
      BY <2>2, <3>1, <1>2
    <3>3. QED
      BY <2>2, <3>2, <1>1, <1>3 DEF Windows
  <2>3. CASE v = u /\ count[u] # 0
    BY <2>3, <1>1, <1>2, <1>3 DEF Windows
  <2>4. QED
    BY <2>1, <2>2, <2>3
<1>6. ASSUME NEW v \in User, L!Orphan(v)'
      PROVE  L!Orphan(v)
  <2>1. ttl[v] = 0 /\ \A x \in first : x[2] # v
    BY <1>6, <1>2, <1>3 DEF L!Orphan
  <2>2. count[v] > 0
    <3>1. CASE v = u /\ count[u] = 0
      <4> DEFINE mine == <<c, u>>
      <4>1. mine \in first' /\ mine[2] = u
        BY <3>1, <1>2
      <4>2. QED
        BY <3>1, <4>1, <1>6 DEF L!Orphan
    <3>2. CASE v # u
      BY <3>2, <1>6, <1>1 DEF L!Orphan
    <3>3. QED
      BY <3>1, <3>2 DEF L!TypeOK, L!Top
  <2>3. QED
    BY <2>1, <2>2 DEF L!Orphan
<1>7. QED
  BY <1>4, <1>5, <1>6 DEF Tidy

LEMMA HitErrsKeeps ==
    ASSUME L!TypeOK, Windows, NEW u \in User, L!HitErrs(u)
    PROVE  L!TypeOK' /\ Windows'
<1>1. /\ count' \in [User -> 0..L!Top]
      /\ \A v \in User : count'[v] = 0 => count[v] = 0
      /\ \A v \in User : count[v] > 0 => count'[v] > 0
  BY IncrType DEF L!HitErrs, L!TypeOK, L!Top
<1>2. QED
  BY <1>1 DEF L!HitErrs, L!TypeOK, Windows

LEMMA ExpireTidy ==
    ASSUME L!TypeOK, Windows, NEW c \in Call, NEW u \in User, L!Expire(c, u)
    PROVE  Tidy
<1> DEFINE mine == <<c, u>>
<1>1. mine \in first /\ mine[2] = u /\ count[u] > 0
  BY DEF L!Expire, Windows
<1>2. \A x \in first' : x \in first /\ x[2] # u
  BY <1>1 DEF L!Expire, Windows
<1>3. ttl' = [ttl EXCEPT ![u] = 2] /\ count' = count
  BY DEF L!Expire, L!Window
<1>4. L!TypeOK'
  BY <1>2, <1>3 DEF L!TypeOK, L!Window, L!Expire
<1>5. Windows'
  BY <1>1, <1>2, <1>3 DEF Windows, L!TypeOK
<1>6. \A v \in User : L!Orphan(v)' => L!Orphan(v)
  <2> SUFFICES ASSUME NEW v \in User, L!Orphan(v)'
               PROVE  L!Orphan(v)
    OBVIOUS
  <2>1. v # u
    BY <1>3 DEF L!Orphan, L!TypeOK
  <2>2. \A x \in first : x[2] = v => x \in first'
    BY <2>1 DEF L!Expire
  <2>3. QED
    BY <1>3, <2>1, <2>2 DEF L!Orphan, L!TypeOK
<1>7. QED
  BY <1>4, <1>5, <1>6 DEF Tidy

LEMMA ExpireErrsKeeps ==
    ASSUME L!TypeOK, Windows, NEW c \in Call, NEW u \in User,
           L!ExpireErrs(c, u)
    PROVE  L!TypeOK' /\ Windows'
BY DEF L!ExpireErrs, L!TypeOK, Windows

LEMMA TickTidy ==
    ASSUME L!TypeOK, Windows, NEW u \in User, L!Tick(u)
    PROVE  Tidy
<1>1. ttl[u] \in 1..2 /\ ttl'[u] = ttl[u] - 1 /\ ttl' \in [User -> 0..L!Window]
  BY DEF L!Tick, L!TypeOK, L!Window
<1>2. count' \in [User -> 0..L!Top]
  BY ApiAssumption DEF L!Tick, L!TypeOK, L!Top
<1>3. /\ \A v \in User : v # u => ttl'[v] = ttl[v] /\ count'[v] = count[v]
      /\ ttl[u] = 1 => count'[u] = 0
      /\ ttl[u] # 1 => count'[u] = count[u]
      /\ first' = first
  BY DEF L!Tick, L!TypeOK
<1>4. \A x \in first : x[2] # u
  BY <1>1 DEF Windows
<1>5. L!TypeOK'
  BY <1>1, <1>2, <1>3 DEF L!TypeOK
<1>6. Windows'
  BY <1>1, <1>3, <1>4 DEF Windows
<1>7. \A v \in User : L!Orphan(v)' => L!Orphan(v)
  BY <1>1, <1>3 DEF L!Orphan
<1>8. QED
  BY <1>5, <1>6, <1>7 DEF Tidy


\* A step that leaves the limiter alone, or goes on tidily, or is a fault.
LEMMA LimiterKept ==
    ASSUME LimiterOK, CallsOK,
           \/ UNCHANGED limiter /\ (NoFault \/ Fault)
           \/ Tidy /\ NoFault
           \/ L!TypeOK' /\ Windows' /\ Fault
    PROVE  LimiterOK'
<1>1. faults \in Nat
  BY ApiAssumption DEF CallsOK
<1>2. CASE UNCHANGED limiter /\ (NoFault \/ Fault)
  BY <1>1, <1>2 DEF LimiterOK, limiter, L!TypeOK, Windows, OrphansAreFaults,
                    L!Orphan, NoFault, Fault
<1>3. CASE Tidy /\ NoFault
  BY <1>3 DEF LimiterOK, Tidy, OrphansAreFaults, NoFault
<1>4. CASE L!TypeOK' /\ Windows' /\ Fault
  BY <1>1, <1>4 DEF LimiterOK, OrphansAreFaults, Fault
<1>5. QED
  BY <1>2, <1>3, <1>4

LEMMA FaultsCount ==
    ASSUME CallsOK, NoFault \/ Fault
    PROVE  faults' \in 0..MaxFaults /\ faults' >= faults
BY ApiAssumption DEF CallsOK, NoFault, Fault

-----------------------------------------------------------------------------
(* The calls.                                                              *)

\* A call that is let in, with what it was sent with.
LEMMA LetIn ==
    ASSUME CallsOK, NEW c \in Call,
           NEW op \in {"signIn", "register", "deregister", "notify"},
           NEW u \in User, NEW s \in Session \cup {P!NoSession},
           NEW d \in Handset \cup {Nobody},
           op \in {"register", "deregister"} => d \in Handset,
           NEW step \in {"expire", "handle"},
           Asks(c, op, u, s, d), Goto(c, step), NoFault \/ Fault,
           session' \in [Session -> User \cup {Nobody}]
    PROVE  CallsOK'
<1>1. at' = [at EXCEPT ![c] = step] /\ at' \in [Call -> Step]
  BY DEF Goto, CallsOK, Step
<1> DEFINE mine == [op |-> op, user |-> u, session |-> s, handset |-> d]
<1>2. mine \in Ask /\ mine.op = op /\ mine.handset = d
  BY DEF Ask
<1> HIDE DEF mine
<1>3. ask' = [x \in DOMAIN ask \cup {c} |-> IF x = c THEN mine ELSE ask[x]]
  BY DEF Asks, mine
<1>4. DOMAIN ask' \subseteq Call /\ \A x \in DOMAIN ask' : ask'[x] \in Ask
  BY <1>2, <1>3 DEF CallsOK
<1>5. AsksOK'
  <2> SUFFICES ASSUME NEW x \in Call
               PROVE  /\ at'[x] \in {"expire", "handle", "upsert"}
                            => x \in DOMAIN ask'
                      /\ at'[x] = "upsert" => ask'[x].op = "register"
                      /\ x \in DOMAIN ask'
                         /\ ask'[x].op \in {"register", "deregister"} =>
                            ask'[x].handset \in Handset
    BY DEF AsksOK
  <2>1. CASE x = c
    BY <2>1, <1>1, <1>2, <1>3 DEF CallsOK
  <2>2. CASE x # c
    <3>1. at'[x] = at[x] /\ (x \in DOMAIN ask' <=> x \in DOMAIN ask)
      BY <2>2, <1>1, <1>3 DEF CallsOK
    <3>2. x \in DOMAIN ask => ask'[x] = ask[x]
      BY <2>2, <1>3
    <3>3. QED
      BY <3>1, <3>2 DEF CallsOK, AsksOK
  <2>3. QED
    BY <2>1, <2>2
<1>6. QED
  BY <1>1, <1>4, <1>5, FaultsCount DEF CallsOK

\* A call that is over, or has only to send.
LEMMA LetOut ==
    ASSUME CallsOK, NEW c \in Call, NEW step \in {"idle", "send"},
           Goto(c, step), Forget(c), NoFault \/ Fault, UNCHANGED session
    PROVE  CallsOK'
<1>1. at' = [at EXCEPT ![c] = step] /\ at' \in [Call -> Step]
  BY DEF Goto, CallsOK, Step
<1>2. ask' = [x \in DOMAIN ask \ {c} |-> ask[x]]
  BY DEF Forget
<1>3. DOMAIN ask' \subseteq Call /\ \A x \in DOMAIN ask' : ask'[x] \in Ask
  BY <1>2 DEF CallsOK
<1>4. AsksOK'
  <2> SUFFICES ASSUME NEW x \in Call
               PROVE  /\ at'[x] \in {"expire", "handle", "upsert"}
                            => x \in DOMAIN ask'
                      /\ at'[x] = "upsert" => ask'[x].op = "register"
                      /\ x \in DOMAIN ask'
                         /\ ask'[x].op \in {"register", "deregister"} =>
                            ask'[x].handset \in Handset
    BY DEF AsksOK
  <2>1. CASE x = c
    BY <2>1, <1>1, <1>2 DEF CallsOK
  <2>2. CASE x # c
    <3>1. at'[x] = at[x] /\ (x \in DOMAIN ask' <=> x \in DOMAIN ask)
      BY <2>2, <1>1, <1>2 DEF CallsOK
    <3>2. x \in DOMAIN ask => ask'[x] = ask[x]
      BY <2>2, <1>2
    <3>3. QED
      BY <3>1, <3>2 DEF CallsOK, AsksOK
  <2>3. QED
    BY <2>1, <2>2
<1>5. QED
  BY <1>1, <1>3, <1>4, FaultsCount DEF CallsOK

\* A call that goes on with what it was sent with.
LEMMA GoesOn ==
    ASSUME CallsOK, NEW c \in Call, c \in DOMAIN ask,
           NEW step \in {"handle", "upsert"},
           step = "upsert" => ask[c].op = "register",
           Goto(c, step), UNCHANGED ask, NoFault \/ Fault, UNCHANGED session
    PROVE  CallsOK'
<1>1. at' = [at EXCEPT ![c] = step] /\ at' \in [Call -> Step]
  BY DEF Goto, CallsOK, Step
<1>2. AsksOK'
  BY <1>1 DEF CallsOK, AsksOK
<1>3. QED
  BY <1>1, <1>2, FaultsCount DEF CallsOK

\* A registration that binds the token to no session.
LEMMA BindsNone ==
    ASSUME CallsOK, NEW c \in Call, c \in DOMAIN ask,
           ask[c].op = "register", Goto(c, "upsert"),
           ask' = [ask EXCEPT ![c].session = P!NoSession],
           NoFault \/ Fault, UNCHANGED session
    PROVE  CallsOK'
<1>1. at' = [at EXCEPT ![c] = "upsert"] /\ at' \in [Call -> Step]
  BY DEF Goto, CallsOK, Step
<1>2. ask[c] \in Ask
  BY DEF CallsOK
<1> DEFINE mine == [ask[c] EXCEPT !.session = P!NoSession]
<1>3. /\ mine \in Ask
      /\ mine.op = ask[c].op
      /\ mine.handset = ask[c].handset
  BY <1>2 DEF Ask
<1> HIDE DEF mine
<1>4. ask' = [ask EXCEPT ![c] = mine]
  BY DEF mine
<1>5. /\ DOMAIN ask' = DOMAIN ask
      /\ ask'[c] = mine
      /\ \A x \in DOMAIN ask : x # c => ask'[x] = ask[x]
  BY <1>4
<1>6. \A x \in DOMAIN ask' : /\ ask'[x] \in Ask
                             /\ ask'[x].op = ask[x].op
                             /\ ask'[x].handset = ask[x].handset
  BY <1>3, <1>5 DEF CallsOK
<1>7. AsksOK'
  BY <1>1, <1>5, <1>6 DEF CallsOK, AsksOK
<1>8. QED
  BY <1>1, <1>5, <1>6, <1>7, FaultsCount DEF CallsOK

-----------------------------------------------------------------------------
(* The notices.                                                            *)

LEMMA PushKept ==
    ASSUME PushOK, UNCHANGED push
    PROVE  PushOK'
BY DEF PushOK, push, P!TypeOK, DisownedWithReason

LEMMA UpsertKeeps ==
    ASSUME PushOK, NEW d \in Handset, NEW u \in User,
           NEW s \in Session \cup {P!NoSession},
           P!UpsertPushToken(d, u, s), UNCHANGED <<todo, disowned, dead, refused>>
    PROVE  PushOK'
<1>1. [user |-> u, session |-> s] \in P!TokenRow
  BY DEF P!TokenRow
<1>2. /\ DOMAIN pushToken' \subseteq Handset
      /\ \A e \in DOMAIN pushToken' : pushToken'[e] \in P!TokenRow
  BY <1>1 DEF PushOK, P!TypeOK, P!UpsertPushToken
<1>3. QED
  BY <1>2 DEF PushOK, P!TypeOK, DisownedWithReason

LEMMA RevokeKeeps ==
    ASSUME PushOK, NEW d, P!RevokePushToken(d), UNCHANGED <<todo, disowned, dead, refused>>
    PROVE  PushOK'
BY DEF PushOK, P!TypeOK, DisownedWithReason, P!RevokePushToken

LEMMA ListKeeps ==
    ASSUME PushOK, NEW c \in Call, NEW u, NEW s,
           P!NotifyNewDeviceLogin(c, u, s) \/ P!FanoutToUser(c, u)
    PROVE  PushOK'
<1>1. /\ P!ListUserPushTokens(u) \subseteq Handset
      /\ P!ListUserPushTokensExceptSession(u, s) \subseteq Handset
  BY DEF PushOK, P!TypeOK, P!ListUserPushTokens,
         P!ListUserPushTokensExceptSession
<1>2. todo' \in [Call -> SUBSET Handset] /\ UNCHANGED <<pushToken, disowned, dead, refused>>
  BY <1>1 DEF PushOK, P!TypeOK, P!NotifyNewDeviceLogin, P!FanoutToUser
<1>3. QED
  BY <1>2 DEF PushOK, P!TypeOK, DisownedWithReason

LEMMA SendKeeps ==
    ASSUME PushOK, NEW c \in Call, NEW d \in Handset,
           \/ P!Send(c, d) \/ P!SendErrs(c, d)
           \/ P!Prune(c, d, FALSE) \/ P!Prune(c, d, TRUE)
    PROVE  PushOK'
<1>1. CASE P!Send(c, d) \/ P!SendErrs(c, d)
  <2>1. todo' \in [Call -> SUBSET Handset]
    BY <1>1 DEF PushOK, P!TypeOK, P!Send, P!SendErrs, P!Sent
  <2>2. UNCHANGED <<pushToken, dead>>
    BY <1>1 DEF P!Send, P!SendErrs
  <2>3. refused' \in {refused, refused \cup {<<c, d>>}}
    BY <1>1 DEF P!Send, P!SendErrs
  <2>4. \/ disowned' = disowned
        \/ /\ disowned' = disowned \cup {<<c, d>>}
           /\ d \in dead \/ <<c, d>> \in refused'
    BY <1>1 DEF P!Send, P!SendErrs
  <2>5. disowned' \subseteq Call \X Handset /\ refused' \subseteq Call \X Handset
    BY <2>3, <2>4 DEF PushOK, P!TypeOK
  <2>6. DisownedWithReason'
    <3> DEFINE mine == <<c, d>>
    <3>1. mine[2] = d
      OBVIOUS
    <3> HIDE DEF mine
    <3>2. QED
      BY <2>2, <2>3, <2>4, <3>1 DEF PushOK, DisownedWithReason, mine
  <2>7. QED
    BY <2>1, <2>2, <2>5, <2>6 DEF PushOK, P!TypeOK
<1>2. CASE P!Prune(c, d, FALSE) \/ P!Prune(c, d, TRUE)
  BY <1>2 DEF PushOK, P!TypeOK, DisownedWithReason, P!Prune, P!RevokePushToken
<1>3. QED
  BY <1>1, <1>2

LEMMA AbandonKeeps ==
    ASSUME PushOK, NEW c \in Call, P!Abandon(c)
    PROVE  PushOK'
BY DEF PushOK, P!TypeOK, DisownedWithReason, P!Abandon

-----------------------------------------------------------------------------
(* The steps.                                                              *)

LEMMA SignInInv ==
    ASSUME ApiInv, NEW c \in Call, NEW u \in User, NEW s \in Session,
           SignIn(c, u, s)
    PROVE  ApiInv'
<1>1. session' \in [Session -> User \cup {Nobody}]
  BY DEF SignIn, ApiInv, CallsOK
<1>2. CallsOK'
  BY <1>1, LetIn DEF SignIn, ApiInv
<1>3. LimiterOK' /\ PushOK'
  BY LimiterKept, PushKept DEF SignIn, ApiInv
<1>4. QED
  BY <1>2, <1>3 DEF ApiInv

LEMMA CallByInv ==
    ASSUME ApiInv, NEW c \in Call, NEW subject \in User \cup {Nobody},
           NEW op \in {"register", "deregister", "notify"},
           NEW u \in User \cup {Nobody}, subject # Nobody => u \in User,
           NEW s \in Session \cup {P!NoSession},
           NEW d \in Handset \cup {Nobody},
           op \in {"register", "deregister"} => d \in Handset,
           CallBy(c, subject, op, u, s, d)
    PROVE  ApiInv'
<1>1. subject \in User /\ u \in User /\ UNCHANGED <<session, push>>
  BY DEF CallBy
<1>2. PushOK'
  BY <1>1, PushKept DEF ApiInv
<1>3. CASE /\ L!Hit(c, subject)
           /\ IF L!Verdict(subject) = "refused"
              THEN UNCHANGED <<at, ask>>
              ELSE /\ Goto(c, IF L!Verdict(subject) = "expire"
                              THEN "expire" ELSE "handle")
                   /\ Asks(c, op, u, s, d)
           /\ NoFault
  <2>1. LimiterOK'
    BY <1>1, <1>3, HitTidy, LimiterKept DEF ApiInv, LimiterOK
  <2>2. CASE L!Verdict(subject) = "refused"
    <3>1. UNCHANGED <<at, ask, session>> /\ faults' = faults
      BY <2>2, <1>1, <1>3 DEF NoFault
    <3>2. CallsOK'
      BY <3>1 DEF ApiInv, CallsOK, AsksOK
    <3>3. QED
      BY <3>2, <2>1, <1>2 DEF ApiInv
  <2>3. CASE L!Verdict(subject) # "refused"
    <3>1. /\ Asks(c, op, u, s, d)
          /\ Goto(c, "expire") \/ Goto(c, "handle")
      BY <2>3, <1>3
    <3>2. CallsOK'
      BY <3>1, <1>1, <1>3, LetIn DEF ApiInv, CallsOK
    <3>3. QED
      BY <3>2, <2>1, <1>2 DEF ApiInv
  <2>4. QED
    BY <2>2, <2>3
<1>4. CASE /\ Fault
           /\ L!HitErrs(subject)
           /\ Goto(c, "handle")
           /\ Asks(c, op, u, s, d)
  <2>1. LimiterOK'
    BY <1>1, <1>4, HitErrsKeeps, LimiterKept DEF ApiInv, LimiterOK
  <2>2. CallsOK'
    BY <1>1, <1>4, LetIn DEF ApiInv, CallsOK
  <2>3. QED
    BY <2>1, <2>2, <1>2 DEF ApiInv
<1>5. QED
  BY <1>3, <1>4 DEF CallBy

LEMMA ExpireInv ==
    ASSUME ApiInv, NEW c \in Call, Expire(c)
    PROVE  ApiInv'
<1>1. CallsOK' /\ PushOK'
  <2>1. c \in DOMAIN ask
    BY DEF Expire, ApiInv, CallsOK, AsksOK
  <2>2. NoFault \/ Fault
    BY DEF Expire
  <2>3. QED
    BY <2>1, <2>2, GoesOn, PushKept DEF Expire, ApiInv
<1>2. LimiterOK'
  <2>1. PICK s \in User : \/ L!Expire(c, s) /\ NoFault
                          \/ L!ExpireErrs(c, s) /\ Fault
    BY DEF Expire
  <2>2. QED
    BY <2>1, ExpireTidy, ExpireErrsKeeps, LimiterKept DEF ApiInv, LimiterOK
<1>3. QED
  BY <1>1, <1>2 DEF ApiInv

LEMMA HandlerInv ==
    ASSUME ApiInv, NEW c \in Call,
           BindSession(c) \/ Register(c) \/ Deregister(c) \/ List(c)
    PROVE  ApiInv'
<1>1. UNCHANGED limiter /\ UNCHANGED session /\ NoFault
  BY DEF BindSession, Register, Deregister, List
<1>2. LimiterOK'
  BY <1>1, LimiterKept DEF ApiInv
<1>3. /\ c \in DOMAIN ask
      /\ ask[c] \in Ask
      /\ ask[c].op \in {"register", "deregister"} => ask[c].handset \in Handset
  BY DEF BindSession, Register, Deregister, List, Handles, ApiInv, CallsOK, AsksOK
<1>4. CASE BindSession(c)
  <2>1. CallsOK'
    BY <1>1, <1>3, <1>4, GoesOn, BindsNone DEF BindSession, Handles, ApiInv
  <2>2. PushOK'
    BY <1>4, PushKept DEF BindSession, ApiInv
  <2>3. QED
    BY <2>1, <2>2, <1>2 DEF ApiInv
<1>5. CASE Register(c)
  <2>1. CallsOK'
    BY <1>1, <1>5, LetOut DEF Register, Return, ApiInv
  <2>2. /\ ask[c].handset \in Handset
        /\ ask[c].user \in User
        /\ ask[c].session \in Session \cup {P!NoSession}
    BY <1>3, <1>5 DEF Register, Ask, ApiInv, CallsOK, AsksOK
  <2>3. PushOK'
    BY <2>2, <1>5, UpsertKeeps DEF Register, ApiInv
  <2>4. QED
    BY <2>1, <2>3, <1>2 DEF ApiInv
<1>6. CASE Deregister(c)
  <2>1. CallsOK'
    BY <1>1, <1>6, LetOut DEF Deregister, Return, ApiInv
  <2>2. PushOK'
    BY <1>6, RevokeKeeps DEF Deregister, ApiInv
  <2>3. QED
    BY <2>1, <2>2, <1>2 DEF ApiInv
<1>7. CASE List(c)
  <2>1. CallsOK'
    BY <1>1, <1>7, LetOut DEF List, ApiInv
  <2>2. PushOK'
    BY <1>7, ListKeeps DEF List, ApiInv
  <2>3. QED
    BY <2>1, <2>2, <1>2 DEF ApiInv
<1>8. QED
  BY <1>4, <1>5, <1>6, <1>7

LEMMA SendInv ==
    ASSUME ApiInv, NEW c \in Call, Send(c)
    PROVE  ApiInv'
<1>1. UNCHANGED <<session, at, ask, limiter>> /\ (NoFault \/ Fault)
  BY DEF Send
<1>2. LimiterOK'
  BY <1>1, LimiterKept DEF ApiInv
<1>3. CallsOK'
  BY <1>1, FaultsCount DEF ApiInv, CallsOK, AsksOK
<1>4. PushOK'
  BY SendKeeps DEF Send, ApiInv
<1>5. QED
  BY <1>2, <1>3, <1>4 DEF ApiInv

LEMMA LeaveInv ==
    ASSUME ApiInv, NEW c \in Call, Finish(c) \/ Errs(c)
    PROVE  ApiInv'
<1>1. UNCHANGED limiter /\ UNCHANGED session /\ (NoFault \/ Fault) /\ Return(c)
  BY DEF Finish, Errs
<1>2. LimiterOK'
  BY <1>1, LimiterKept DEF ApiInv
<1>3. CallsOK'
  BY <1>1, LetOut DEF ApiInv, Return
<1>4. PushOK'
  BY PushKept, AbandonKeeps DEF Finish, Errs, ApiInv
<1>5. QED
  BY <1>2, <1>3, <1>4 DEF ApiInv

LEMMA EnvironmentInv ==
    ASSUME ApiInv,
           \/ \E u \in User : WindowPasses(u)
           \/ \E d \in Handset : Uninstall(d)
           \/ UNCHANGED vars
    PROVE  ApiInv'
<1>1. UNCHANGED <<session, at, ask>> /\ NoFault
  BY DEF WindowPasses, Uninstall, vars, NoFault
<1>2. CallsOK'
  BY <1>1, FaultsCount DEF ApiInv, CallsOK, AsksOK
<1>3. LimiterOK'
  <2>1. CASE UNCHANGED limiter
    BY <2>1, <1>1, LimiterKept DEF ApiInv
  <2>2. CASE \E u \in User : L!Tick(u)
    BY <2>2, <1>1, TickTidy, LimiterKept DEF ApiInv, LimiterOK
  <2>3. QED
    BY <2>1, <2>2 DEF WindowPasses, Uninstall, vars
<1>4. PushOK'
  <2>1. CASE UNCHANGED push
    BY <2>1, PushKept DEF ApiInv
  <2>2. CASE \E d \in Handset : P!Uninstall(d)
    BY <2>2 DEF ApiInv, PushOK, P!TypeOK, DisownedWithReason, P!Uninstall
  <2>3. QED
    BY <2>1, <2>2 DEF WindowPasses, Uninstall, vars
<1>5. QED
  BY <1>2, <1>3, <1>4 DEF ApiInv

-----------------------------------------------------------------------------
LEMMA InitInv == Init => ApiInv
<1> SUFFICES ASSUME Init PROVE ApiInv
  OBVIOUS
<1>1. LimiterOK
  BY ApiAssumption DEF Init, L!Init, LimiterOK, L!TypeOK, L!Top, L!Window,
                       Windows, OrphansAreFaults, L!Orphan
<1>2. PushOK
  BY DEF Init, P!Init, PushOK, P!TypeOK, DisownedWithReason
<1>3. CallsOK
  BY ApiAssumption DEF Init, CallsOK, Step, AsksOK
<1>4. QED
  BY <1>1, <1>2, <1>3 DEF ApiInv

LEMMA NextInv == ApiInv /\ [Next]_vars => ApiInv'
<1> SUFFICES ASSUME ApiInv, [Next]_vars PROVE ApiInv'
  OBVIOUS
<1>1. ASSUME NEW c \in Call, NEW s \in Session, NEW u \in User, SignIn(c, u, s)
      PROVE  ApiInv'
  BY <1>1, SignInInv
<1>2. ASSUME NEW c \in Call, NEW s \in Session, NEW u \in User,
             NotifyingCall(c, s, u)
      PROVE  ApiInv'
  <2>1. session[s] \in User \cup {Nobody}
    BY DEF ApiInv, CallsOK
  <2>2. QED
    BY <1>2, <2>1, CallByInv DEF NotifyingCall
<1>3. ASSUME NEW c \in Call, NEW s \in Session, NEW d \in Handset,
             RegisterCall(c, s, d) \/ DeregisterCall(c, s, d)
      PROVE  ApiInv'
  <2>1. session[s] \in User \cup {Nobody}
    BY DEF ApiInv, CallsOK
  <2>2. CASE RegisterCall(c, s, d)
    BY <2>1, <2>2, CallByInv DEF RegisterCall
  <2>3. CASE DeregisterCall(c, s, d)
    BY <2>1, <2>3, CallByInv DEF DeregisterCall
  <2>4. QED
    BY <1>3, <2>2, <2>3
<1>4. ASSUME NEW c \in Call, CallStep(c)
      PROVE  ApiInv'
  BY <1>4, ExpireInv, HandlerInv, SendInv, LeaveInv DEF CallStep
<1>5. ASSUME NEW c \in Call, Errs(c)
      PROVE  ApiInv'
  BY <1>5, LeaveInv
<1>6. QED
  BY <1>1, <1>2, <1>3, <1>4, <1>5, EnvironmentInv DEF Next

LEMMA ApiInvariant == Spec => []ApiInv
BY InitInv, NextInv, PTL DEF Spec

\* Types: what is asked of a call is known until it has done it.
THEOREM TypeCorrect == Spec => []TypeOK
<1>1. ApiInv => TypeOK
  BY DEF ApiInv, LimiterOK, PushOK, CallsOK, TypeOK
<1>2. QED
  BY <1>1, ApiInvariant, PTL

\* A counter without an end takes a fault, for any number of calls that
\* overlap in the limiter.
THEOREM EveryCounterEnds == Spec => []OrphansAreFaults
<1>1. ApiInv => OrphansAreFaults
  BY DEF ApiInv, LimiterOK
<1>2. QED
  BY <1>1, ApiInvariant, PTL

-----------------------------------------------------------------------------
(* What a step may not do.                                                 *)

\* The end of a window that has one is set by nobody: whoever sends EXPIRE
\* does so for a counter without TTL.
THEOREM WindowsStayFixed == Spec => WindowsAreFixed
<1> DEFINE Fixed == \A s \in User : ttl[s] > 0 => ttl'[s] <= ttl[s]
<1>1. ASSUME ApiInv, Next
      PROVE  Fixed
  <2>1. ttl \in [User -> 0..L!Window] /\ L!Window \in Nat
    BY <1>1 DEF ApiInv, LimiterOK, L!TypeOK, L!Window
  <2>2. CASE UNCHANGED ttl
    BY <2>1, <2>2
  <2>3. ASSUME NEW u \in User, L!Tick(u)
        PROVE  Fixed
    BY <2>1, <2>3 DEF L!Tick
  <2>4. ASSUME NEW c \in Call, NEW u \in User, L!Expire(c, u)
        PROVE  Fixed
    <3> DEFINE mine == <<c, u>>
    <3>1. mine \in first /\ mine[2] = u
      BY <2>4 DEF L!Expire
    <3>2. ttl[u] = 0
      BY <1>1, <3>1 DEF ApiInv, LimiterOK, Windows
    <3>3. QED
      BY <2>1, <2>4, <3>2 DEF L!Expire
  <2>5. \/ UNCHANGED ttl
        \/ \E u \in User : L!Tick(u)
        \/ \E c \in Call, u \in User : L!Expire(c, u)
    <3>1. ASSUME NEW c \in Call, NEW x \in User \cup {Nobody},
                 NEW op, NEW u, NEW s, NEW d, CallBy(c, x, op, u, s, d)
          PROVE  UNCHANGED ttl
      BY <3>1 DEF CallBy, L!Hit, L!HitErrs
    <3>2. ASSUME NEW c \in Call, Expire(c)
          PROVE  UNCHANGED ttl \/ \E u \in User : L!Expire(c, u)
      BY <3>2 DEF Expire, L!ExpireErrs
    <3>3. ASSUME NEW c \in Call, CallStep(c) \/ Errs(c)
          PROVE  Expire(c) \/ UNCHANGED ttl
      BY <3>3 DEF CallStep, BindSession, Register, Deregister, List, Send,
                  Finish, Errs, limiter
    <3>4. ASSUME NEW c \in Call, NEW s \in Session, NEW u \in User,
                 SignIn(c, u, s) \/ NotifyingCall(c, s, u)
          PROVE  UNCHANGED ttl
      BY <1>1, <3>1, <3>4 DEF SignIn, NotifyingCall, ApiInv, CallsOK, limiter
    <3>5. ASSUME NEW c \in Call, NEW s \in Session, NEW d \in Handset,
                 RegisterCall(c, s, d) \/ DeregisterCall(c, s, d)
          PROVE  UNCHANGED ttl
      BY <1>1, <3>1, <3>5 DEF RegisterCall, DeregisterCall, ApiInv, CallsOK
    <3>6. QED
      BY <1>1, <3>2, <3>3, <3>4, <3>5
         DEF Next, WindowPasses, Uninstall, limiter
  <2>6. QED
    BY <2>2, <2>3, <2>4, <2>5
<1>2. ApiInv /\ [Next]_vars => [Fixed]_vars
  BY <1>1
<1>3. QED
  BY <1>2, ApiInvariant, PTL DEF Spec, WindowsAreFixed

\* A handset on which the app is installed keeps its row until somebody asks
\* for its removal or Firebase refuses a notice in the words of
\* isUnregistered, however many notices are on their way to it.
THEOREM RegisteredStay == Spec => RegisteredStays
<1> DEFINE Stays == \A d \in DOMAIN pushToken \ dead :
                       \/ d \in DOMAIN pushToken'
                       \/ \E c \in Call : <<c, d>> \in refused
                       \/ \E c \in Call :
                             Handles(c, "deregister") /\ ask[c].handset = d
<1>1. ASSUME ApiInv, Next
      PROVE  Stays
  <2>1. CASE DOMAIN pushToken \subseteq DOMAIN pushToken'
    BY <2>1
  <2>2. ASSUME NEW c \in Call, NEW d \in Handset, NEW errs,
               P!Prune(c, d, errs)
        PROVE  Stays
    <3> DEFINE mine == <<c, d>>
    <3>1. mine \in disowned /\ mine[2] = d
      BY <2>2 DEF P!Prune
    <3>2. d \in dead \/ mine \in refused
      BY <1>1, <3>1 DEF ApiInv, PushOK, DisownedWithReason
    <3>3. \A e \in DOMAIN pushToken : e = d \/ e \in DOMAIN pushToken'
      BY <2>2 DEF P!Prune, P!RevokePushToken
    <3>4. QED
      BY <3>2, <3>3
  <2>3. ASSUME NEW c \in Call, Deregister(c)
        PROVE  Stays
    BY <2>3 DEF Deregister, P!RevokePushToken
  <2>4. ASSUME NEW c \in Call, Register(c)
        PROVE  Stays
    BY <2>4 DEF Register, P!UpsertPushToken
  <2>5. \/ UNCHANGED pushToken
        \/ \E c \in Call, d \in Handset, errs \in BOOLEAN : P!Prune(c, d, errs)
        \/ \E c \in Call : Register(c) \/ Deregister(c)
    <3>1. ASSUME NEW c \in Call, Send(c)
          PROVE  \/ UNCHANGED pushToken
                 \/ \E d \in Handset, errs \in BOOLEAN : P!Prune(c, d, errs)
      BY <3>1 DEF Send, P!Send, P!SendErrs
    <3>2. ASSUME NEW c \in Call, CallStep(c) \/ Errs(c)
          PROVE  \/ Send(c) \/ Register(c) \/ Deregister(c)
                 \/ UNCHANGED pushToken
      BY <3>2 DEF CallStep, Expire, BindSession, List, Finish, Errs, P!Abandon,
                  P!NotifyNewDeviceLogin, P!FanoutToUser, push
    <3>3. QED
      BY <1>1, <3>1, <3>2 DEF Next, SignIn, NotifyingCall, RegisterCall,
         DeregisterCall, CallBy, WindowPasses, Uninstall, P!Uninstall, push
  <2>6. QED
    BY <2>1, <2>2, <2>3, <2>4, <2>5
<1>2. ApiInv /\ [Next]_vars => [Stays]_vars
  BY <1>1
<1>3. QED
  BY <1>2, ApiInvariant, PTL DEF Spec, RegisteredStays

\* A loop starts with nothing left over from the one before.
OnlyThenSends == \A c \in Call : at[c] # "send" => todo[c] = {}

LEMMA SendsInvariant == Spec => []OnlyThenSends
<1>1. Init => OnlyThenSends
  BY DEF Init, P!Init, OnlyThenSends
<1>2. ASSUME ApiInv, OnlyThenSends, [Next]_vars
      PROVE  OnlyThenSends'
  <2>1. at \in [Call -> Step] /\ todo \in [Call -> SUBSET Handset]
    BY <1>2 DEF ApiInv, CallsOK, PushOK, P!TypeOK
  <2>2. CASE UNCHANGED at /\ UNCHANGED todo
    BY <2>2, <1>2 DEF OnlyThenSends
  <2>3. ASSUME NEW c \in Call, NEW step, Goto(c, step), at[c] # "send",
               UNCHANGED todo
        PROVE  OnlyThenSends'
    BY <2>3, <2>1, <1>2 DEF Goto, OnlyThenSends
  <2>4. ASSUME NEW c \in Call, List(c)
        PROVE  OnlyThenSends'
    BY <2>4, <2>1, <1>2 DEF List, Goto, P!NotifyNewDeviceLogin, P!FanoutToUser,
                            OnlyThenSends
  <2>5. ASSUME NEW c \in Call, Send(c)
        PROVE  OnlyThenSends'
    BY <2>5, <2>1, <1>2 DEF Send, P!Send, P!SendErrs, P!Prune, P!Sent,
                            OnlyThenSends
  <2>6. ASSUME NEW c \in Call, Finish(c) \/ Errs(c)
        PROVE  OnlyThenSends'
    <3>1. todo'[c] = {} /\ \A x \in Call : x # c => todo'[x] = todo[x]
      BY <2>6, <2>1 DEF Finish, Errs, P!Idle, P!Abandon, push
    <3>2. \A x \in Call : x # c => at'[x] = at[x]
      BY <2>6, <2>1 DEF Finish, Errs, Return, Goto
    <3>3. QED
      BY <3>1, <3>2, <1>2 DEF OnlyThenSends
  <2>7. \/ UNCHANGED at /\ UNCHANGED todo
        \/ \E c \in Call, step \in Step :
              Goto(c, step) /\ at[c] # "send" /\ UNCHANGED todo
        \/ \E c \in Call : List(c) \/ Send(c) \/ Finish(c) \/ Errs(c)
    <3>1. ASSUME NEW c \in Call, NEW subject, NEW op, NEW u, NEW s, NEW d,
                 CallBy(c, subject, op, u, s, d)
          PROVE  \/ UNCHANGED at /\ UNCHANGED todo
                 \/ \E step \in Step :
                       Goto(c, step) /\ at[c] # "send" /\ UNCHANGED todo
      BY <3>1 DEF CallBy, Step, push
    <3>2. ASSUME NEW c \in Call, Expire(c) \/ BindSession(c) \/ Register(c)
                                 \/ Deregister(c)
          PROVE  \E step \in Step :
                    Goto(c, step) /\ at[c] # "send" /\ UNCHANGED todo
      BY <3>2 DEF Expire, BindSession, Register, Deregister, Handles, Return,
                  Step, push
    <3>3. ASSUME NEW c \in Call, NEW u, NEW s, SignIn(c, u, s)
          PROVE  \E step \in Step :
                    Goto(c, step) /\ at[c] # "send" /\ UNCHANGED todo
      BY <3>3 DEF SignIn, Step, push
    <3>4. QED
      BY <1>2, <3>1, <3>2, <3>3 DEF Next, vars, NotifyingCall, RegisterCall,
         DeregisterCall, CallStep, WindowPasses, Uninstall, P!Uninstall, push
  <2>8. QED
    BY <2>2, <2>3, <2>4, <2>5, <2>6, <2>7
<1>3. QED
  BY <1>1, <1>2, ApiInvariant, PTL DEF Spec

\* A loop passes over no handset, unless its client has gone.
THEOREM NobodyIsForgotten == Spec => NobodyIsSkipped
<1> DEFINE NoneSkipped == \A c \in Call :
                             \/ Cardinality(todo[c] \ todo'[c]) <= 1
                             \/ faults' > faults
<1>1. ASSUME NEW S, NEW T, \E d : S \ {d} \subseteq T
      PROVE  Cardinality(S \ T) <= 1
  <2>1. PICK d : S \ {d} \subseteq T
    BY <1>1
  <2>2. S \ T = {} \/ S \ T = {d}
    BY <2>1
  <2>3. Cardinality({}) = 0 /\ Cardinality({d}) = 1
    BY FS_EmptySet, FS_Singleton
  <2>4. QED
    BY <2>2, <2>3
<1>2. ASSUME ApiInv, OnlyThenSends, Next
      PROVE  NoneSkipped
  <2>1. todo \in [Call -> SUBSET Handset] /\ faults \in Nat
    BY <1>2, ApiAssumption DEF ApiInv, PushOK, P!TypeOK, CallsOK
  <2>2. CASE UNCHANGED todo
    BY <2>2, <1>1
  <2>3. ASSUME NEW c \in Call, NEW d \in Handset, P!Sent(c, d)
        PROVE  NoneSkipped
    <3>1. \A x \in Call : todo[x] \ {d} \subseteq todo'[x]
      BY <2>3, <2>1 DEF P!Sent
    <3>2. QED
      BY <3>1, <1>1
  <2>4. ASSUME NEW c \in Call, List(c)
        PROVE  NoneSkipped
    <3>1. at[c] = "handle"
      BY <2>4 DEF List, Handles
    <3>2. todo[c] = {}
      BY <1>2, <3>1 DEF OnlyThenSends
    <3>3. QED
      BY <2>4, <3>2, <2>1, <1>1 DEF List, P!NotifyNewDeviceLogin, P!FanoutToUser
  <2>5. CASE faults' = faults + 1
    BY <2>5, <2>1
  <2>6. \/ UNCHANGED todo
        \/ \E c \in Call, d \in Handset : P!Sent(c, d)
        \/ \E c \in Call : List(c)
        \/ faults' = faults + 1
    <3>1. ASSUME NEW c \in Call, Send(c)
          PROVE  UNCHANGED todo \/ \E d \in Handset : P!Sent(c, d)
      BY <3>1 DEF Send, P!Send, P!SendErrs, P!Prune
    <3>2. ASSUME NEW c \in Call, CallStep(c) \/ Errs(c)
          PROVE  \/ Send(c) \/ List(c)
                 \/ UNCHANGED todo
                 \/ faults' = faults + 1
      BY <3>2 DEF CallStep, Expire, BindSession, Register, Deregister, Finish,
                  Errs, Fault, push
    <3>3. QED
      BY <1>2, <3>1, <3>2 DEF Next, SignIn, NotifyingCall, RegisterCall,
         DeregisterCall, CallBy, WindowPasses, Uninstall, P!Uninstall, push
  <2>7. QED
    BY <2>2, <2>3, <2>4, <2>5, <2>6
<1>3. ApiInv /\ OnlyThenSends /\ [Next]_vars => [NoneSkipped]_vars
  BY <1>2
<1>4. QED
  BY <1>3, ApiInvariant, SendsInvariant, PTL DEF Spec, NobodyIsSkipped

=============================================================================
