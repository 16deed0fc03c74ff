---------------------------- MODULE AccessProofs ----------------------------
(***************************************************************************)
(* Whoever is shut out stays out, and of a user's mandates one remains the *)
(* default: for any number of phones, sign-ins, sessions, requests,        *)
(* mandates and faults.                                                    *)
(***************************************************************************)
EXTENDS Access, TLAPS

Signer == Asker \cup SignIn

\* What a code's request refers to is known until it has ended.
CodesOK ==
    /\ otp \in [Phone -> Seq(Code)]
    /\ DOMAIN phone \subseteq Signer
    /\ \A x \in DOMAIN phone : phone[x] \in Phone
    /\ DOMAIN tried \subseteq DOMAIN phone
    /\ \A x \in DOMAIN tried :
          tried[x].row \in 1..Len(otp[phone[x]]) /\ tried[x].typed \in Nat
    /\ \A x \in Signer :
          /\ at[x] = "idle" => x \notin DOMAIN phone
          /\ at[x] \notin {"idle", "done"} => x \in DOMAIN phone
          /\ at[x] \in {"count", "verify"} => x \in DOMAIN tried

SessionsOK ==
    /\ user \in [Phone -> {"none", "active", "locked"}]
    /\ DOMAIN session \subseteq Session
    /\ \A s \in DOMAIN session : session[s] \in SessionRow
    /\ at \in [Thread -> Step]
    /\ faults \in 0..MaxFaults

RequestsOK ==
    /\ DOMAIN request \subseteq Request
    /\ \A r \in DOMAIN request :
          request[r] \in Carried /\ request[r].session \in DOMAIN session
    /\ \A r \in Request :
          at[r] \notin {"idle", "done"} => r \in DOMAIN request

Verifying == {"list", "unsetFirst", "create"}

CallsOK ==
    /\ M!TypeOK
    /\ \A r \in DOMAIN call :
          /\ at[r] = "mandates"
          /\ call[r].step \in Verifying => call[r].about \in AuthCode

\* Why a barred request does nothing: its session stays revoked or its user
\* locked, and only a lock lets it get as far as the second check.
BarredOnes ==
    \A r \in DOMAIN request : request[r].barred =>
        /\ at[r] \in {"session", "user", "done"}
        /\ \/ session[request[r].session].revoked /\ at[r] # "user"
           \/ user[Caller(r)] = "locked"

AccessInv == CodesOK /\ SessionsOK /\ RequestsOK /\ CallsOK /\ BarredOnes

-----------------------------------------------------------------------------
(* Facts about the parts of a step.                                        *)

LEMMA KindsApart ==
    /\ Signer \cap Request = {}
    /\ Signer \subseteq Thread /\ Request \subseteq Thread
BY AccessAssumption DEF Signer, Thread

LEMMA GotoFacts ==
    ASSUME SessionsOK, NEW x \in Thread, NEW step \in Step, Goto(x, step)
    PROVE  /\ at' \in [Thread -> Step]
           /\ \A y \in Thread : at'[y] = IF y = x THEN step ELSE at[y]
BY DEF SessionsOK, Goto

LEMMA FaultFacts ==
    ASSUME SessionsOK, NoFault \/ Fault
    PROVE  faults' \in 0..MaxFaults
BY AccessAssumption DEF SessionsOK, NoFault, Fault

\* Codes are appended and their rows written, and a request goes on.
LEMMA CodesGrow ==
    ASSUME CodesOK, SessionsOK, UNCHANGED <<phone, tried>>,
           otp' \in [Phone -> Seq(Code)],
           \A p \in Phone : Len(otp'[p]) >= Len(otp[p]),
           NEW x \in Thread, NEW step \in Step, Goto(x, step), step # "idle",
           x \in Signer => at[x] \notin {"idle", "done"},
           x \in Signer /\ step \in {"count", "verify"} => x \in DOMAIN tried
    PROVE  CodesOK'
<1>1. \A y \in Thread : at'[y] = IF y = x THEN step ELSE at[y]
  BY GotoFacts
<1>2. \A y \in DOMAIN tried' :
         tried'[y].row \in 1..Len(otp'[phone'[y]]) /\ tried'[y].typed \in Nat
  <2> SUFFICES ASSUME NEW y \in DOMAIN tried
               PROVE  tried[y].row \in 1..Len(otp'[phone[y]])
                      /\ tried[y].typed \in Nat
    OBVIOUS
  <2>1. phone[y] \in Phone
    BY DEF CodesOK
  <2>2. Len(otp'[phone[y]]) \in Nat /\ Len(otp[phone[y]]) \in Nat
        /\ Len(otp'[phone[y]]) >= Len(otp[phone[y]])
    BY <2>1 DEF CodesOK
  <2>3. QED
    BY <2>2 DEF CodesOK
<1>3. \A y \in Signer :
         /\ at'[y] = "idle" => y \notin DOMAIN phone'
         /\ at'[y] \notin {"idle", "done"} => y \in DOMAIN phone'
         /\ at'[y] \in {"count", "verify"} => y \in DOMAIN tried'
  BY <1>1, KindsApart DEF CodesOK
<1>4. QED
  BY <1>2, <1>3 DEF CodesOK

\* Nothing happens to codes.
LEMMA CodesSame ==
    ASSUME CodesOK, SessionsOK, UNCHANGED signing,
           NEW x \in Thread, NEW step \in Step, Goto(x, step), step # "idle",
           x \in Signer => at[x] \notin {"idle", "done"},
           x \in Signer => step \notin {"count", "verify"}
    PROVE  CodesOK'
<1>1. \A p \in Phone : Len(otp[p]) \in Nat
  BY DEF CodesOK
<1>2. \A p \in Phone : Len(otp'[p]) >= Len(otp[p])
  BY <1>1 DEF signing
<1>3. QED
  BY <1>2, CodesGrow DEF signing, CodesOK

\* Sessions are opened and revoked, and users are locked, for good.
Onward ==
    /\ user' \in [Phone -> {"none", "active", "locked"}]
    /\ \A p \in Phone : user[p] = "locked" => user'[p] = "locked"
    /\ DOMAIN session' \subseteq Session
    /\ \A s \in DOMAIN session' : session'[s] \in SessionRow
    /\ \A s \in DOMAIN session :
          /\ s \in DOMAIN session'
          /\ session'[s].phone = session[s].phone
          /\ session[s].revoked => session'[s].revoked

LEMMA OnwardSame ==
    ASSUME SessionsOK, UNCHANGED <<user, session>>
    PROVE  Onward
BY DEF SessionsOK, Onward

\* A request that has come in goes on.
LEMMA RequestsGoOn ==
    ASSUME RequestsOK, SessionsOK, BarredOnes, Onward, UNCHANGED request,
           NEW x \in Thread, NEW step \in Step, Goto(x, step),
           x \in Request => at[x] \notin {"idle", "done"},
           x \in DOMAIN request /\ request[x].barred =>
              \/ step = "done"
              \/ step = "user" /\ user[Caller(x)] = "locked"
    PROVE  RequestsOK' /\ BarredOnes'
<1>1. \A y \in Thread : at'[y] = IF y = x THEN step ELSE at[y]
  BY GotoFacts
<1>2. ASSUME NEW r \in DOMAIN request
      PROVE  /\ request[r].session \in DOMAIN session'
             /\ session[request[r].session].revoked
                   => session'[request[r].session].revoked
             /\ user[Caller(r)] = "locked" => user'[Caller(r)'] = "locked"
             /\ r \in Thread
  <2>1. request[r].session \in DOMAIN session /\ r \in Thread
    BY <1>2, KindsApart DEF RequestsOK
  <2>2. session[request[r].session].phone \in Phone
    BY <2>1 DEF SessionsOK, SessionRow
  <2>3. QED
    BY <2>1, <2>2 DEF Onward, Caller
<1>3. RequestsOK'
  <2>1. \A r \in DOMAIN request' :
           request'[r] \in Carried /\ request'[r].session \in DOMAIN session'
    BY <1>2 DEF RequestsOK
  <2>2. \A r \in Request : at'[r] \notin {"idle", "done"} => r \in DOMAIN request'
    BY <1>1, KindsApart DEF RequestsOK
  <2>3. QED
    BY <2>1, <2>2 DEF RequestsOK
<1>4. BarredOnes'
  <2> SUFFICES ASSUME NEW r \in DOMAIN request, request[r].barred
               PROVE  /\ at'[r] \in {"session", "user", "done"}
                      /\ \/ session'[request[r].session].revoked
                            /\ at'[r] # "user"
                         \/ user'[Caller(r)'] = "locked"
    BY DEF BarredOnes
  <2>1. /\ at[r] \in {"session", "user", "done"}
        /\ \/ session[request[r].session].revoked /\ at[r] # "user"
           \/ user[Caller(r)] = "locked"
    BY DEF BarredOnes
  <2>2. CASE r # x
    BY <1>1, <1>2, <2>1, <2>2
  <2>3. CASE r = x
    BY <1>1, <1>2, <2>1, <2>3
  <2>4. QED
    BY <2>2, <2>3
<1>5. QED
  BY <1>3, <1>4

LEMMA CallsSame ==
    ASSUME CallsOK, SessionsOK, UNCHANGED <<mandate, call>>,
           NEW x \in Thread, NEW step \in Step, Goto(x, step),
           at[x] # "mandates"
    PROVE  CallsOK'
<1>1. \A y \in Thread : at'[y] = IF y = x THEN step ELSE at[y]
  BY GotoFacts
<1>2. DOMAIN call \subseteq Thread
  BY KindsApart DEF CallsOK, M!TypeOK
<1>3. QED
  BY <1>1, <1>2 DEF CallsOK, M!TypeOK

LEMMA SessionsGoOn ==
    ASSUME SessionsOK, Onward, NEW x \in Thread, NEW step \in Step,
           Goto(x, step), NoFault \/ Fault
    PROVE  SessionsOK'
<1>1. at' \in [Thread -> Step] /\ faults' \in 0..MaxFaults
  BY GotoFacts, FaultFacts
<1>2. QED
  BY <1>1 DEF SessionsOK, Onward

-----------------------------------------------------------------------------
(* The rows of one phone's codes.                                          *)

\* A code no longer counts.
LEMMA CodeEnds ==
    ASSUME NEW c \in Code
    PROVE  [c EXCEPT !.live = FALSE] \in Code
BY DEF Code

LEMMA CodeCounted ==
    ASSUME NEW c \in Code
    PROVE  [c EXCEPT !.attempts = @ + 1] \in Code
BY DEF Code

LEMMA CodeVerified ==
    ASSUME NEW c \in Code
    PROVE  [c EXCEPT !.verified = TRUE] \in Code
BY DEF Code

\* One row of one phone is written.
LEMMA RowWritten ==
    ASSUME CodesOK, NEW p \in Phone, NEW i \in 1..Len(otp[p]), NEW c \in Code,
           otp' = [otp EXCEPT ![p][i] = c]
    PROVE  /\ otp' \in [Phone -> Seq(Code)]
           /\ \A q \in Phone : Len(otp'[q]) >= Len(otp[q])
<1>1. otp[p] \in Seq(Code) /\ otp \in [Phone -> Seq(Code)]
  BY DEF CodesOK
<1>2. [otp[p] EXCEPT ![i] = c] \in Seq(Code)
      /\ Len([otp[p] EXCEPT ![i] = c]) = Len(otp[p])
  BY <1>1
<1>3. otp' = [otp EXCEPT ![p] = [otp[p] EXCEPT ![i] = c]]
  BY <1>1
<1>4. \A q \in Phone : Len(otp[q]) \in Nat
  BY <1>1
<1>5. \A q \in Phone : otp'[q] = IF q = p THEN [otp[p] EXCEPT ![i] = c] ELSE otp[q]
  BY <1>1, <1>3
<1>6. otp' \in [Phone -> Seq(Code)]
  BY <1>1, <1>2, <1>3
<1>7. \A q \in Phone : Len(otp'[q]) >= Len(otp[q])
  BY <1>2, <1>4, <1>5
<1>8. QED
  BY <1>6, <1>7

\* All rows of one phone are replaced, by no fewer.
LEMMA RowsReplaced ==
    ASSUME CodesOK, NEW p \in Phone, NEW rows \in Seq(Code),
           Len(rows) >= Len(otp[p]), otp' = [otp EXCEPT ![p] = rows]
    PROVE  /\ otp' \in [Phone -> Seq(Code)]
           /\ \A q \in Phone : Len(otp'[q]) >= Len(otp[q])
<1>1. otp \in [Phone -> Seq(Code)] /\ \A q \in Phone : Len(otp[q]) \in Nat
  BY DEF CodesOK
<1>2. \A q \in Phone : otp'[q] = IF q = p THEN rows ELSE otp[q]
  BY <1>1
<1>3. QED
  BY <1>1, <1>2

-----------------------------------------------------------------------------
(* The steps.                                                              *)

\* What is left when a step only concerns codes.
LEMMA OnlyCodes ==
    ASSUME AccessInv, CodesOK',
           UNCHANGED <<user, session, request, mandate, call>>,
           NEW x \in Signer, NEW step \in Step, Goto(x, step), NoFault \/ Fault,
           at[x] # "mandates"
    PROVE  AccessInv'
<1>1. Onward
  BY OnwardSame DEF AccessInv
<1>2. x \notin Request /\ x \in Thread
  BY KindsApart
<1>3. RequestsOK' /\ BarredOnes'
  BY <1>1, <1>2, RequestsGoOn DEF AccessInv, RequestsOK
<1>4. CallsOK' /\ SessionsOK'
  BY <1>1, <1>2, CallsSame, SessionsGoOn DEF AccessInv
<1>5. QED
  BY <1>3, <1>4 DEF AccessInv

LEMMA RequestOTPStep ==
    ASSUME AccessInv, NEW a \in Asker, NEW p \in Phone, RequestOTP(a, p)
    PROVE  AccessInv'
<1>1. a \in Signer /\ a \in Thread /\ "expire" \in Step
  BY KindsApart DEF Signer, Step
<1>2. \A y \in Thread : at'[y] = IF y = a THEN "expire" ELSE at[y]
  BY <1>1, GotoFacts DEF AccessInv, RequestOTP
<1>3. a \notin DOMAIN phone /\ a \notin DOMAIN tried
  BY <1>1 DEF AccessInv, CodesOK, RequestOTP
<1>4. /\ DOMAIN phone' = DOMAIN phone \cup {a}
      /\ \A y \in DOMAIN phone' : phone'[y] = IF y = a THEN p ELSE phone[y]
      /\ UNCHANGED <<otp, tried>>
  BY DEF RequestOTP, With
<1>5. \A y \in DOMAIN tried' :
         tried'[y].row \in 1..Len(otp'[phone'[y]]) /\ tried'[y].typed \in Nat
  BY <1>3, <1>4 DEF AccessInv, CodesOK
<1>6. \A y \in Signer :
         /\ at'[y] = "idle" => y \notin DOMAIN phone'
         /\ at'[y] \notin {"idle", "done"} => y \in DOMAIN phone'
         /\ at'[y] \in {"count", "verify"} => y \in DOMAIN tried'
  BY <1>2, <1>4, KindsApart DEF AccessInv, CodesOK
<1>7. CodesOK'
  BY <1>1, <1>4, <1>5, <1>6 DEF AccessInv, CodesOK
<1>8. QED
  BY <1>1, <1>7, OnlyCodes DEF RequestOTP

\* The code a sign-in is compared with is one of its phone's.
LEMMA VerifyOTPStep ==
    ASSUME AccessInv, NEW x \in SignIn, NEW p \in Phone,
           NEW typed \in 0..Len(otp[p]), VerifyOTP(x, p, typed)
    PROVE  AccessInv'
<1>1. x \in Signer /\ x \in Thread /\ "count" \in Step /\ "done" \in Step
  BY KindsApart DEF Signer, Step
<1>2. PICK step \in {"count", "done"} :
         /\ Goto(x, step)
         /\ \/ step = "done" /\ UNCHANGED tried
            \/ \E i \in Unverified(p) :
                  tried' = With(tried, x, [typed |-> typed, row |-> i])
  BY DEF VerifyOTP
<1>3. \A y \in Thread : at'[y] = IF y = x THEN step ELSE at[y]
  BY <1>1, <1>2, GotoFacts DEF AccessInv
<1>4. x \notin DOMAIN phone /\ x \notin DOMAIN tried
  BY <1>1 DEF AccessInv, CodesOK, VerifyOTP
<1>5. /\ DOMAIN phone' = DOMAIN phone \cup {x}
      /\ \A y \in DOMAIN phone' : phone'[y] = IF y = x THEN p ELSE phone[y]
      /\ UNCHANGED otp
  BY DEF VerifyOTP, With
<1>6. otp[p] \in Seq(Code) /\ Len(otp[p]) \in Nat /\ typed \in Nat
  BY DEF AccessInv, CodesOK
<1>7. /\ DOMAIN tried' \subseteq DOMAIN tried \cup {x}
      /\ DOMAIN tried \subseteq DOMAIN tried'
      /\ step = "count" => x \in DOMAIN tried'
      /\ \A y \in DOMAIN tried : tried'[y] = tried[y]
      /\ x \in DOMAIN tried' =>
            tried'[x].row \in 1..Len(otp[p]) /\ tried'[x].typed \in Nat
  <2>1. CASE UNCHANGED tried /\ step = "done"
    BY <2>1, <1>4
  <2>2. CASE \E i \in Unverified(p) :
                  tried' = With(tried, x, [typed |-> typed, row |-> i])
    <3>1. PICK i \in Unverified(p) :
                  tried' = With(tried, x, [typed |-> typed, row |-> i])
      BY <2>2
    <3>2. i \in 1..Len(otp[p])
      BY <1>6 DEF Unverified
    <3>3. QED
      BY <1>4, <1>6, <3>1, <3>2 DEF With
  <2>3. QED
    BY <1>2, <2>1, <2>2
<1>8. \A y \in DOMAIN tried' :
         tried'[y].row \in 1..Len(otp'[phone'[y]]) /\ tried'[y].typed \in Nat
  BY <1>4, <1>5, <1>7 DEF AccessInv, CodesOK
<1>9. DOMAIN tried' \subseteq DOMAIN phone'
  BY <1>5, <1>7 DEF AccessInv, CodesOK
<1>10. \A y \in Signer :
         /\ at'[y] = "idle" => y \notin DOMAIN phone'
         /\ at'[y] \notin {"idle", "done"} => y \in DOMAIN phone'
         /\ at'[y] \in {"count", "verify"} => y \in DOMAIN tried'
  BY <1>3, <1>5, <1>7, KindsApart DEF AccessInv, CodesOK
<1>11. CodesOK'
  BY <1>1, <1>5, <1>8, <1>9, <1>10 DEF AccessInv, CodesOK
<1>12. QED
  BY <1>1, <1>2, <1>11, OnlyCodes DEF VerifyOTP

LEMMA ExpirePreviousOTPsStep ==
    ASSUME AccessInv, NEW a \in Asker, ExpirePreviousOTPs(a)
    PROVE  AccessInv'
<1> DEFINE p == phone[a]
           rows == [i \in DOMAIN otp[p] |->
                      IF otp[p][i].verified THEN otp[p][i]
                      ELSE [otp[p][i] EXCEPT !.live = FALSE]]
<1>1. a \in Signer /\ a \in Thread /\ "create" \in Step
  BY KindsApart DEF Signer, Step
<1>2. p \in Phone /\ otp[p] \in Seq(Code) /\ Len(otp[p]) \in Nat
      /\ DOMAIN otp[p] = 1..Len(otp[p])
  BY <1>1 DEF AccessInv, CodesOK, ExpirePreviousOTPs
<1>3. \A i \in 1..Len(otp[p]) : rows[i] \in Code
  <2> TAKE i \in 1..Len(otp[p])
  <2>1. otp[p][i] \in Code
    BY <1>2
  <2>2. QED
    BY <1>2, <2>1, CodeEnds
<1>4. rows \in Seq(Code) /\ Len(rows) >= Len(otp[p])
  <2>1. rows \in [1..Len(otp[p]) -> Code]
    BY <1>2, <1>3
  <2> HIDE DEF rows
  <2>2. QED
    BY <1>2, <2>1
<1>5. otp' = [otp EXCEPT ![p] = rows] /\ UNCHANGED <<phone, tried>>
      /\ Goto(a, "create")
  BY DEF ExpirePreviousOTPs
<1> HIDE DEF p, rows
<1>6. /\ otp' \in [Phone -> Seq(Code)]
      /\ \A q \in Phone : Len(otp'[q]) >= Len(otp[q])
  BY <1>2, <1>4, <1>5, RowsReplaced DEF AccessInv
<1>7. CodesOK'
  BY <1>1, <1>5, <1>6, CodesGrow DEF AccessInv, ExpirePreviousOTPs
<1>8. QED
  BY <1>1, <1>7, OnlyCodes DEF ExpirePreviousOTPs

LEMMA CreateOTPRequestStep ==
    ASSUME AccessInv, NEW a \in Asker, CreateOTPRequest(a)
    PROVE  AccessInv'
<1> DEFINE p == phone[a]
           new == [live |-> TRUE, verified |-> FALSE, attempts |-> 0]
           rows == Append(otp[p], new)
<1>1. a \in Signer /\ a \in Thread /\ "done" \in Step
  BY KindsApart DEF Signer, Step
<1>2. p \in Phone /\ otp[p] \in Seq(Code) /\ Len(otp[p]) \in Nat
  BY <1>1 DEF AccessInv, CodesOK, CreateOTPRequest
<1>3. new \in Code
  BY DEF Code
<1>4. otp' = [otp EXCEPT ![p] = rows] /\ UNCHANGED <<phone, tried>>
      /\ Goto(a, "done")
  BY DEF CreateOTPRequest
<1> HIDE DEF p, new
<1>5. rows \in Seq(Code) /\ Len(rows) >= Len(otp[p])
  BY <1>2, <1>3
<1> HIDE DEF rows
<1>6. /\ otp' \in [Phone -> Seq(Code)]
      /\ \A q \in Phone : Len(otp'[q]) >= Len(otp[q])
  BY <1>2, <1>4, <1>5, RowsReplaced DEF AccessInv
<1>7. CodesOK'
  BY <1>1, <1>4, <1>6, CodesGrow DEF AccessInv, CreateOTPRequest
<1>8. QED
  BY <1>1, <1>7, OnlyCodes DEF CreateOTPRequest

\* A sign-in writes to the row it found.
LEMMA CountStep ==
    ASSUME AccessInv, NEW x \in SignIn, Count(x)
    PROVE  AccessInv'
<1> DEFINE p == phone[x]
           i == tried[x].row
           c == [otp[p][i] EXCEPT !.attempts = @ + 1]
<1>1. x \in Signer /\ x \in Thread /\ {"verify", "done"} \subseteq Step
  BY KindsApart DEF Signer, Step
<1>2. x \in DOMAIN tried /\ p \in Phone /\ otp[p] \in Seq(Code)
      /\ i \in 1..Len(otp[p]) /\ otp \in [Phone -> Seq(Code)]
  BY <1>1 DEF AccessInv, CodesOK, Count
<1>3. otp[p][i] \in Code
  BY <1>2
<1>4. c \in Code
  BY <1>3, CodeCounted
<1>5. PICK step \in {"verify", "done"} : Goto(x, step)
  BY DEF Count
<1>6. otp' = [otp EXCEPT ![p][i] = c]
  BY <1>2 DEF Count
<1> HIDE DEF p, i, c
<1>7. /\ otp' \in [Phone -> Seq(Code)]
      /\ \A q \in Phone : Len(otp'[q]) >= Len(otp[q])
  BY <1>2, <1>4, <1>6, RowWritten DEF AccessInv
<1>8. CodesOK'
  BY <1>1, <1>2, <1>5, <1>7, CodesGrow DEF AccessInv, Count
<1>9. QED
  BY <1>1, <1>5, <1>8, OnlyCodes DEF Count

LEMMA MarkOTPVerifiedStep ==
    ASSUME AccessInv, NEW x \in SignIn, MarkOTPVerified(x)
    PROVE  AccessInv'
<1> DEFINE p == phone[x]
           i == tried[x].row
           c == [otp[p][i] EXCEPT !.verified = TRUE]
<1>1. x \in Signer /\ x \in Thread /\ "loadUser" \in Step
  BY KindsApart DEF Signer, Step
<1>2. x \in DOMAIN tried /\ p \in Phone /\ otp[p] \in Seq(Code)
      /\ i \in 1..Len(otp[p]) /\ otp \in [Phone -> Seq(Code)]
  BY <1>1 DEF AccessInv, CodesOK, MarkOTPVerified
<1>3. otp[p][i] \in Code
  BY <1>2
<1>4. c \in Code
  BY <1>3, CodeVerified
<1>5. otp' = [otp EXCEPT ![p][i] = c] /\ Goto(x, "loadUser")
  BY <1>2 DEF MarkOTPVerified
<1> HIDE DEF p, i, c
<1>6. /\ otp' \in [Phone -> Seq(Code)]
      /\ \A q \in Phone : Len(otp'[q]) >= Len(otp[q])
  BY <1>2, <1>4, <1>5, RowWritten DEF AccessInv
<1>7. CodesOK'
  BY <1>1, <1>2, <1>5, <1>6, CodesGrow DEF AccessInv, MarkOTPVerified
<1>8. QED
  BY <1>1, <1>5, <1>7, OnlyCodes DEF MarkOTPVerified

LEMMA CodeLapsesStep ==
    ASSUME AccessInv, NEW p \in Phone, CodeLapses(p)
    PROVE  AccessInv'
<1>1. PICK i \in DOMAIN otp[p] : otp' = [otp EXCEPT ![p][i].live = FALSE]
  BY DEF CodeLapses
<1> DEFINE c == [otp[p][i] EXCEPT !.live = FALSE]
<1>2. otp[p] \in Seq(Code) /\ i \in 1..Len(otp[p])
      /\ otp \in [Phone -> Seq(Code)]
  BY DEF AccessInv, CodesOK
<1>3. otp[p][i] \in Code
  BY <1>2
<1>4. c \in Code
  BY <1>3, CodeEnds
<1>5. otp' = [otp EXCEPT ![p][i] = c]
  BY <1>1, <1>2
<1> HIDE DEF c
<1>6. /\ otp' \in [Phone -> Seq(Code)]
      /\ \A q \in Phone : Len(otp'[q]) >= Len(otp[q])
  BY <1>2, <1>4, <1>5, RowWritten DEF AccessInv
<1>7. /\ UNCHANGED <<at, phone, tried, user, session, request, mandate, call>>
      /\ faults' = faults
  BY DEF CodeLapses, NoFault
<1>8. \A y \in DOMAIN tried :
         tried[y].row \in 1..Len(otp'[phone[y]]) /\ tried[y].typed \in Nat
  <2> TAKE y \in DOMAIN tried
  <2>1. phone[y] \in Phone
    BY DEF AccessInv, CodesOK
  <2>2. Len(otp'[phone[y]]) \in Nat /\ Len(otp[phone[y]]) \in Nat
        /\ Len(otp'[phone[y]]) >= Len(otp[phone[y]])
    BY <1>2, <1>6, <2>1
  <2>3. QED
    BY <2>2 DEF AccessInv, CodesOK
<1>9. CodesOK'
  BY <1>6, <1>7, <1>8 DEF AccessInv, CodesOK
<1>10. SessionsOK' /\ RequestsOK' /\ CallsOK' /\ BarredOnes'
  BY <1>7 DEF AccessInv, SessionsOK, RequestsOK, CallsOK, BarredOnes, Caller,
              M!TypeOK
<1>11. QED
  BY <1>9, <1>10 DEF AccessInv

\* A request of any kind goes on, and neither codes nor mandates change.
LEMMA GoesOn ==
    ASSUME AccessInv, Onward, UNCHANGED <<signing, request, mandate, call>>,
           NEW x \in Thread, NEW step \in Step, Goto(x, step), NoFault \/ Fault,
           step \notin {"idle", "count", "verify"},
           at[x] \notin {"idle", "done", "mandates"},
           x \in DOMAIN request /\ request[x].barred =>
              \/ step = "done"
              \/ step = "user" /\ user[Caller(x)] = "locked"
    PROVE  AccessInv'
<1>1. CodesOK' /\ SessionsOK'
  BY CodesSame, SessionsGoOn DEF AccessInv
<1>2. RequestsOK' /\ BarredOnes'
  BY RequestsGoOn DEF AccessInv
<1>3. CallsOK'
  BY CallsSame DEF AccessInv
<1>4. QED
  BY <1>1, <1>2, <1>3 DEF AccessInv

LEMMA ErrsStep ==
    ASSUME AccessInv, NEW x \in Thread, Errs(x)
    PROVE  AccessInv'
<1>1. Onward
  BY OnwardSame DEF AccessInv, Errs
<1>2. QED
  BY <1>1, GoesOn DEF Errs, Step

LEMMA SignInUserSteps ==
    ASSUME AccessInv, NEW x \in SignIn, GetUserByPhone(x) \/ CreateUser(x)
    PROVE  AccessInv'
<1>1. x \in Signer /\ x \in Thread /\ x \notin DOMAIN request
      /\ phone[x] \in Phone
      /\ {"createUser", "createSession", "done"} \subseteq Step
  BY KindsApart DEF AccessInv, CodesOK, RequestsOK, Signer, Step,
                    GetUserByPhone, CreateUser
<1>2. CASE GetUserByPhone(x)
  <2>1. Onward
    BY <1>2, OnwardSame DEF AccessInv, GetUserByPhone
  <2>2. PICK step \in {"createUser", "createSession"} : Goto(x, step)
    BY <1>2 DEF GetUserByPhone
  <2>3. QED
    BY <1>1, <1>2, <2>1, <2>2, GoesOn DEF GetUserByPhone
<1>3. CASE CreateUser(x)
  <2>1. Onward
    BY <1>1, <1>3 DEF AccessInv, SessionsOK, Onward, CreateUser
  <2>2. PICK step \in {"createSession", "done"} : Goto(x, step)
    BY <1>3 DEF CreateUser
  <2>3. QED
    BY <1>1, <1>3, <2>1, <2>2, GoesOn DEF CreateUser
<1>4. QED
  BY <1>2, <1>3

LEMMA CreateDeviceSessionStep ==
    ASSUME AccessInv, NEW x \in SignIn, NEW s \in Session,
           CreateDeviceSession(x, s)
    PROVE  AccessInv'
<1>1. x \in Signer /\ x \in Thread /\ x \notin DOMAIN request
      /\ phone[x] \in Phone /\ "done" \in Step
  BY KindsApart DEF AccessInv, CodesOK, RequestsOK, Signer, Step,
                    CreateDeviceSession
<1> DEFINE row == [phone |-> phone[x], revoked |-> FALSE]
<1>2. row \in SessionRow
  BY <1>1 DEF SessionRow
<1>3. session' = With(session, s, row) /\ s \notin DOMAIN session
      /\ UNCHANGED user
  BY DEF CreateDeviceSession
<1> HIDE DEF row
<1>4. Onward
  BY <1>2, <1>3 DEF With, Onward, AccessInv, SessionsOK
<1>5. QED
  BY <1>1, <1>4, GoesOn DEF CreateDeviceSession

-----------------------------------------------------------------------------
(* The authenticated requests.                                             *)

\* Whether the request is barred is what it finds at that moment.
LEMMA ArriveStep ==
    ASSUME AccessInv, NEW r \in Request, NEW s \in Session, Arrive(r, s)
    PROVE  AccessInv'
<1> DEFINE locked == user[session[s].phone] = "locked"
           new == [session |-> s, barred |-> session[s].revoked \/ locked]
<1>1. r \in Thread /\ r \notin Signer /\ "session" \in Step
  BY KindsApart DEF Step
<1>2. /\ s \in DOMAIN session
      /\ UNCHANGED <<signing, user, session, mandate, call>>
      /\ Goto(r, "session") /\ at[r] = "idle" /\ NoFault
      /\ request' = With(request, r, new)
  BY DEF Arrive
<1>3. new \in Carried /\ new.session = s
      /\ (new.barred => session[s].revoked \/ user[session[s].phone] = "locked")
  BY <1>2 DEF Carried, AccessInv, SessionsOK, SessionRow
<1> HIDE DEF new, locked
<1>4. \A y \in Thread : at'[y] = IF y = r THEN "session" ELSE at[y]
  BY <1>1, <1>2, GotoFacts DEF AccessInv
<1>5. Onward
  BY <1>2, OnwardSame DEF AccessInv
<1>6. CodesOK' /\ SessionsOK' /\ CallsOK'
  BY <1>1, <1>2, <1>5, CodesSame, SessionsGoOn, CallsSame DEF AccessInv
<1>7. /\ DOMAIN request' = DOMAIN request \cup {r}
      /\ \A q \in DOMAIN request' :
            request'[q] = IF q = r THEN new ELSE request[q]
  BY <1>2 DEF With
<1>8. RequestsOK'
  BY <1>2, <1>3, <1>4, <1>7, KindsApart DEF AccessInv, RequestsOK
<1>9. BarredOnes'
  <2> SUFFICES ASSUME NEW q \in DOMAIN request', request'[q].barred
               PROVE  /\ at'[q] \in {"session", "user", "done"}
                      /\ \/ session'[request'[q].session].revoked
                            /\ at'[q] # "user"
                         \/ user'[Caller(q)'] = "locked"
    BY DEF BarredOnes
  <2>1. CASE q = r
    BY <2>1, <1>1, <1>2, <1>3, <1>4, <1>7 DEF Caller
  <2>2. CASE q # r
    BY <2>2, <1>2, <1>4, <1>7, KindsApart
    DEF AccessInv, BarredOnes, RequestsOK, Caller
  <2>3. QED
    BY <2>1, <2>2
<1>10. QED
  BY <1>6, <1>8, <1>9 DEF AccessInv

\* A request that a check has let through is not barred.
LEMMA HandledAreAdmitted ==
    ASSUME AccessInv, NEW r \in Request,
           at[r] \notin {"idle", "session", "user", "done"}
    PROVE  /\ r \in DOMAIN request /\ ~request[r].barred
           /\ request[r].session \in DOMAIN session
           /\ Caller(r) \in Phone
BY DEF AccessInv, RequestsOK, BarredOnes, SessionsOK, SessionRow, Caller

LEMMA ChecksStep ==
    ASSUME AccessInv, NEW r \in Request, CheckSession(r) \/ CheckUser(r)
    PROVE  AccessInv'
<1>1. r \in Thread /\ {"user", "done", "handle"} \subseteq Step
  BY KindsApart DEF Step
<1>2. Onward /\ r \in DOMAIN request
  BY OnwardSame DEF AccessInv, RequestsOK, CheckSession, CheckUser
<1>3. request[r].barred =>
         \/ session[request[r].session].revoked /\ at[r] # "user"
         \/ user[Caller(r)] = "locked"
  BY <1>2 DEF AccessInv, BarredOnes
<1>4. CASE CheckSession(r)
  <2>1. PICK step \in {"user", "done"} :
           Goto(r, step) /\ (step = "user" => ActiveSession(r))
    BY <1>4 DEF CheckSession
  <2>2. request[r].barred => \/ step = "done"
                             \/ step = "user" /\ user[Caller(r)] = "locked"
    BY <1>3, <2>1 DEF ActiveSession
  <2>3. QED
    BY <1>1, <1>2, <1>4, <2>1, <2>2, GoesOn DEF CheckSession
<1>5. CASE CheckUser(r)
  <2>1. PICK step \in {"handle", "done"} :
           Goto(r, step) /\ (step = "handle" => user[Caller(r)] # "locked")
    BY <1>5 DEF CheckUser
  <2>2. request[r].barred => step = "done"
    BY <1>3, <1>5, <2>1 DEF CheckUser
  <2>3. QED
    BY <1>1, <1>2, <1>5, <2>1, <2>2, GoesOn DEF CheckUser
<1>6. QED
  BY <1>4, <1>5

LEMMA RevokedRow ==
    ASSUME NEW row \in SessionRow, NEW new, new = [row EXCEPT !.revoked = TRUE]
    PROVE  new \in SessionRow /\ new.phone = row.phone /\ new.revoked
BY DEF SessionRow

LEMMA RevokingIsOnward ==
    ASSUME SessionsOK, NEW s \in DOMAIN session, NEW p, UNCHANGED user,
           RevokeDeviceSession(s, p) \/ RevokeAllOtherDeviceSessions(s, p)
    PROVE  Onward
<1>1. /\ DOMAIN session' = DOMAIN session
      /\ \A t \in DOMAIN session :
            \/ session'[t] = session[t]
            \/ session'[t] = [session[t] EXCEPT !.revoked = TRUE]
  BY DEF RevokeDeviceSession, RevokeAllOtherDeviceSessions
<1>2. \A t \in DOMAIN session :
         /\ session'[t] \in SessionRow
         /\ session'[t].phone = session[t].phone
         /\ session[t].revoked => session'[t].revoked
  <2> TAKE t \in DOMAIN session
  <2>1. session[t] \in SessionRow
    BY DEF SessionsOK
  <2>2. CASE session'[t] = session[t]
    BY <2>1, <2>2
  <2>3. CASE session'[t] = [session[t] EXCEPT !.revoked = TRUE]
    BY <2>1, <2>3, RevokedRow
  <2>4. QED
    BY <1>1, <2>2, <2>3
<1>3. QED
  BY <1>1, <1>2 DEF SessionsOK, Onward

LEMMA RevokeSteps ==
    ASSUME AccessInv, NEW r \in Request,
           \/ \E s \in Session : Revoke(r, s)
           \/ RevokeOthers(r)
           \/ LockOwn(r)
    PROVE  AccessInv'
<1>1. r \in Thread /\ {"done", "lockOwn"} \subseteq Step
      /\ at[r] \notin {"idle", "session", "user", "done", "mandates"}
      /\ UNCHANGED <<signing, user, request, mandate, call>> /\ NoFault
  BY KindsApart DEF Step, Revoke, RevokeOthers, LockOwn
<1>2. r \in DOMAIN request /\ ~request[r].barred
      /\ request[r].session \in DOMAIN session
  BY <1>1, HandledAreAdmitted
<1>3. PICK step \in {"done", "lockOwn"} : Goto(r, step)
  BY DEF Revoke, RevokeOthers, LockOwn
<1>4. PICK s \in DOMAIN session :
         \/ RevokeDeviceSession(s, Caller(r))
         \/ RevokeAllOtherDeviceSessions(s, Caller(r))
  BY <1>2 DEF Revoke, RevokeOthers, LockOwn
<1>5. Onward
  BY <1>1, <1>4, RevokingIsOnward DEF AccessInv
<1>6. QED
  BY <1>1, <1>2, <1>3, <1>5, GoesOn

LEMMA LockSteps ==
    ASSUME AccessInv, NEW r \in Request,
           Lock(r) \/ LockLookup(r) \/ LockOthersErrs(r) \/ RevokeAllOthers(r)
    PROVE  AccessInv'
<1>1. /\ r \in Thread
      /\ {"others", "lockLookup", "lockOthers", "lockOwn", "done"} \subseteq Step
      /\ at[r] \notin {"idle", "session", "user", "done", "mandates"}
      /\ UNCHANGED <<signing, session, request, mandate, call>>
      /\ NoFault \/ Fault
  BY KindsApart DEF Step, Lock, LockLookup, LockOthersErrs, RevokeAllOthers
<1>2. r \in DOMAIN request /\ ~request[r].barred /\ Caller(r) \in Phone
  BY <1>1, HandledAreAdmitted
<1>3. PICK step \in {"others", "lockLookup", "lockOthers", "lockOwn", "done"} :
         Goto(r, step)
  BY DEF Lock, LockLookup, LockOthersErrs, RevokeAllOthers
<1>4. user' = user \/ user' = [user EXCEPT ![Caller(r)] = "locked"]
  BY DEF Lock, LockLookup, LockOthersErrs, RevokeAllOthers
<1>5. Onward
  BY <1>1, <1>2, <1>4 DEF Onward, AccessInv, SessionsOK
<1>6. QED
  BY <1>1, <1>2, <1>3, <1>5, GoesOn

-----------------------------------------------------------------------------
(* The mandates handlers.                                                  *)

\* A call that has been let in.
LEMMA HandleMandatesStep ==
    ASSUME AccessInv, NEW r \in Request, HandleMandates(r)
    PROVE  AccessInv'
<1>1. /\ at[r] = "handle" /\ Goto(r, "mandates") /\ NoFault
      /\ UNCHANGED <<signing, user, session, request>>
      /\ r \in Thread /\ r \notin Signer /\ "mandates" \in Step
  BY KindsApart DEF HandleMandates, Step
<1>2. r \in DOMAIN request /\ ~request[r].barred /\ Caller(r) \in Phone
  BY <1>1, HandledAreAdmitted
<1>3. PICK about \in Mandate \cup AuthCode,
           step \in {"list", "unset", "revoke"} :
              M!Begins(r, Caller(r), about, step)
              /\ (step = "list" => about \in AuthCode)
  BY DEF HandleMandates, M!VerifyMandate, M!SetDefault, M!Revoke, AccessInv,
         CallsOK, M!TypeOK
<1> DEFINE new == [user |-> Caller(r), about |-> about, step |-> step,
                   isFirst |-> FALSE]
<1>4. /\ new \in M!Call
      /\ new.step \in Verifying => new.about \in AuthCode
  BY <1>2, <1>3 DEF M!Call, M!CallStep, Verifying
<1>5. UNCHANGED mandate /\ call' = M!With(call, r, new)
  BY <1>3 DEF M!Begins
<1> HIDE DEF new
<1>6. /\ DOMAIN call' = DOMAIN call \cup {r}
      /\ \A q \in DOMAIN call' : call'[q] = IF q = r THEN new ELSE call[q]
  BY <1>5 DEF M!With
<1>7. \A y \in Thread : at'[y] = IF y = r THEN "mandates" ELSE at[y]
  BY <1>1, GotoFacts DEF AccessInv
<1>8. M!TypeOK'
  BY <1>4, <1>5, <1>6 DEF AccessInv, CallsOK, M!TypeOK
<1>9. \A q \in DOMAIN call' :
         /\ at'[q] = "mandates"
         /\ call'[q].step \in Verifying => call'[q].about \in AuthCode
  BY <1>4, <1>6, <1>7, KindsApart DEF AccessInv, CallsOK, M!TypeOK
<1>10. CallsOK'
  BY <1>8, <1>9 DEF CallsOK
<1>11. Onward
  BY <1>1, OnwardSame DEF AccessInv
<1>12. CodesOK' /\ SessionsOK' /\ RequestsOK' /\ BarredOnes'
  BY <1>1, <1>2, <1>11, CodesSame, SessionsGoOn, RequestsGoOn DEF AccessInv
<1>13. QED
  BY <1>10, <1>12 DEF AccessInv

\* What a statement of a call does to the call: it goes on about the same.
CallGoesOn(r) ==
    /\ r \in DOMAIN call
    /\ \E c \in M!Call :
          /\ call' = [call EXCEPT ![r] = c]
          /\ c.about = call[r].about
          /\ c.step \in Verifying => call[r].step \in Verifying

RowsStay ==
    /\ DOMAIN mandate' \subseteq Mandate
    /\ \A m \in DOMAIN mandate' : mandate'[m] \in M!MandateRow

LEMMA DefaultUnset ==
    ASSUME NEW row \in M!MandateRow
    PROVE  [row EXCEPT !.isDefault = FALSE] \in M!MandateRow
BY DEF M!MandateRow

LEMMA DefaultSet ==
    ASSUME NEW row \in M!MandateRow
    PROVE  [row EXCEPT !.isDefault = TRUE] \in M!MandateRow
BY DEF M!MandateRow

LEMMA RowRevoked ==
    ASSUME NEW row \in M!MandateRow
    PROVE  [row EXCEPT !.active = FALSE, !.isDefault = FALSE] \in M!MandateRow
BY DEF M!MandateRow

LEMMA RowsSame ==
    ASSUME M!TypeOK, UNCHANGED mandate
    PROVE  RowsStay
BY DEF M!TypeOK, RowsStay

LEMMA UnsetKeepsRows ==
    ASSUME M!TypeOK, NEW u, M!UnsetDefaultMandate(u)
    PROVE  RowsStay
<1>1. DOMAIN mandate' = DOMAIN mandate
      /\ \A m \in DOMAIN mandate :
            \/ mandate'[m] = mandate[m]
            \/ mandate'[m] = [mandate[m] EXCEPT !.isDefault = FALSE]
  BY DEF M!UnsetDefaultMandate
<1>2. \A m \in DOMAIN mandate : mandate[m] \in M!MandateRow
  BY DEF M!TypeOK
<1>3. ASSUME NEW m \in DOMAIN mandate PROVE mandate'[m] \in M!MandateRow
  <2>1. CASE mandate'[m] = mandate[m]
    BY <1>2, <2>1
  <2>2. CASE mandate'[m] = [mandate[m] EXCEPT !.isDefault = FALSE]
    BY <1>2, <2>2, DefaultUnset
  <2>3. QED
    BY <1>1, <2>1, <2>2
<1>4. QED
  BY <1>1, <1>3 DEF M!TypeOK, RowsStay

LEMMA CreateKeepsRows ==
    ASSUME M!TypeOK, NEW m \in Mandate, NEW u \in Phone, NEW c \in AuthCode,
           NEW d \in BOOLEAN, M!CreateMandate(m, u, c, d)
    PROVE  RowsStay
<1> DEFINE row == [user |-> u, code |-> c, active |-> TRUE, isDefault |-> d]
<1>1. row \in M!MandateRow
  BY DEF M!MandateRow
<1>2. mandate' = M!With(mandate, m, row)
  BY DEF M!CreateMandate
<1> HIDE DEF row
<1>3. QED
  BY <1>1, <1>2 DEF M!With, M!TypeOK, RowsStay

LEMMA WriteKeepsRows ==
    ASSUME M!TypeOK, NEW m \in DOMAIN mandate, NEW row \in M!MandateRow,
           mandate' = [mandate EXCEPT ![m] = row]
    PROVE  RowsStay
BY DEF M!TypeOK, RowsStay

LEMMA SetKeepsRows ==
    ASSUME M!TypeOK, NEW m, NEW u,
           M!SetDefaultMandate(m, u) \/ M!RevokeMandate(m, u)
    PROVE  RowsStay
<1>1. \/ UNCHANGED mandate
      \/ /\ m \in DOMAIN mandate
         /\ \/ mandate' = [mandate EXCEPT ![m] =
                              [mandate[m] EXCEPT !.isDefault = TRUE]]
            \/ mandate' = [mandate EXCEPT ![m] =
                              [mandate[m] EXCEPT !.active = FALSE,
                                                 !.isDefault = FALSE]]
  <2>1. CASE M!SetDefaultMandate(m, u)
    BY <2>1 DEF M!SetDefaultMandate, M!Settable
  <2>2. CASE M!RevokeMandate(m, u)
    BY <2>2 DEF M!RevokeMandate
  <2>3. QED
    BY <2>1, <2>2
<1>2. CASE UNCHANGED mandate
  BY <1>2, RowsSame
<1>3. CASE m \in DOMAIN mandate /\ mandate' = [mandate EXCEPT ![m] =
                              [mandate[m] EXCEPT !.isDefault = TRUE]]
  <2>1. [mandate[m] EXCEPT !.isDefault = TRUE] \in M!MandateRow
    BY <1>3, DefaultSet DEF M!TypeOK
  <2>2. QED
    BY <1>3, <2>1, WriteKeepsRows
<1>4. CASE m \in DOMAIN mandate /\ mandate' = [mandate EXCEPT ![m] =
                [mandate[m] EXCEPT !.active = FALSE, !.isDefault = FALSE]]
  <2>1. [mandate[m] EXCEPT !.active = FALSE, !.isDefault = FALSE]
           \in M!MandateRow
    BY <1>4, RowRevoked DEF M!TypeOK
  <2>2. QED
    BY <1>4, <2>1, WriteKeepsRows
<1>5. QED
  BY <1>1, <1>2, <1>3, <1>4

\* The statements of a call, one by one.
LEMMA ListOn ==
    ASSUME M!TypeOK, NEW r, NEW errs, M!List(r, errs)
    PROVE  CallGoesOn(r) /\ RowsStay
<1> DEFINE first == errs \/ M!ListUserMandates(call[r].user) = {}
<1>1. first \in BOOLEAN
  OBVIOUS
<1>2. r \in DOMAIN call /\ call[r].step = "list" /\ UNCHANGED mandate
      /\ call' = [call EXCEPT ![r].isFirst = first,
                     ![r].step = IF first THEN "unsetFirst" ELSE "create"]
  BY DEF M!List, M!At
<1> HIDE DEF first
<1> DEFINE step == IF first THEN "unsetFirst" ELSE "create"
           c == [call[r] EXCEPT !.isFirst = first, !.step = step]
<1>3. step \in M!CallStep
  BY DEF M!CallStep
<1>4. call' = [call EXCEPT ![r] = c]
  BY <1>2
<1> HIDE DEF step
<1>5. call[r] \in M!Call
  BY <1>2 DEF M!TypeOK
<1>6. c \in M!Call /\ c.about = call[r].about
  BY <1>1, <1>3, <1>5 DEF M!Call
<1> HIDE DEF c
<1>7. QED
  BY <1>2, <1>4, <1>6, RowsSame DEF CallGoesOn, Verifying

LEMMA GotoOn ==
    ASSUME M!TypeOK, NEW r \in DOMAIN call,
           NEW step \in {"unsetFirst", "create", "set", "done"},
           M!Goto(r, step), step \in Verifying => call[r].step \in Verifying
    PROVE  CallGoesOn(r)
<1>1. call[r] \in M!Call
  BY DEF M!TypeOK
<1> DEFINE c == [call[r] EXCEPT !.step = step]
<1>2. c \in M!Call /\ c.step = step /\ c.about = call[r].about
  BY <1>1 DEF M!Call, M!CallStep
<1>3. call' = [call EXCEPT ![r] = c]
  BY DEF M!Goto
<1> HIDE DEF c
<1>4. QED
  BY <1>2, <1>3 DEF CallGoesOn

LEMMA CallStepOn ==
    ASSUME M!TypeOK, NEW r \in Request,
           r \in DOMAIN call /\ call[r].step \in Verifying =>
              call[r].about \in AuthCode,
           M!Step(r) \/ M!Errs(r)
    PROVE  CallGoesOn(r) /\ RowsStay
<1>1. ASSUME NEW errs \in BOOLEAN, M!List(r, errs)
      PROVE  CallGoesOn(r) /\ RowsStay
  BY <1>1, ListOn
<1>2. ASSUME NEW errs \in BOOLEAN, M!UnsetFirst(r, errs)
      PROVE  CallGoesOn(r) /\ RowsStay
  <2>1. r \in DOMAIN call /\ call[r].step = "unsetFirst" /\ M!Goto(r, "create")
        /\ (UNCHANGED mandate \/ M!UnsetDefaultMandate(call[r].user))
    BY <1>2 DEF M!UnsetFirst, M!At
  <2>2. QED
    BY <2>1, GotoOn, RowsSame, UnsetKeepsRows DEF Verifying
<1>3. ASSUME NEW m \in Mandate, M!Create(r, m)
      PROVE  CallGoesOn(r) /\ RowsStay
  <2>1. r \in DOMAIN call /\ call[r].step = "create" /\ M!Goto(r, "done")
        /\ M!CreateMandate(m, call[r].user, call[r].about, call[r].isFirst)
    BY <1>3 DEF M!Create, M!At, M!End
  <2>2. call[r].about \in AuthCode
    BY <2>1 DEF Verifying
  <2>3. call[r].user \in Phone /\ call[r].isFirst \in BOOLEAN
    BY <2>1 DEF M!TypeOK, M!Call
  <2>4. QED
    BY <2>1, <2>2, <2>3, GotoOn, CreateKeepsRows DEF Verifying
<1>4. ASSUME M!CreateConflicts(r) PROVE CallGoesOn(r) /\ RowsStay
  BY <1>4, GotoOn, RowsSame DEF M!CreateConflicts, M!At, M!End, Verifying
<1>5. ASSUME M!Unset(r) PROVE CallGoesOn(r) /\ RowsStay
  BY <1>5, GotoOn, UnsetKeepsRows DEF M!Unset, M!At, Verifying
<1>6. ASSUME M!Set(r) PROVE CallGoesOn(r) /\ RowsStay
  BY <1>6, GotoOn, RowsSame, SetKeepsRows DEF M!Set, M!At, M!End, Verifying
<1>7. ASSUME M!RevokeOne(r) PROVE CallGoesOn(r) /\ RowsStay
  BY <1>7, GotoOn, SetKeepsRows DEF M!RevokeOne, M!At, M!End, Verifying
<1>8. ASSUME r \in DOMAIN call, M!End(r), UNCHANGED mandate
      PROVE  CallGoesOn(r) /\ RowsStay
  BY <1>8, GotoOn, RowsSame DEF M!End, Verifying
<1>9. QED
  BY <1>1, <1>2, <1>3, <1>4, <1>5, <1>6, <1>7, <1>8 DEF M!Step, M!Errs

LEMMA HandledStep ==
    ASSUME AccessInv, NEW r \in Request, Handled(r)
    PROVE  AccessInv'
<1>1. /\ UNCHANGED <<signing, user, session, at, request>>
      /\ NoFault \/ Fault
      /\ M!Step(r) \/ M!Errs(r)
  BY DEF Handled
<1>2. CallGoesOn(r) /\ RowsStay
  BY <1>1, CallStepOn DEF AccessInv, CallsOK
<1>3. PICK new \in M!Call :
         /\ call' = [call EXCEPT ![r] = new]
         /\ new.about = call[r].about
         /\ new.step \in Verifying => call[r].step \in Verifying
  BY <1>2 DEF CallGoesOn
<1>4. r \in DOMAIN call
  BY <1>2 DEF CallGoesOn
<1>5. M!TypeOK'
  BY <1>2, <1>3 DEF RowsStay, AccessInv, CallsOK, M!TypeOK
<1>6. CallsOK'
  BY <1>1, <1>3, <1>4, <1>5 DEF AccessInv, CallsOK
<1>7. faults' \in 0..MaxFaults
  BY <1>1, FaultFacts DEF AccessInv
<1>8. CodesOK' /\ SessionsOK' /\ RequestsOK' /\ BarredOnes'
  BY <1>1, <1>7 DEF AccessInv, CodesOK, SessionsOK, RequestsOK, BarredOnes,
                    Caller, signing
<1>9. QED
  BY <1>6, <1>8 DEF AccessInv

-----------------------------------------------------------------------------
LEMMA InitAccess == Init => AccessInv
<1> SUFFICES ASSUME Init PROVE AccessInv
  OBVIOUS
<1>1. CodesOK
  <2>1. DOMAIN phone = {} /\ DOMAIN tried = {}
    BY DEF Init
  <2>2. otp \in [Phone -> Seq(Code)]
    BY DEF Init
  <2>3. \A x \in Signer : at[x] = "idle"
    BY KindsApart DEF Init
  <2>4. QED
    BY <2>1, <2>2, <2>3 DEF CodesOK
<1>2. SessionsOK
  BY AccessAssumption DEF Init, SessionsOK, Step
<1>3. RequestsOK /\ BarredOnes
  BY KindsApart DEF Init, RequestsOK, BarredOnes
<1>4. CallsOK
  BY DEF Init, CallsOK, M!Init, M!TypeOK
<1>5. QED
  BY <1>1, <1>2, <1>3, <1>4 DEF AccessInv

LEMMA NextAccess == AccessInv /\ [Next]_vars => AccessInv'
<1> SUFFICES ASSUME AccessInv, [Next]_vars PROVE AccessInv'
  OBVIOUS
<1>1. ASSUME NEW p \in Phone, NEW a \in Asker, RequestOTP(a, p)
      PROVE  AccessInv'
  BY <1>1, RequestOTPStep
<1>2. ASSUME NEW p \in Phone, NEW x \in SignIn, NEW typed \in 0..Len(otp[p]),
             VerifyOTP(x, p, typed)
      PROVE  AccessInv'
  BY <1>2, VerifyOTPStep
<1>3. ASSUME NEW p \in Phone, CodeLapses(p)
      PROVE  AccessInv'
  BY <1>3, CodeLapsesStep
<1>4. ASSUME NEW a \in Asker, AskerStep(a)
      PROVE  AccessInv'
  BY <1>4, ExpirePreviousOTPsStep, CreateOTPRequestStep DEF AskerStep
<1>5. ASSUME NEW x \in SignIn, SignInStep(x)
      PROVE  AccessInv'
  BY <1>5, CountStep, MarkOTPVerifiedStep, SignInUserSteps,
     CreateDeviceSessionStep DEF SignInStep
<1>6. ASSUME NEW r \in Request, NEW s \in Session, Arrive(r, s)
      PROVE  AccessInv'
  BY <1>6, ArriveStep
<1>7. ASSUME NEW r \in Request, RequestStep(r)
      PROVE  AccessInv'
  BY <1>7, ChecksStep, RevokeSteps, LockSteps, HandleMandatesStep, HandledStep
  DEF RequestStep
<1>8. ASSUME NEW x \in Thread, Errs(x)
      PROVE  AccessInv'
  BY <1>8, ErrsStep
<1>9. CASE UNCHANGED vars
  BY <1>9 DEF vars, AccessInv, CodesOK, SessionsOK, RequestsOK, CallsOK,
              BarredOnes, Caller, M!TypeOK
<1>10. QED
  BY <1>1, <1>2, <1>3, <1>4, <1>5, <1>6, <1>7, <1>8, <1>9 DEF Next

LEMMA AccessHolds == Spec => []AccessInv
BY InitAccess, NextAccess, PTL DEF Spec

-----------------------------------------------------------------------------
\* Every sign-in writes to a code of the phone it is about, every request
\* speaks for a session that was opened, and the rows of mandates and what
\* the calls carry stay of their kind.
THEOREM TypeCorrect == Spec => []TypeOK
<1>1. AccessInv => TypeOK
  BY DEF AccessInv, CodesOK, SessionsOK, RequestsOK, CallsOK, TypeOK, Signer
<1>2. QED
  BY <1>1, AccessHolds, PTL

\* A request that comes in after its session was revoked or its user locked
\* gets past AuthMiddleware under no interleaving of any number of sign-ins,
\* locks that revoke but some, other requests and faults.
THEOREM BarredStayOut == Spec => []BarredDoNothing
<1>1. AccessInv => BarredDoNothing
  BY DEF AccessInv, BarredOnes, CallsOK, BarredDoNothing
<1>2. QED
  BY <1>1, AccessHolds, PTL

-----------------------------------------------------------------------------
(* One default mandate per user.                                           *)

\* The unique index lets no second one in.
OneDefault(u) == \A m, n \in M!DefaultsOf(u) : m = n

\* A mandate was saved by a verification that has ended.
Recorded(u) ==
    \A m \in DOMAIN mandate : mandate[m].user = u =>
        \E r \in DOMAIN call : /\ call[r].user = u
                               /\ call[r].about = mandate[m].code
                               /\ call[r].step = "done"

\* A call names a code, or a mandate that there is.
Referred(u) ==
    \A r \in DOMAIN call : call[r].user = u =>
        /\ call[r].about \in AuthCode \/ call[r].about \in DOMAIN mandate
        /\ call[r].step \in {"unset", "set", "revoke"} =>
              call[r].about \in DOMAIN mandate
        /\ call[r].step = "unsetFirst" => call[r].isFirst

\* Call r is about to make a mandate of u the default.
Choosing(r, u) ==
    /\ call[r].user = u
    /\ \/ call[r].step = "set"
       \/ call[r].step = "create" /\ call[r].isFirst

\* Whoever leaves u without a default is going to choose one, and a mandate
\* is only saved as another when there is one already.
Chosen(u) ==
    /\ \A r \in DOMAIN call :
          call[r].user = u /\ call[r].step = "create" /\ ~call[r].isFirst =>
              M!ListUserMandates(u) # {}
    /\ M!ListUserMandates(u) # {} =>
          \/ M!DefaultsOf(u) # {}
          \/ \E r \in DOMAIN call : Choosing(r, u)

DefaultInv(u) ==
    /\ OneDefault(u)
    /\ Recorded(u)
    /\ Referred(u)
    /\ faults = 0 /\ M!Orderly(u) => Chosen(u)

\* The call goes on, about the same, and the others stay where they are.
GoesTo(r, step) ==
    /\ r \in DOMAIN call
    /\ DOMAIN call' = DOMAIN call
    /\ \A q \in DOMAIN call : call'[q].user = call[q].user
                              /\ call'[q].about = call[q].about
    /\ \A q \in DOMAIN call \ {r} : call'[q] = call[q]
    /\ call'[r].step = step

\* Rows of mandates are neither deleted nor given to another user or
\* another code, and a revoked one stays so.
RowsGrow ==
    \A m \in DOMAIN mandate :
        /\ m \in DOMAIN mandate'
        /\ mandate'[m].user = mandate[m].user
        /\ mandate'[m].code = mandate[m].code
        /\ mandate'[m].active => mandate[m].active

CallsGrow ==
    \A r \in DOMAIN call :
        /\ r \in DOMAIN call'
        /\ call'[r].user = call[r].user
        /\ call'[r].about = call[r].about

\* What is not in order stays so.
LEMMA OrderlyBefore ==
    ASSUME NEW u \in Phone, Referred(u), RowsGrow, CallsGrow,
           \A r \in DOMAIN call :
              call[r].user = u /\ call[r].step = "revoke" =>
                 call'[r].step = "revoke",
           M!Orderly(u)'
    PROVE  M!Orderly(u)
<1>1. \A m \in DOMAIN mandate : mandate[m].user = u => mandate[m].active
  BY DEF RowsGrow, M!Orderly
<1>2. ASSUME NEW r \in DOMAIN call, call[r].user = u
      PROVE  /\ call[r].step # "revoke"
             /\ call[r].about \in AuthCode
                \/ call[r].about \in M!ListUserMandates(u)
             /\ \A q \in DOMAIN call : ~M!SameCode(r, q)
  <2>1. /\ r \in DOMAIN call' /\ call'[r].user = u
        /\ call'[r].about = call[r].about
    BY <1>2 DEF CallsGrow
  <2>2. /\ call'[r].step # "revoke"
        /\ call'[r].about \in AuthCode
           \/ call'[r].about \in M!ListUserMandates(u)'
        /\ \A q \in DOMAIN call' : ~M!SameCode(r, q)'
    BY <2>1 DEF M!Orderly
  <2>3. call[r].step # "revoke"
    BY <1>2, <2>2
  <2>4. call[r].about \in AuthCode \/ call[r].about \in M!ListUserMandates(u)
    <3>1. call[r].about \in AuthCode \/ call[r].about \in DOMAIN mandate
      BY <1>2 DEF Referred
    <3>2. CASE call[r].about \in DOMAIN mandate
                /\ call[r].about \in M!ListUserMandates(u)'
      <4>1. mandate'[call[r].about].user = u
        BY <3>2 DEF M!ListUserMandates
      <4>2. mandate[call[r].about].user = u
        BY <3>2, <4>1 DEF RowsGrow
      <4>3. QED
        BY <1>1, <3>2, <4>2 DEF M!ListUserMandates
    <3>3. QED
      BY <2>1, <2>2, <3>1, <3>2
  <2>5. \A q \in DOMAIN call : ~M!SameCode(r, q)
    BY <1>2, <2>1, <2>2 DEF CallsGrow, M!SameCode
  <2>6. QED
    BY <2>3, <2>4, <2>5
<1>3. QED
  BY <1>1, <1>2 DEF M!Orderly

\* A step that leaves the mandates and the calls of u alone.
Spared(u) ==
    /\ DOMAIN mandate \subseteq DOMAIN mandate'
    /\ \A m \in DOMAIN mandate :
          mandate[m].user = u => mandate'[m] = mandate[m]
    /\ \A m \in DOMAIN mandate' :
          mandate'[m].user = u => m \in DOMAIN mandate /\ mandate[m].user = u
    /\ \A r \in DOMAIN call :
          call[r].user = u => r \in DOMAIN call' /\ call'[r] = call[r]
    /\ \A r \in DOMAIN call' :
          call'[r].user = u => r \in DOMAIN call /\ call[r].user = u

LEMMA SparedRows ==
    ASSUME NEW u \in Phone, Spared(u)
    PROVE  /\ M!ListUserMandates(u)' = M!ListUserMandates(u)
           /\ M!DefaultsOf(u)' = M!DefaultsOf(u)
<1>1. M!ListUserMandates(u)' = M!ListUserMandates(u)
  BY DEF Spared, M!ListUserMandates
<1>2. \A m \in M!ListUserMandates(u) : mandate'[m] = mandate[m]
  BY DEF Spared, M!ListUserMandates
<1>3. QED
  BY <1>1, <1>2 DEF M!DefaultsOf

LEMMA SparedInv ==
    ASSUME NEW u \in Phone, DefaultInv(u), Spared(u), faults' = 0 => faults = 0
    PROVE  DefaultInv(u)'
<1>1. /\ M!ListUserMandates(u)' = M!ListUserMandates(u)
      /\ M!DefaultsOf(u)' = M!DefaultsOf(u)
  BY SparedRows
<1>2. OneDefault(u)'
  BY <1>1 DEF DefaultInv, OneDefault
<1>3. Recorded(u)'
  <2> SUFFICES ASSUME NEW m \in DOMAIN mandate', mandate'[m].user = u
               PROVE  \E r \in DOMAIN call' : /\ call'[r].user = u
                                              /\ call'[r].about = mandate'[m].code
                                              /\ call'[r].step = "done"
    BY DEF Recorded
  <2>1. m \in DOMAIN mandate /\ mandate[m].user = u /\ mandate'[m] = mandate[m]
    BY DEF Spared
  <2>2. PICK r \in DOMAIN call : /\ call[r].user = u
                                 /\ call[r].about = mandate[m].code
                                 /\ call[r].step = "done"
    BY <2>1 DEF DefaultInv, Recorded
  <2>3. QED
    BY <2>1, <2>2 DEF Spared
<1>4. Referred(u)'
  BY DEF DefaultInv, Referred, Spared
<1>5. ASSUME M!Orderly(u)' PROVE M!Orderly(u)
  <2>1. \A m \in DOMAIN mandate : mandate[m].user = u => mandate[m].active
    BY <1>5 DEF Spared, M!Orderly
  <2>2. ASSUME NEW r \in DOMAIN call, call[r].user = u
        PROVE  /\ call[r].step # "revoke"
               /\ call[r].about \in AuthCode
                  \/ call[r].about \in M!ListUserMandates(u)
               /\ \A q \in DOMAIN call : ~M!SameCode(r, q)
    <3>1. r \in DOMAIN call' /\ call'[r] = call[r]
      BY <2>2 DEF Spared
    <3>2. /\ call'[r].step # "revoke"
          /\ call'[r].about \in AuthCode
             \/ call'[r].about \in M!ListUserMandates(u)'
          /\ \A q \in DOMAIN call' : ~M!SameCode(r, q)'
      BY <1>5, <2>2, <3>1 DEF M!Orderly
    <3>3. \A q \in DOMAIN call : ~M!SameCode(r, q)
      BY <2>2, <3>1, <3>2 DEF Spared, M!SameCode
    <3>4. QED
      BY <1>1, <3>1, <3>2, <3>3
  <2>3. QED
    BY <2>1, <2>2 DEF M!Orderly
<1>6. ASSUME Chosen(u) PROVE Chosen(u)'
  <2>1. \A r \in DOMAIN call' :
           call'[r].user = u /\ call'[r].step = "create" /\ ~call'[r].isFirst =>
              M!ListUserMandates(u)' # {}
    BY <1>1, <1>6 DEF Chosen, Spared
  <2>2. \A r \in DOMAIN call : Choosing(r, u) =>
           r \in DOMAIN call' /\ Choosing(r, u)'
    BY DEF Choosing, Spared
  <2>3. QED
    BY <1>1, <1>6, <2>1, <2>2 DEF Chosen
<1>7. QED
  BY <1>2, <1>3, <1>4, <1>5, <1>6 DEF DefaultInv

\* What a step of call r does to the other users: nothing.
LEMMA OthersSpared ==
    ASSUME M!TypeOK, NEW u \in Phone, NEW r \in DOMAIN call, call[r].user # u,
           NEW step, GoesTo(r, step),
           \/ UNCHANGED mandate
           \/ M!UnsetDefaultMandate(call[r].user)
           \/ \E m, c, d : M!CreateMandate(m, call[r].user, c, d)
           \/ \E m : M!SetDefaultMandate(m, call[r].user)
           \/ \E m : M!RevokeMandate(m, call[r].user)
    PROVE  Spared(u)
<1> DEFINE RowsSpared ==
    /\ DOMAIN mandate \subseteq DOMAIN mandate'
    /\ \A m \in DOMAIN mandate :
          mandate[m].user = u => mandate'[m] = mandate[m]
    /\ \A m \in DOMAIN mandate' :
          mandate'[m].user = u => m \in DOMAIN mandate /\ mandate[m].user = u
<1>1. CASE UNCHANGED mandate
  BY <1>1, Zenon DEF GoesTo, Spared
<1>2. \A m \in DOMAIN mandate : mandate[m] \in M!MandateRow
  BY DEF M!TypeOK
<1>3. CASE M!UnsetDefaultMandate(call[r].user)
  <2>1. \A m \in DOMAIN mandate :
           mandate[m].user = call[r].user => mandate'[m].user = call[r].user
    BY <1>2, <1>3 DEF M!UnsetDefaultMandate, M!MandateRow
  <2>2. RowsSpared
    BY <1>3, <2>1 DEF M!UnsetDefaultMandate
  <2>3. QED
    BY <2>2 DEF GoesTo, Spared
<1>4. ASSUME NEW m, NEW c, NEW d, M!CreateMandate(m, call[r].user, c, d)
      PROVE  Spared(u)
  <2>1. RowsSpared
    BY <1>4 DEF M!CreateMandate, M!With
  <2>2. QED
    BY <2>1 DEF GoesTo, Spared
<1>5. ASSUME NEW m, M!SetDefaultMandate(m, call[r].user)
      PROVE  Spared(u)
  <2>1. RowsSpared
    BY <1>2, <1>5 DEF M!SetDefaultMandate, M!Settable, M!MandateRow
  <2>2. QED
    BY <2>1 DEF GoesTo, Spared
<1>6. ASSUME NEW m, M!RevokeMandate(m, call[r].user)
      PROVE  Spared(u)
  <2>1. RowsSpared
    BY <1>2, <1>6 DEF M!RevokeMandate, M!MandateRow
  <2>2. QED
    BY <2>1 DEF GoesTo, Spared
<1>7. QED
  BY <1>1, <1>3, <1>4, <1>5, <1>6

\* What a step of a call of u does to what its records say.
LEMMA OwnReferred ==
    ASSUME NEW u \in Phone, NEW r \in DOMAIN call, NEW step,
           DefaultInv(u), GoesTo(r, step), RowsGrow,
           step \in {"unset", "set", "revoke"} => call[r].step = "unset",
           step = "unsetFirst" => call'[r].isFirst
    PROVE  Referred(u)'
<1> SUFFICES ASSUME NEW q \in DOMAIN call, call[q].user = u
             PROVE  /\ call'[q].about \in AuthCode
                       \/ call'[q].about \in DOMAIN mandate'
                    /\ call'[q].step \in {"unset", "set", "revoke"} =>
                          call'[q].about \in DOMAIN mandate'
                    /\ call'[q].step = "unsetFirst" => call'[q].isFirst
  BY DEF GoesTo, Referred
<1>1. /\ call[q].about \in AuthCode \/ call[q].about \in DOMAIN mandate
      /\ call[q].step \in {"unset", "set", "revoke"} =>
            call[q].about \in DOMAIN mandate
      /\ call[q].step = "unsetFirst" => call[q].isFirst
  BY DEF DefaultInv, Referred
<1>2. call'[q].about = call[q].about /\ DOMAIN mandate \subseteq DOMAIN mandate'
  BY DEF GoesTo, RowsGrow
<1>3. CASE q = r
  BY <1>1, <1>2, <1>3 DEF GoesTo
<1>4. CASE q # r
  BY <1>1, <1>2, <1>4 DEF GoesTo
<1>5. QED
  BY <1>3, <1>4

LEMMA OwnRecorded ==
    ASSUME NEW u \in Phone, NEW r \in DOMAIN call, NEW step,
           DefaultInv(u), GoesTo(r, step), RowsGrow, call[r].step # "done",
           \A m \in DOMAIN mandate' \ DOMAIN mandate :
              mandate'[m].user = u =>
                 /\ step = "done" /\ call[r].user = u
                 /\ mandate'[m].code = call[r].about
    PROVE  Recorded(u)'
<1> SUFFICES ASSUME NEW m \in DOMAIN mandate', mandate'[m].user = u
             PROVE  \E q \in DOMAIN call' :
                       /\ call'[q].user = u
                       /\ call'[q].about = mandate'[m].code
                       /\ call'[q].step = "done"
  BY DEF Recorded
<1>1. CASE m \in DOMAIN mandate
  <2>1. mandate[m].user = u /\ mandate'[m].code = mandate[m].code
    BY <1>1 DEF RowsGrow
  <2>2. PICK q \in DOMAIN call : /\ call[q].user = u
                                 /\ call[q].about = mandate[m].code
                                 /\ call[q].step = "done"
    BY <1>1, <2>1 DEF DefaultInv, Recorded
  <2>3. q # r
    BY <2>2
  <2>4. QED
    BY <2>1, <2>2, <2>3 DEF GoesTo
<1>2. CASE m \notin DOMAIN mandate
  BY <1>2 DEF GoesTo
<1>3. QED
  BY <1>1, <1>2

LEMMA OwnOrderly ==
    ASSUME NEW u \in Phone, NEW r \in DOMAIN call, NEW step,
           DefaultInv(u), GoesTo(r, step), RowsGrow, call[r].step # "revoke",
           M!Orderly(u)'
    PROVE  M!Orderly(u)
<1>1. CallsGrow
  BY DEF GoesTo, CallsGrow
<1>2. \A q \in DOMAIN call :
         call[q].user = u /\ call[q].step = "revoke" =>
            call'[q].step = "revoke"
  BY DEF GoesTo
<1>3. QED
  BY <1>1, <1>2, OrderlyBefore DEF DefaultInv

LEMMA SameRowsGrow ==
    ASSUME UNCHANGED mandate
    PROVE  RowsGrow
BY DEF RowsGrow

\* A statement that leaves the rows alone, and a call that was not choosing,
\* or has found a default there.
LEMMA IdleStatement ==
    ASSUME NEW u \in Phone, NEW r \in DOMAIN call, NEW step,
           DefaultInv(u), GoesTo(r, step), UNCHANGED mandate,
           call[r].user = u, call[r].step \notin {"revoke", "done"},
           step \in {"unsetFirst", "create", "set", "done"},
           step = "set" => call[r].step = "unset",
           step = "unsetFirst" => call'[r].isFirst,
           faults' = 0 /\ M!Orderly(u) =>
              /\ faults = 0
              /\ step = "create" /\ ~call'[r].isFirst =>
                    M!ListUserMandates(u) # {}
              /\ \/ ~Choosing(r, u) \/ Choosing(r, u)'
                 \/ M!DefaultsOf(u) # {}
    PROVE  DefaultInv(u)'
<1>1. RowsGrow
  BY SameRowsGrow
<1>2. OneDefault(u)'
  BY DEF DefaultInv, OneDefault, M!DefaultsOf, M!ListUserMandates
<1>3. Recorded(u)'
  BY <1>1, OwnRecorded
<1>4. Referred(u)'
  BY <1>1, OwnReferred
<1>5. ASSUME faults' = 0, M!Orderly(u)'
      PROVE  Chosen(u)'
  <2>1. M!Orderly(u)
    BY <1>1, <1>5, OwnOrderly
  <2>2. Chosen(u)
    BY <1>5, <2>1 DEF DefaultInv
  <2>3. /\ M!ListUserMandates(u)' = M!ListUserMandates(u)
        /\ M!DefaultsOf(u)' = M!DefaultsOf(u)
    BY DEF M!DefaultsOf, M!ListUserMandates
  <2>4. \A q \in DOMAIN call' :
           call'[q].user = u /\ call'[q].step = "create" /\ ~call'[q].isFirst =>
              M!ListUserMandates(u)' # {}
    <3> TAKE q \in DOMAIN call'
    <3>1. CASE q = r
      BY <3>1, <1>5, <2>1, <2>3 DEF GoesTo
    <3>2. CASE q # r
      BY <3>2, <2>2, <2>3 DEF GoesTo, Chosen
    <3>3. QED
      BY <3>1, <3>2
  <2>5. \A q \in DOMAIN call : q # r /\ Choosing(q, u) => Choosing(q, u)'
    BY DEF GoesTo, Choosing
  <2>6. ASSUME M!ListUserMandates(u)' # {}, M!DefaultsOf(u)' = {}
        PROVE  \E q \in DOMAIN call' : Choosing(q, u)'
    <3>1. PICK q \in DOMAIN call : Choosing(q, u)
      BY <2>2, <2>3, <2>6 DEF Chosen
    <3>2. Choosing(q, u)'
      BY <1>5, <2>1, <2>3, <2>5, <2>6, <3>1
    <3>3. QED
      BY <3>2 DEF GoesTo
  <2>7. QED
    BY <2>4, <2>6 DEF Chosen
<1>6. QED
  BY <1>2, <1>3, <1>4, <1>5 DEF DefaultInv

\* The default is unset by a call that is going to choose one.
LEMMA UnsetStatement ==
    ASSUME M!TypeOK, NEW u \in Phone, NEW r \in DOMAIN call, NEW step,
           DefaultInv(u), GoesTo(r, step), M!UnsetDefaultMandate(u),
           call[r].user = u, call[r].step \notin {"revoke", "done"},
           \/ step = "set" /\ call[r].step = "unset"
           \/ step = "create" /\ call'[r].isFirst,
           faults' = 0 => faults = 0
    PROVE  DefaultInv(u)'
<1>1. \A m \in DOMAIN mandate :
         /\ m \in DOMAIN mandate'
         /\ mandate'[m].user = mandate[m].user
         /\ mandate'[m].code = mandate[m].code
         /\ mandate'[m].active = mandate[m].active
         /\ mandate[m].user = u => ~mandate'[m].isDefault
  BY DEF M!UnsetDefaultMandate, M!TypeOK, M!MandateRow
<1>2. DOMAIN mandate' = DOMAIN mandate
  BY DEF M!UnsetDefaultMandate
<1>3. RowsGrow
  BY <1>1 DEF RowsGrow
<1>4. /\ M!ListUserMandates(u)' = M!ListUserMandates(u)
      /\ M!DefaultsOf(u)' = {}
  BY <1>1, <1>2 DEF M!DefaultsOf, M!ListUserMandates
<1>5. OneDefault(u)'
  BY <1>4 DEF OneDefault
<1>6. Recorded(u)' /\ Referred(u)'
  BY <1>2, <1>3, OwnRecorded, OwnReferred
<1>7. ASSUME faults' = 0, M!Orderly(u)'
      PROVE  Chosen(u)'
  <2>1. Chosen(u)
    BY <1>3, <1>7, OwnOrderly DEF DefaultInv
  <2>2. Choosing(r, u)' /\ r \in DOMAIN call'
    BY DEF GoesTo, Choosing
  <2>3. \A q \in DOMAIN call' :
           call'[q].user = u /\ call'[q].step = "create" /\ ~call'[q].isFirst =>
              M!ListUserMandates(u)' # {}
    BY <1>4, <2>1 DEF GoesTo, Chosen
  <2>4. QED
    BY <2>2, <2>3 DEF Chosen
<1>8. QED
  BY <1>5, <1>6, <1>7 DEF DefaultInv

\* A mandate is saved: as the default if there was none before.
LEMMA SaveStatement ==
    ASSUME M!TypeOK, NEW u \in Phone, NEW r \in DOMAIN call, NEW m \in Mandate,
           DefaultInv(u), GoesTo(r, "done"),
           M!CreateMandate(m, u, call[r].about, call[r].isFirst),
           call[r].user = u, call[r].step = "create",
           call[r].isFirst \in BOOLEAN, faults' = 0 => faults = 0
    PROVE  DefaultInv(u)'
<1> DEFINE new == [user |-> u, code |-> call[r].about, active |-> TRUE,
                   isDefault |-> call[r].isFirst]
<1>1. /\ DOMAIN mandate' = DOMAIN mandate \cup {m} /\ m \notin DOMAIN mandate
      /\ \A n \in DOMAIN mandate : mandate'[n] = mandate[n]
      /\ mandate'[m] = new
      /\ call[r].isFirst => M!DefaultsOf(u) \ {m} = {}
  BY DEF M!CreateMandate, M!With, M!DefaultTaken
<1>2. RowsGrow
  BY <1>1 DEF RowsGrow
<1>3. /\ M!ListUserMandates(u)' = M!ListUserMandates(u) \cup {m}
      /\ M!DefaultsOf(u)' =
            IF call[r].isFirst THEN M!DefaultsOf(u) \cup {m}
                               ELSE M!DefaultsOf(u)
  <2>1. M!ListUserMandates(u)' = M!ListUserMandates(u) \cup {m}
    BY <1>1 DEF M!ListUserMandates
  <2>2. \A n \in M!ListUserMandates(u) : n # m /\ mandate'[n] = mandate[n]
    BY <1>1 DEF M!ListUserMandates
  <2>3. QED
    BY <1>1, <2>1, <2>2 DEF M!DefaultsOf
<1>4. OneDefault(u)'
  BY <1>1, <1>3 DEF DefaultInv, OneDefault
<1>5. Recorded(u)'
  BY <1>1, <1>2, OwnRecorded
<1>6. Referred(u)'
  BY <1>2, OwnReferred
<1>7. ASSUME faults' = 0, M!Orderly(u)'
      PROVE  Chosen(u)'
  <2>1. Chosen(u)
    BY <1>2, <1>7, OwnOrderly DEF DefaultInv
  <2>2. \A q \in DOMAIN call : q # r /\ Choosing(q, u) => Choosing(q, u)'
    BY DEF GoesTo, Choosing
  <2>3. CASE call[r].isFirst
    BY <1>3, <2>3 DEF Chosen
  <2>4. CASE ~call[r].isFirst
    <3>1. ~Choosing(r, u) /\ M!ListUserMandates(u) # {}
      BY <2>1, <2>4 DEF Choosing, Chosen
    <3>2. M!DefaultsOf(u) # {} \/ \E q \in DOMAIN call : Choosing(q, u)'
      BY <2>1, <2>2, <3>1 DEF Chosen
    <3>3. QED
      BY <1>3, <2>4, <3>2 DEF Chosen, GoesTo
  <2>5. QED
    BY <2>3, <2>4
<1>8. QED
  BY <1>4, <1>5, <1>6, <1>7 DEF DefaultInv

\* A mandate becomes the default, the only one.
LEMMA SetStatement ==
    ASSUME M!TypeOK, NEW u \in Phone, NEW r \in DOMAIN call,
           DefaultInv(u), GoesTo(r, "done"),
           M!SetDefaultMandate(call[r].about, u),
           call[r].user = u, call[r].step = "set", faults' = 0 => faults = 0
    PROVE  DefaultInv(u)'
<1> DEFINE m == call[r].about
<1>1. /\ m \in DOMAIN mandate /\ mandate[m].user = u
      /\ ~(mandate[m].active /\ M!DefaultTaken(u, m))
      /\ mandate' = [mandate EXCEPT ![m].isDefault = TRUE]
  BY DEF M!SetDefaultMandate, M!Settable
<1>2. /\ DOMAIN mandate' = DOMAIN mandate
      /\ \A n \in DOMAIN mandate :
            /\ mandate'[n].user = mandate[n].user
            /\ mandate'[n].code = mandate[n].code
            /\ mandate'[n].active = mandate[n].active
            /\ n # m => mandate'[n] = mandate[n]
      /\ mandate'[m].isDefault
  BY <1>1 DEF M!TypeOK, M!MandateRow
<1> HIDE DEF m
<1>3. RowsGrow
  BY <1>2 DEF RowsGrow
<1>4. /\ M!ListUserMandates(u)' = M!ListUserMandates(u)
      /\ M!DefaultsOf(u) \ {m} = M!DefaultsOf(u)' \ {m}
      /\ m \in M!ListUserMandates(u) => m \in M!DefaultsOf(u)'
      /\ m \notin M!ListUserMandates(u) => m \notin M!DefaultsOf(u)'
  BY <1>2 DEF M!DefaultsOf, M!ListUserMandates
<1>5. OneDefault(u)'
  <2>1. CASE mandate[m].active
    BY <1>1, <1>4, <2>1 DEF OneDefault, M!DefaultTaken
  <2>2. CASE ~mandate[m].active
    <3>1. m \notin M!ListUserMandates(u)
      BY <2>2 DEF M!ListUserMandates
    <3>2. QED
      BY <1>4, <3>1 DEF DefaultInv, OneDefault
  <2>3. QED
    BY <2>1, <2>2
<1>6. Recorded(u)' /\ Referred(u)'
  BY <1>2, <1>3, OwnRecorded, OwnReferred
<1>7. ASSUME faults' = 0, M!Orderly(u)'
      PROVE  Chosen(u)'
  <2>1. M!Orderly(u)
    BY <1>3, <1>7, OwnOrderly
  <2>2. Chosen(u)
    BY <1>7, <2>1 DEF DefaultInv
  <2>3. m \in M!ListUserMandates(u)
    BY <1>1, <2>1 DEF M!Orderly, M!ListUserMandates
  <2>4. M!DefaultsOf(u)' # {}
    BY <1>4, <2>3
  <2>5. QED
    BY <1>4, <2>2, <2>4 DEF Chosen, GoesTo
<1>8. QED
  BY <1>5, <1>6, <1>7 DEF DefaultInv

\* A user who has revoked a mandate, or tried to, is not in order any more.
LEMMA RevokeStatement ==
    ASSUME M!TypeOK, NEW u \in Phone, NEW r \in DOMAIN call,
           DefaultInv(u), GoesTo(r, "done"), M!RevokeMandate(call[r].about, u),
           call[r].user = u, call[r].step = "revoke"
    PROVE  DefaultInv(u)'
<1> DEFINE m == call[r].about
<1>1. m \in DOMAIN mandate /\ m \notin AuthCode
  BY AccessAssumption DEF DefaultInv, Referred, M!TypeOK
<1>2. mandate' = IF mandate[m].user = u
                 THEN [mandate EXCEPT ![m].active = FALSE,
                                      ![m].isDefault = FALSE]
                 ELSE mandate
  BY <1>1 DEF M!RevokeMandate
<1>3. /\ DOMAIN mandate' = DOMAIN mandate
      /\ \A n \in DOMAIN mandate :
            /\ mandate'[n].user = mandate[n].user
            /\ mandate'[n].code = mandate[n].code
            /\ mandate'[n].active => mandate[n].active
            /\ mandate'[n].isDefault => mandate[n].isDefault
      /\ mandate[m].user = u => ~mandate'[m].active
  BY <1>1, <1>2 DEF M!TypeOK, M!MandateRow
<1>4. RowsGrow
  BY <1>3 DEF RowsGrow
<1>5. call'[r].about = m /\ call'[r].user = u /\ r \in DOMAIN call'
  BY DEF GoesTo
<1> HIDE DEF m
<1>6. OneDefault(u)'
  BY <1>3 DEF DefaultInv, OneDefault, M!DefaultsOf, M!ListUserMandates
<1>7. Recorded(u)' /\ Referred(u)'
  BY <1>3, <1>4, OwnRecorded, OwnReferred
<1>8. ~M!Orderly(u)'
  <2>1. CASE mandate[m].user = u
    BY <1>1, <1>3, <2>1 DEF M!Orderly
  <2>2. CASE mandate[m].user # u
    <3>1. m \notin M!ListUserMandates(u)'
      BY <1>1, <1>3, <2>2 DEF M!ListUserMandates
    <3>2. QED
      BY <1>1, <1>5, <3>1 DEF M!Orderly
  <2>3. QED
    BY <2>1, <2>2
<1>9. QED
  BY <1>6, <1>7, <1>8 DEF DefaultInv

\* Two verifications with one code are not in order, so that a code that is
\* taken means that there is a default that takes the place.
LEMMA TakenIsDisorderly ==
    ASSUME NEW u \in Phone, NEW r \in DOMAIN call, DefaultInv(u),
           call[r].user = u, call[r].step = "create",
           call[r].about \in AuthCode, M!CodeTaken(u, call[r].about)
    PROVE  ~M!Orderly(u)
<1>1. PICK m \in DOMAIN mandate :
         mandate[m].user = u /\ mandate[m].code = call[r].about
  BY DEF M!CodeTaken
<1>2. PICK q \in DOMAIN call : /\ call[q].user = u
                               /\ call[q].about = call[r].about
                               /\ call[q].step = "done"
  BY <1>1 DEF DefaultInv, Recorded
<1>3. M!SameCode(r, q)
  BY <1>2 DEF M!SameCode
<1>4. QED
  BY <1>3 DEF M!Orderly

LEMMA GoesToFacts ==
    ASSUME M!TypeOK, NEW r \in DOMAIN call, NEW step, M!Goto(r, step)
    PROVE  GoesTo(r, step) /\ call'[r].isFirst = call[r].isFirst
BY DEF M!TypeOK, M!Goto, M!Call, GoesTo

LEMMA ListedFacts ==
    ASSUME M!TypeOK, NEW r \in DOMAIN call, NEW step, NEW first \in BOOLEAN,
           call' = [call EXCEPT ![r].isFirst = first, ![r].step = step]
    PROVE  GoesTo(r, step) /\ call'[r].isFirst = first
BY DEF M!TypeOK, M!Call, GoesTo

\* An ended call leaves the rows alone.
EndsIdle(r) ==
    /\ r \in DOMAIN call
    /\ call[r].step # "done"
    /\ M!End(r)
    /\ UNCHANGED mandate

\* What each statement of a call means for its own user.
LEMMA OwnStep ==
    ASSUME M!TypeOK, NEW r \in DOMAIN call, NEW u \in Phone, call[r].user = u,
           call[r].step \in Verifying => call[r].about \in AuthCode,
           DefaultInv(u),
           \/ M!Step(r) /\ faults' = faults
           \/ M!Errs(r) /\ faults' # 0
    PROVE  /\ DefaultInv(u)'
           /\ \E step : GoesTo(r, step)
           /\ \/ UNCHANGED mandate
              \/ M!UnsetDefaultMandate(u)
              \/ \E m, c, d : M!CreateMandate(m, u, c, d)
              \/ \E m : M!SetDefaultMandate(m, u)
              \/ \E m : M!RevokeMandate(m, u)
<1>0. call[r].isFirst \in BOOLEAN
  BY DEF M!TypeOK, M!Call
<1> DEFINE Goal ==
              /\ DefaultInv(u)'
              /\ \E step : GoesTo(r, step)
              /\ \/ UNCHANGED mandate
                 \/ M!UnsetDefaultMandate(u)
                 \/ \E m, c, d : M!CreateMandate(m, u, c, d)
                 \/ \E m : M!SetDefaultMandate(m, u)
                 \/ \E m : M!RevokeMandate(m, u)
<1>1. ASSUME NEW errs \in BOOLEAN, M!List(r, errs),
             (~errs /\ faults' = faults) \/ (errs /\ faults' # 0)
      PROVE  Goal
  <2> DEFINE first == errs \/ M!ListUserMandates(u) = {}
             step == IF first THEN "unsetFirst" ELSE "create"
  <2>1. /\ call[r].step = "list" /\ UNCHANGED mandate
        /\ call' = [call EXCEPT ![r].isFirst = first, ![r].step = step]
        /\ first \in BOOLEAN
    BY <1>1 DEF M!List, M!At
  <2>2. /\ step = "unsetFirst" => first
        /\ step = "create" /\ faults' = 0 =>
              first \/ M!ListUserMandates(u) # {}
        /\ step \in {"unsetFirst", "create"}
    BY <1>1
  <2> HIDE DEF first, step
  <2>3. GoesTo(r, step) /\ call'[r].isFirst = first
    BY <2>1, ListedFacts
  <2>5. ~Choosing(r, u)
    BY <2>1 DEF Choosing
  <2>6. faults' = 0 => faults = 0
    BY <1>1
  <2>7. DefaultInv(u)'
    BY <2>1, <2>2, <2>3, <2>5, <2>6, IdleStatement
  <2>8. QED
    BY <2>1, <2>3, <2>7
<1>2. ASSUME NEW errs \in BOOLEAN, M!UnsetFirst(r, errs),
             (~errs /\ faults' = faults) \/ (errs /\ faults' # 0)
      PROVE  Goal
  <2>1. call[r].step = "unsetFirst" /\ M!Goto(r, "create") /\ call[r].isFirst
    BY <1>2 DEF M!UnsetFirst, M!At, DefaultInv, Referred
  <2>2. GoesTo(r, "create") /\ call'[r].isFirst
    BY <2>1, GoesToFacts
  <2>3. CASE errs
    <3>1. UNCHANGED mandate /\ faults' # 0
      BY <1>2, <2>3 DEF M!UnsetFirst
    <3>2. DefaultInv(u)'
      BY <2>1, <2>2, <3>1, IdleStatement
    <3>3. QED
      BY <2>2, <3>1, <3>2
  <2>4. CASE ~errs
    <3>1. M!UnsetDefaultMandate(u)
      BY <1>2, <2>4 DEF M!UnsetFirst
    <3>2. DefaultInv(u)'
      BY <1>2, <2>1, <2>2, <3>1, UnsetStatement
    <3>3. QED
      BY <2>2, <3>1, <3>2
  <2>5. QED
    BY <2>3, <2>4
<1>3. ASSUME NEW m \in Mandate, M!Create(r, m), faults' = faults
      PROVE  Goal
  <2>1. /\ call[r].step = "create" /\ M!Goto(r, "done")
        /\ M!CreateMandate(m, u, call[r].about, call[r].isFirst)
    BY <1>3 DEF M!Create, M!At, M!End
  <2>2. GoesTo(r, "done")
    BY <2>1, GoesToFacts
  <2>3. DefaultInv(u)'
    BY <1>0, <1>3, <2>1, <2>2, SaveStatement
  <2>4. QED
    BY <2>1, <2>2, <2>3
<1>4. ASSUME M!CreateConflicts(r), faults' = faults
      PROVE  Goal
  <2>1. /\ call[r].step = "create" /\ M!Goto(r, "done") /\ UNCHANGED mandate
        /\ M!CodeTaken(u, call[r].about) \/ M!DefaultsOf(u) # {}
    BY <1>4 DEF M!CreateConflicts, M!At, M!End
  <2>2. GoesTo(r, "done")
    BY <2>1, GoesToFacts
  <2>3. M!Orderly(u) => M!DefaultsOf(u) # {}
    BY <2>1, TakenIsDisorderly DEF Verifying
  <2>4. DefaultInv(u)'
    BY <1>4, <2>1, <2>2, <2>3, IdleStatement
  <2>5. QED
    BY <2>1, <2>2, <2>4
<1>5. ASSUME M!Unset(r), faults' = faults
      PROVE  Goal
  <2>1. /\ call[r].step = "unset" /\ M!Goto(r, "set")
        /\ M!UnsetDefaultMandate(u)
    BY <1>5 DEF M!Unset, M!At
  <2>2. GoesTo(r, "set")
    BY <2>1, GoesToFacts
  <2>3. DefaultInv(u)'
    BY <1>5, <2>1, <2>2, UnsetStatement
  <2>4. QED
    BY <2>1, <2>2, <2>3
<1>6. ASSUME M!Set(r), faults' = faults
      PROVE  Goal
  <2>1. /\ call[r].step = "set" /\ M!Goto(r, "done")
        /\ \/ M!SetDefaultMandate(call[r].about, u)
           \/ ~M!Settable(call[r].about, u) /\ UNCHANGED mandate
    BY <1>6 DEF M!Set, M!At, M!End
  <2>2. GoesTo(r, "done")
    BY <2>1, GoesToFacts
  <2>3. CASE M!SetDefaultMandate(call[r].about, u)
    <3>1. DefaultInv(u)'
      BY <1>6, <2>1, <2>2, <2>3, SetStatement
    <3>2. QED
      BY <2>2, <2>3, <3>1
  <2>4. CASE ~M!Settable(call[r].about, u) /\ UNCHANGED mandate
    <3>1. call[r].about \in DOMAIN mandate /\ call[r].about \notin AuthCode
      BY <2>1, AccessAssumption DEF DefaultInv, Referred, M!TypeOK
    <3>2. M!Orderly(u) => M!DefaultsOf(u) # {}
      BY <2>4, <3>1
      DEF M!Orderly, M!Settable, M!DefaultTaken, M!ListUserMandates
    <3>3. DefaultInv(u)'
      BY <1>6, <2>1, <2>2, <2>4, <3>2, IdleStatement
    <3>4. QED
      BY <2>2, <2>4, <3>3
  <2>5. QED
    BY <2>1, <2>3, <2>4
<1>7. ASSUME M!RevokeOne(r), faults' = faults
      PROVE  Goal
  <2>1. /\ call[r].step = "revoke" /\ M!Goto(r, "done")
        /\ M!RevokeMandate(call[r].about, u)
    BY <1>7 DEF M!RevokeOne, M!At, M!End
  <2>2. GoesTo(r, "done")
    BY <2>1, GoesToFacts
  <2>3. DefaultInv(u)'
    BY <2>1, <2>2, RevokeStatement
  <2>4. QED
    BY <2>1, <2>2, <2>3
<1>8. ASSUME EndsIdle(r), faults' # 0
      PROVE  Goal
  <2>1. M!Goto(r, "done") /\ call[r].step # "done" /\ UNCHANGED mandate
    BY <1>8 DEF EndsIdle, M!End
  <2>2. GoesTo(r, "done")
    BY <2>1, GoesToFacts
  <2>3. RowsGrow
    BY <2>1, SameRowsGrow
  <2>4. Recorded(u)' /\ Referred(u)'
    BY <2>1, <2>2, <2>3, OwnRecorded, OwnReferred
  <2>5. OneDefault(u)'
    BY <2>1 DEF DefaultInv, OneDefault, M!DefaultsOf, M!ListUserMandates
  <2>6. DefaultInv(u)'
    BY <1>8, <2>4, <2>5 DEF DefaultInv
  <2>7. QED
    BY <2>1, <2>2, <2>6
<1>9. QED
  <2>1. CASE M!Step(r) /\ faults' = faults
    BY <1>1, <1>2, <1>3, <1>4, <1>5, <1>6, <1>7, <2>1 DEF M!Step
  <2>2. CASE M!Errs(r) /\ faults' # 0
    <3>1. M!List(r, TRUE) \/ M!UnsetFirst(r, TRUE) \/ EndsIdle(r)
      BY <2>2 DEF M!Errs, M!At, EndsIdle
    <3>2. QED
      BY <1>1, <1>2, <1>8, <2>2, <3>1
  <2>3. QED
    BY <2>1, <2>2

\* A call that begins is not in anybody's way yet.
LEMMA BeginStep ==
    ASSUME AccessInv, NEW r \in Request, HandleMandates(r),
           NEW u \in Phone, DefaultInv(u)
    PROVE  DefaultInv(u)'
<1>1. PICK about \in AuthCode \cup DOMAIN mandate,
           step \in {"list", "unset", "revoke"} :
              /\ M!Begins(r, Caller(r), about, step)
              /\ step # "list" => about \in DOMAIN mandate
  BY DEF HandleMandates, M!VerifyMandate, M!SetDefault, M!Revoke
<1>2. at[r] = "handle" /\ faults' = faults
  BY DEF HandleMandates, NoFault
<1>3. r \notin DOMAIN call
  BY <1>2 DEF AccessInv, CallsOK
<1> DEFINE new == [user |-> Caller(r), about |-> about, step |-> step,
                   isFirst |-> FALSE]
<1>4. UNCHANGED mandate /\ call' = M!With(call, r, new)
  BY <1>1 DEF M!Begins
<1>5. new.user = Caller(r) /\ new.about = about /\ new.step = step
  OBVIOUS
<1> HIDE DEF new
<1>6. /\ DOMAIN call' = DOMAIN call \cup {r}
      /\ \A q \in DOMAIN call : call'[q] = call[q]
      /\ call'[r] = new
  BY <1>3, <1>4 DEF M!With
<1>7. /\ M!ListUserMandates(u)' = M!ListUserMandates(u)
      /\ M!DefaultsOf(u)' = M!DefaultsOf(u)
  BY <1>4 DEF M!DefaultsOf, M!ListUserMandates
<1>8. OneDefault(u)' /\ Recorded(u)'
  BY <1>4, <1>6, <1>7 DEF DefaultInv, OneDefault, Recorded
<1>9. Referred(u)'
  BY <1>1, <1>4, <1>5, <1>6 DEF DefaultInv, Referred
<1>10. ASSUME faults' = 0, M!Orderly(u)'
       PROVE  Chosen(u)'
  <2>1. RowsGrow /\ CallsGrow
    BY <1>4, <1>6 DEF RowsGrow, CallsGrow
  <2>2. M!Orderly(u)
    BY <1>6, <1>10, <2>1, OrderlyBefore DEF DefaultInv
  <2>3. Chosen(u)
    BY <1>2, <1>10, <2>2 DEF DefaultInv
  <2>4. \A q \in DOMAIN call' :
           call'[q].user = u /\ call'[q].step = "create" /\ ~call'[q].isFirst =>
              M!ListUserMandates(u)' # {}
    BY <1>1, <1>5, <1>6, <1>7, <2>3 DEF Chosen
  <2>5. \A q \in DOMAIN call : Choosing(q, u) => Choosing(q, u)'
    BY <1>6 DEF Choosing
  <2>6. QED
    BY <1>6, <1>7, <2>3, <2>4, <2>5 DEF Chosen
<1>11. QED
  BY <1>8, <1>9, <1>10 DEF DefaultInv

LEMMA HandledDefaults ==
    ASSUME AccessInv, NEW r \in Request, Handled(r),
           \A u \in Phone : DefaultInv(u)
    PROVE  \A u \in Phone : DefaultInv(u)'
<1>1. r \in DOMAIN call
  BY DEF Handled, M!Step, M!Errs, M!List, M!UnsetFirst, M!Create,
         M!CreateConflicts, M!Unset, M!Set, M!RevokeOne, M!At
<1>2. M!TypeOK /\ call[r].user \in Phone
  BY <1>1 DEF AccessInv, CallsOK, M!TypeOK, M!Call
<1>3. call[r].step \in Verifying => call[r].about \in AuthCode
  BY <1>1 DEF AccessInv, CallsOK
<1>4. \/ M!Step(r) /\ faults' = faults
      \/ M!Errs(r) /\ faults' # 0
  BY DEF Handled, NoFault, Fault, AccessInv, SessionsOK
<1>5. faults' = 0 => faults = 0
  BY DEF Handled, NoFault, Fault, AccessInv, SessionsOK
<1> PICK w \in Phone : w = call[r].user
  BY <1>2
<1>6. /\ DefaultInv(w)'
      /\ \E step : GoesTo(r, step)
      /\ \/ UNCHANGED mandate
         \/ M!UnsetDefaultMandate(w)
         \/ \E m, c, d : M!CreateMandate(m, w, c, d)
         \/ \E m : M!SetDefaultMandate(m, w)
         \/ \E m : M!RevokeMandate(m, w)
  BY <1>1, <1>2, <1>3, <1>4, OwnStep
<1>7. PICK step : GoesTo(r, step)
  BY <1>6
<1>8. ASSUME NEW u \in Phone, u # w
      PROVE  DefaultInv(u)'
  <2>1. Spared(u)
    BY <1>1, <1>2, <1>6, <1>7, <1>8, OthersSpared
  <2>2. QED
    BY <1>5, <2>1, SparedInv
<1>9. QED
  BY <1>6, <1>8

\* All other steps leave the mandates alone.
LEMMA OtherSteps ==
    ASSUME AccessInv, [Next]_vars,
           ~ \E r \in Request : HandleMandates(r) \/ Handled(r)
    PROVE  UNCHANGED <<mandate, call>> /\ (faults' = 0 => faults = 0)
<1>1. NoFault \/ Fault => (faults' = 0 => faults = 0)
  BY DEF NoFault, Fault, AccessInv, SessionsOK
<1>2. ASSUME NEW p \in Phone,
             \/ \E a \in Asker : RequestOTP(a, p)
             \/ \E x \in SignIn, typed \in 0..Len(otp[p]) : VerifyOTP(x, p, typed)
             \/ CodeLapses(p)
      PROVE  UNCHANGED <<mandate, call>> /\ NoFault
  BY <1>2 DEF RequestOTP, VerifyOTP, CodeLapses
<1>3. ASSUME NEW x, AskerStep(x) \/ SignInStep(x)
      PROVE  UNCHANGED <<mandate, call>> /\ NoFault
  BY <1>3 DEF AskerStep, ExpirePreviousOTPs, CreateOTPRequest, SignInStep,
              Count, MarkOTPVerified, GetUserByPhone, CreateUser,
              CreateDeviceSession
<1>4. ASSUME NEW r \in Request,
             RequestStep(r) \/ \E s \in Session : Arrive(r, s)
      PROVE  UNCHANGED <<mandate, call>> /\ (NoFault \/ Fault)
  BY <1>4 DEF RequestStep, Arrive, CheckSession, CheckUser, Revoke,
              RevokeAllOthers, RevokeOthers, Lock, LockLookup, LockOthersErrs,
              LockOwn
<1>5. ASSUME NEW x \in Thread, Errs(x)
      PROVE  UNCHANGED <<mandate, call>> /\ Fault
  BY <1>5 DEF Errs
<1>6. CASE UNCHANGED vars
  BY <1>6 DEF vars
<1>7. QED
  BY <1>1, <1>2, <1>3, <1>4, <1>5, <1>6 DEF Next

DefaultsInv == \A u \in Phone : DefaultInv(u)

LEMMA DefaultsKept ==
    ASSUME AccessInv, DefaultsInv, [Next]_vars
    PROVE  DefaultsInv'
<1>1. CASE \E r \in Request : HandleMandates(r)
  BY <1>1, BeginStep DEF DefaultsInv
<1>2. CASE \E r \in Request : Handled(r)
  BY <1>2, HandledDefaults DEF DefaultsInv
<1>3. CASE ~ \E r \in Request : HandleMandates(r) \/ Handled(r)
  <2>1. UNCHANGED <<mandate, call>> /\ (faults' = 0 => faults = 0)
    BY <1>3, OtherSteps
  <2>2. \A u \in Phone : Spared(u)
    BY <2>1 DEF Spared
  <2>3. QED
    BY <2>1, <2>2, SparedInv DEF DefaultsInv
<1>4. QED
  BY <1>1, <1>2, <1>3

LEMMA DefaultsHold == Spec => []DefaultsInv
<1>1. Init => DefaultsInv
  <2> SUFFICES ASSUME Init, NEW u \in Phone PROVE DefaultInv(u)
    BY DEF DefaultsInv
  <2>1. DOMAIN mandate = {} /\ DOMAIN call = {}
    BY DEF Init, M!Init
  <2>2. M!ListUserMandates(u) = {} /\ M!DefaultsOf(u) = {}
    BY <2>1 DEF M!ListUserMandates, M!DefaultsOf
  <2>3. QED
    BY <2>1, <2>2 DEF DefaultInv, OneDefault, Recorded, Referred, Chosen
<1>2. QED
  BY <1>1, AccessHolds, DefaultsKept, PTL DEF Spec

\* However many requests of a user verify mandates and choose the default at
\* the same time, when they have returned exactly one mandate is the default,
\* unless a statement failed, a code was verified twice or one was revoked.
THEOREM OneDefaultStays == Spec => []DefaultRemains
<1>1. AccessInv /\ DefaultsInv => DefaultRemains
  <2> SUFFICES ASSUME AccessInv, DefaultsInv, faults = 0, NEW u \in Phone,
                      M!Orderly(u), M!Settled(u), M!ListUserMandates(u) # {}
               PROVE  \E m \in Mandate : M!DefaultsOf(u) = {m}
    BY DEF DefaultRemains, M!OneDefaultRemains
  <2>1. OneDefault(u) /\ Chosen(u)
    BY DEF DefaultsInv, DefaultInv
  <2>2. \A r \in DOMAIN call : ~Choosing(r, u)
    BY DEF M!Settled, M!At, Choosing
  <2>3. PICK m : m \in M!DefaultsOf(u)
    BY <2>1, <2>2 DEF Chosen
  <2>4. M!DefaultsOf(u) = {m}
    BY <2>1, <2>3 DEF OneDefault
  <2>5. m \in Mandate
    BY <2>3 DEF M!DefaultsOf, M!ListUserMandates, AccessInv, CallsOK, M!TypeOK
  <2>6. QED
    BY <2>4, <2>5
<1>2. QED
  BY <1>1, AccessHolds, DefaultsHold, PTL
=============================================================================
