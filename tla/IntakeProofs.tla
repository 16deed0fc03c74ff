---------------------------- MODULE IntakeProofs ----------------------------
(***************************************************************************)
(* A token never has two holders and is good for one payment, as Voucher   *)
(* has it, and no payment is above the limit: for any number of tokens,    *)
(* requests, payments and faults, and whatever the rest of the system does *)
(* to the payments within Lifecycle.                                       *)
(***************************************************************************)
EXTENDS Intake, TLAPS

\* At which steps a request is about a token, and at which about a payment.
Stages ==
    \A r \in Request :
        /\ at[r] # "idle" => r \in DOMAIN req
        /\ at[r] \in {"claim", "receiver", "failToken"} => Pays(r)
        /\ at[r] = "original" => ~Pays(r)

\* What a request or a payment refers to is in the database.
Sources ==
    /\ \A r \in DOMAIN req : req[r].source \in DOMAIN token \cup DOMAIN payment
    /\ \A p \in DOMAIN payment :
          payment[p].source \in Token => payment[p].source \in DOMAIN token

Wellformed == TypeOK /\ Stages /\ Sources

-----------------------------------------------------------------------------
(* The parts of the state and what the building blocks keep of them.       *)

TokensOK ==
    /\ DOMAIN token \subseteq Token
    /\ \A t \in DOMAIN token : token[t] \in TokenRow

PaymentsOK ==
    /\ DOMAIN payment \subseteq Payment
    /\ \A p \in DOMAIN payment : payment[p] \in PaymentRow

RequestsOK ==
    /\ DOMAIN req \subseteq Request
    /\ \A r \in DOMAIN req : req[r] \in Ask
    /\ at \in [Request -> Step]

CapsOK ==
    /\ DOMAIN cap \subseteq Capper \X User
    /\ \A pair \in DOMAIN cap : cap[pair] \in Cap \ {0}

LEMMA TypeParts ==
    TypeOK <=> /\ TokensOK /\ PaymentsOK /\ RequestsOK /\ CapsOK
               /\ faults \in 0..MaxFaults
BY DEF TypeOK, TokensOK, PaymentsOK, RequestsOK, CapsOK

LEMMA FaultType ==
    ASSUME TypeOK, Fault \/ NoFault
    PROVE  faults' \in 0..MaxFaults
BY IntakeAssumption DEF TypeOK, Fault, NoFault

\* What a statement may do to a row that is there.
PaymentKept(row, new) == new \in PaymentRow /\ new.source = row.source

LEMMA TokenFields ==
    ASSUME NEW row \in TokenRow
    PROVE  /\ [row EXCEPT !.lapsed = TRUE] \in TokenRow
           /\ \A s \in TokenStatus : [row EXCEPT !.status = s] \in TokenRow
BY DEF TokenRow

LEMMA PaymentFields ==
    ASSUME NEW row \in PaymentRow
    PROVE  /\ PaymentKept(row, row)
           /\ PaymentKept(row, [row EXCEPT !.recent = FALSE])
           /\ \A s \in PaymentStatus : PaymentKept(row, [row EXCEPT !.status = s])
<1>1. [row EXCEPT !.recent = FALSE] \in PaymentRow
  BY DEF PaymentRow
<1>2. \A s \in PaymentStatus : [row EXCEPT !.status = s] \in PaymentRow
  BY DEF PaymentRow
<1>3. QED
  BY <1>1, <1>2 DEF PaymentRow, PaymentKept

TokensGrow == TokensOK' /\ DOMAIN token \subseteq DOMAIN token'

PaymentsGrow ==
    /\ PaymentsOK'
    /\ DOMAIN payment \subseteq DOMAIN payment'
    /\ \A p \in DOMAIN payment : payment'[p].source = payment[p].source

LEMMA TokenWritten ==
    ASSUME TokensOK, NEW t, NEW s \in TokenStatus,
           token' = [token EXCEPT ![t].status = s]
    PROVE  TokensGrow
<1>1. DOMAIN token' = DOMAIN token
  OBVIOUS
<1>2. ASSUME NEW x \in DOMAIN token PROVE token'[x] \in TokenRow
  <2>1. token[x] \in TokenRow
    BY DEF TokensOK
  <2>2. token'[x] = token[x] \/ token'[x] = [token[x] EXCEPT !.status = s]
    OBVIOUS
  <2>3. QED
    BY <2>1, <2>2, TokenFields
<1>3. QED
  BY <1>1, <1>2 DEF TokensOK, TokensGrow

LEMMA TokensSame ==
    ASSUME TokensOK, UNCHANGED token
    PROVE  TokensGrow
BY DEF TokensOK, TokensGrow

LEMMA PaymentsSame ==
    ASSUME PaymentsOK, UNCHANGED payment
    PROVE  PaymentsGrow
BY DEF PaymentsOK, PaymentsGrow

LEMMA IssueTokens ==
    ASSUME TokensOK, NEW t \in Token, NEW u \in User, NEW amount \in Amount,
           Issue(t, u, amount)
    PROVE  TokensGrow
<1>1. /\ DOMAIN token' = DOMAIN token \cup {t}
      /\ \A x \in DOMAIN token : token'[x] = token[x]
      /\ token'[t] = [status |-> "created", issuer |-> u, amount |-> amount,
                      lapsed |-> FALSE]
  BY DEF Issue, With
<1>2. token'[t] \in TokenRow
  BY <1>1 DEF TokenRow, TokenStatus
<1>3. QED
  BY <1>1, <1>2 DEF TokensOK, TokensGrow

LEMMA LapseTokens ==
    ASSUME TokensOK, NEW t, Lapse(t)
    PROVE  TokensGrow
<1>1. DOMAIN token' = DOMAIN token
  BY DEF Lapse
<1>2. ASSUME NEW x \in DOMAIN token PROVE token'[x] \in TokenRow
  <2>1. token[x] \in TokenRow
    BY DEF TokensOK
  <2>2. token'[x] = token[x] \/ token'[x] = [token[x] EXCEPT !.lapsed = TRUE]
    BY DEF Lapse
  <2>3. QED
    BY <2>1, <2>2, TokenFields
<1>3. QED
  BY <1>1, <1>2 DEF TokensOK, TokensGrow

LEMMA ExpireTokens ==
    ASSUME TokensOK, ExpireStaleTokens
    PROVE  TokensGrow
<1>1. DOMAIN token' = DOMAIN token
  BY DEF ExpireStaleTokens
<1>2. ASSUME NEW x \in DOMAIN token PROVE token'[x] \in TokenRow
  <2>1. token[x] \in TokenRow
    BY DEF TokensOK
  <2>2. token'[x] = token[x] \/ token'[x] = [token[x] EXCEPT !.status = "expired"]
    BY DEF ExpireStaleTokens
  <2>3. "expired" \in TokenStatus
    BY DEF TokenStatus
  <2>4. QED
    BY <2>1, <2>2, <2>3, TokenFields
<1>3. QED
  BY <1>1, <1>2 DEF TokensOK, TokensGrow

LEMMA PaymentWritten ==
    ASSUME PaymentsOK, NEW p,
           \/ \E s \in PaymentStatus : payment' = [payment EXCEPT ![p].status = s]
           \/ payment' = [payment EXCEPT ![p].recent = FALSE]
    PROVE  PaymentsGrow
<1>1. DOMAIN payment' = DOMAIN payment
  OBVIOUS
<1>2. ASSUME NEW x \in DOMAIN payment PROVE PaymentKept(payment[x], payment'[x])
  <2>1. payment[x] \in PaymentRow
    BY DEF PaymentsOK
  <2>2. \/ payment'[x] = payment[x]
        \/ \E s \in PaymentStatus : payment'[x] = [payment[x] EXCEPT !.status = s]
        \/ payment'[x] = [payment[x] EXCEPT !.recent = FALSE]
    OBVIOUS
  <2>3. QED
    BY <2>1, <2>2, PaymentFields
<1>3. QED
  BY <1>1, <1>2 DEF PaymentsOK, PaymentsGrow, PaymentKept

LEMMA GotoType ==
    ASSUME RequestsOK, NEW r \in Request, NEW s \in Step, Goto(r, s), UNCHANGED req
    PROVE  RequestsOK'
BY DEF RequestsOK, Goto

LEMMA BeginType ==
    ASSUME TypeOK, NEW r \in Request, NEW ask \in Ask, Begin(r, ask)
    PROVE  RequestsOK'
<1>1. /\ DOMAIN req' = DOMAIN req \cup {r}
      /\ req'[r] = ask
      /\ \A q \in DOMAIN req \ {r} : req'[q] = req[q]
  BY DEF Begin, With
<1>2. \E s \in Step : at' = [at EXCEPT ![r] = s]
  BY DEF Begin, Goto, Step
<1>3. QED
  BY <1>1, <1>2 DEF TypeOK, RequestsOK

LEMMA SourceRows ==
    ASSUME Wellformed, NEW r \in DOMAIN req
    PROVE  /\ Pays(r) => req[r].source \in DOMAIN token
           /\ ~Pays(r) => req[r].source \in DOMAIN payment
BY IntakeAssumption DEF Wellformed, Sources, TypeOK, Pays

LEMMA CreateType ==
    ASSUME Wellformed, NEW r \in Request, NEW p \in Payment, CreatePayment(r, p)
    PROVE  PaymentsGrow
<1> DEFINE new == [status |-> "initiated", key |-> req[r].key,
                   source |-> req[r].source, sender |-> req[r].user,
                   receiver |-> Receiver(r), amount |-> AmountOf(r),
                   recent |-> TRUE]
<1>1. TypeOK /\ PaymentsOK /\ r \in DOMAIN req /\ req[r] \in Ask
  BY TypeParts DEF Wellformed, Stages, CreatePayment, TypeOK
<1>2. Receiver(r) \in User /\ AmountOf(r) \in Amount
  <2>1. ASSUME Pays(r) PROVE Receiver(r) \in User /\ AmountOf(r) \in Amount
    <3>1. token[req[r].source] \in TokenRow
      BY <1>1, <2>1, SourceRows DEF TypeOK
    <3>2. QED
      BY <2>1, <3>1 DEF Receiver, AmountOf, TokenRow
  <2>2. ASSUME ~Pays(r) PROVE Receiver(r) \in User /\ AmountOf(r) \in Amount
    <3>1. payment[req[r].source] \in PaymentRow
      BY <1>1, <2>2, SourceRows DEF TypeOK
    <3>2. QED
      BY <1>1, <2>2, <3>1 DEF Receiver, AmountOf, PaymentRow, Ask
  <2>3. QED
    BY <2>1, <2>2
<1>3. new \in PaymentRow
  BY <1>1, <1>2 DEF Ask, PaymentRow, PaymentStatus
<1>4. CASE p \notin DOMAIN payment /\ payment' = With(payment, p, new)
  <2>1. /\ DOMAIN payment' = DOMAIN payment \cup {p}
        /\ payment'[p] = new
        /\ \A x \in DOMAIN payment : payment'[x] = payment[x]
    BY <1>4 DEF With
  <2> HIDE DEF new
  <2>2. QED
    BY <1>1, <1>3, <2>1 DEF PaymentsOK, PaymentsGrow
<1>5. CASE UNCHANGED payment
  BY <1>1, <1>5, PaymentsSame
<1>6. QED
  BY <1>4, <1>5 DEF CreatePayment

-----------------------------------------------------------------------------
(* Every step keeps the rows wellformed.                                   *)

LEMMA WellformedInit == Init => Wellformed
<1> SUFFICES ASSUME Init PROVE Wellformed
  OBVIOUS
<1>1. DOMAIN token = {} /\ DOMAIN payment = {} /\ DOMAIN req = {}
  BY DEF Init
<1>2. at \in [Request -> Step] /\ \A r \in Request : at[r] = "idle"
  BY DEF Init, Step
<1>3. faults \in 0..MaxFaults
  BY IntakeAssumption DEF Init
<1>4. DOMAIN cap = {}
  BY DEF Init
<1>5. QED
  BY <1>1, <1>2, <1>3, <1>4 DEF Wellformed, TypeOK, Stages, Sources

LEMMA SourcesKept ==
    ASSUME Wellformed, TokensGrow, PaymentsGrow, UNCHANGED req,
           DOMAIN payment' = DOMAIN payment
    PROVE  Sources'
BY DEF Wellformed, Sources, TokensGrow, PaymentsGrow

\* A request that has begun goes on.
LEMMA StepKeeps ==
    ASSUME Wellformed, UNCHANGED req, NEW r \in Request, at[r] # "idle",
           NEW s \in Step \ {"idle", "claim", "original"},
           s \in {"receiver", "failToken"} => Pays(r),
           Goto(r, s)
    PROVE  RequestsOK' /\ Stages'
<1>1. RequestsOK'
  BY TypeParts, GotoType DEF Wellformed
<1>2. at'[r] = s /\ \A q \in Request \ {r} : at'[q] = at[q]
  BY DEF Goto, Wellformed, TypeOK
<1>3. \A q : Pays(q)' = Pays(q)
  BY DEF Pays
<1>4. QED
  BY <1>1, <1>2, <1>3 DEF Stages, Wellformed

\* Where a request may go on to.
Onward(r) ==
    \E s \in Step \ {"idle", "claim", "original"} :
        /\ s \in {"receiver", "failToken"} => Pays(r)
        /\ Goto(r, s)

LEMMA RequestKeeps ==
    ASSUME Wellformed, NEW r \in Request, RequestStep(r) \/ Disconnect(r)
    PROVE  /\ Onward(r) /\ at[r] # "idle" /\ UNCHANGED req
           /\ faults' \in 0..MaxFaults
<1>1. TypeOK /\ (at[r] \in {"claim", "receiver", "failToken"} => Pays(r))
  BY DEF Wellformed, Stages
<1>2. CASE Claim(r)
  BY <1>1, <1>2, FaultType DEF Claim, Onward, Step
<1>3. CASE LoadReceiver(r)
  BY <1>1, <1>3, FaultType DEF LoadReceiver, Onward, Step
<1>4. CASE LoadOriginal(r)
  BY <1>1, <1>4, FaultType DEF LoadOriginal, Onward, Step
<1>5. CASE EnforceTxLimit(r) \/ EnforceDayLimit(r)
  <2>1. /\ at[r] # "idle" /\ UNCHANGED req /\ (Fault \/ NoFault)
        /\ \/ Goto(r, "dayLimit") \/ Goto(r, "insert")
           \/ Goto(r, IF Pays(r) THEN "failToken" ELSE "done")
    BY <1>5 DEF EnforceTxLimit, EnforceDayLimit, Refuse
  <2>2. QED
    BY <1>1, <2>1, FaultType DEF Onward, Step
<1>6. CASE FailToken(r)
  BY <1>1, <1>6, FaultType DEF FailToken, Onward, Step
<1>7. CASE \E p \in Payment : CreatePayment(r, p)
  BY <1>1, <1>7, FaultType DEF CreatePayment, Onward, Step
<1>8. CASE Disconnect(r)
  BY <1>1, <1>8, FaultType DEF Disconnect, Onward, Step
<1>9. QED
  BY <1>2, <1>3, <1>4, <1>5, <1>6, <1>7, <1>8 DEF RequestStep

LEMMA RequestRows ==
    ASSUME Wellformed, NEW r \in Request, RequestStep(r) \/ Disconnect(r)
    PROVE  TokensGrow /\ PaymentsGrow /\ Sources'
<1>1. TokensOK /\ PaymentsOK /\ UNCHANGED req
  BY TypeParts, RequestKeeps DEF Wellformed
<1>2. CASE Claim(r) \/ FailToken(r)
  <2>1. UNCHANGED payment
    BY <1>2 DEF Claim, FailToken
  <2>2. \/ UNCHANGED token
        \/ \E t : \E s \in TokenStatus : token' = [token EXCEPT ![t].status = s]
    BY <1>2 DEF Claim, FailToken, ClaimToken, MarkTokenFailed, TokenStatus
  <2>3. TokensGrow
    BY <2>2, <1>1, TokensSame, TokenWritten
  <2>4. QED
    BY <2>1, <2>3, <1>1, PaymentsSame, SourcesKept
<1>3. CASE LoadReceiver(r) \/ LoadOriginal(r) \/ EnforceTxLimit(r)
           \/ EnforceDayLimit(r) \/ Disconnect(r)
  <2>1. UNCHANGED <<token, payment>>
    BY <1>3 DEF LoadReceiver, LoadOriginal, EnforceTxLimit,
                        EnforceDayLimit, Disconnect
  <2>2. QED
    BY <2>1, <1>1, TokensSame, PaymentsSame, SourcesKept
<1>4. ASSUME NEW p \in Payment, CreatePayment(r, p)
      PROVE  TokensGrow /\ PaymentsGrow /\ Sources'
  <2>1. UNCHANGED token /\ TokensGrow
    BY <1>1, <1>4, TokensSame DEF CreatePayment
  <2>2. PaymentsGrow
    BY <1>4, CreateType
  <2>3. r \in DOMAIN req
    BY <1>4 DEF Wellformed, Stages, CreatePayment
  <2>4. \/ UNCHANGED payment
        \/ /\ DOMAIN payment' = DOMAIN payment \cup {p}
           /\ payment'[p].source = req[r].source
           /\ \A x \in DOMAIN payment : payment'[x] = payment[x]
    BY <1>4 DEF CreatePayment, With
  <2>5. req[r].source \in Token => req[r].source \in DOMAIN token
    BY <2>3, SourceRows DEF Pays
  <2>6. Sources'
    BY <1>1, <2>1, <2>4, <2>5 DEF Sources, Wellformed
  <2>7. QED
    BY <2>1, <2>2, <2>6
<1>5. QED
  BY <1>2, <1>3, <1>4 DEF RequestStep

LEMMA BeginKeeps ==
    ASSUME Wellformed, NEW r \in Request,
           NEW ask \in [user : User, key : Key, amount : Amount,
                        source : DOMAIN token \cup DOMAIN payment],
           Begin(r, ask)
    PROVE  Wellformed'
<1>1. TypeOK /\ TokensOK /\ PaymentsOK /\ UNCHANGED <<token, payment>>
  BY TypeParts DEF Wellformed, Begin
<1>2. ask \in Ask
  BY <1>1 DEF Ask, TypeOK
<1>3. TypeOK'
  <2>1. RequestsOK' /\ faults' \in 0..MaxFaults
    BY <1>1, <1>2, BeginType, FaultType DEF Begin
  <2>2. TokensOK' /\ PaymentsOK' /\ CapsOK'
    BY <1>1, TypeParts DEF TokensOK, PaymentsOK, CapsOK, Begin
  <2>3. QED
    BY <2>1, <2>2 DEF TypeOK, TokensOK, PaymentsOK, RequestsOK, CapsOK
<1>4. /\ DOMAIN req' = DOMAIN req \cup {r}
      /\ req'[r] = ask
      /\ \A q \in DOMAIN req \ {r} : req'[q] = req[q]
  BY DEF Begin, With
<1>5. /\ at'[r] \in {"claim", "original", "done"}
      /\ at'[r] = "claim" => ask.source \in Token
      /\ at'[r] = "original" => ask.source \notin Token
      /\ \A q \in Request \ {r} : at'[q] = at[q]
  BY <1>1 DEF Begin, Goto, TypeOK
<1>6. Stages'
  <2>1. ASSUME NEW q \in Request \ {r}, at[q] # "idle"
        PROVE  q \in DOMAIN req' /\ Pays(q)' = Pays(q)
    BY <2>1, <1>4 DEF Wellformed, Stages, Pays
  <2>2. QED
    BY <2>1, <1>4, <1>5 DEF Wellformed, Stages, Pays
<1>7. Sources'
  BY <1>1, <1>4 DEF Wellformed, Sources
<1>8. QED
  BY <1>3, <1>6, <1>7 DEF Wellformed

\* The clock, the sweep and the payments that exist.
Background ==
    \/ \E t \in Token :
         \/ \E u \in User, amount \in Amount : Issue(t, u, amount)
         \/ Lapse(t)
    \/ ExpireStaleTokens
    \/ \E p \in Payment : Advance(p) \/ EndToken(p) \/ Age(p)
    \/ \E u \in Capper, merchant \in User :
         (\E kobo \in Cap : Upsert(u, merchant, kobo)) \/ Delete(u, merchant)
    \/ UNCHANGED vars

LEMMA BackgroundRows ==
    ASSUME Wellformed, Background
    PROVE  /\ TokensGrow /\ PaymentsGrow /\ UNCHANGED <<req, at>>
           /\ DOMAIN payment' = DOMAIN payment
           /\ faults' \in 0..MaxFaults
<1>1. TypeOK /\ TokensOK /\ PaymentsOK
  BY TypeParts DEF Wellformed
<1> DEFINE Goal == /\ TokensGrow /\ PaymentsGrow /\ UNCHANGED <<req, at>>
                   /\ DOMAIN payment' = DOMAIN payment
                   /\ faults' \in 0..MaxFaults
<1>2. ASSUME NEW t \in Token, NEW u \in User, NEW amount \in Amount,
             Issue(t, u, amount)
      PROVE  Goal
  BY <1>1, <1>2, IssueTokens, PaymentsSame, FaultType DEF Issue
<1>3. ASSUME NEW t \in Token, Lapse(t) PROVE Goal
  BY <1>1, <1>3, LapseTokens, PaymentsSame, FaultType DEF Lapse
<1>4. CASE ExpireStaleTokens
  BY <1>1, <1>4, ExpireTokens, PaymentsSame, FaultType DEF ExpireStaleTokens
<1>5. ASSUME NEW p \in Payment, Advance(p) PROVE Goal
  BY <1>1, <1>5, PaymentWritten, TokensSame, FaultType DEF Advance
<1>6. ASSUME NEW p \in Payment, EndToken(p) PROVE Goal
  <2>1. \E t : \E s \in TokenStatus : token' = [token EXCEPT ![t].status = s]
    BY <1>6 DEF EndToken, TokenStatus
  <2>2. QED
    BY <2>1, <1>1, <1>6, TokenWritten, PaymentsSame, FaultType DEF EndToken
<1>7. ASSUME NEW p \in Payment, Age(p) PROVE Goal
  BY <1>1, <1>7, PaymentWritten, TokensSame, FaultType DEF Age
<1>8. CASE UNCHANGED vars
  BY <1>1, <1>8, TokensSame, PaymentsSame DEF vars, TypeOK
<1>9. ASSUME NEW u, NEW merchant, NEW kobo,
             Upsert(u, merchant, kobo) \/ Delete(u, merchant)
      PROVE  Goal
  <2>1. /\ UNCHANGED <<token, payment, req, at>>
        /\ faults' \in 0..MaxFaults
    BY <1>9, <1>1, FaultType DEF Upsert, Delete
  <2>2. QED
    BY <2>1, <1>1, TokensSame, PaymentsSame
<1>10. QED
  BY <1>2, <1>3, <1>4, <1>5, <1>6, <1>7, <1>8, <1>9 DEF Background

LEMMA Steps ==
    ASSUME [Next]_vars
    PROVE  \/ Background
           \/ \E r \in Request : RequestStep(r) \/ Disconnect(r)
           \/ \E r \in Request :
                \E ask \in [user : User, key : Key, amount : Amount,
                            source : DOMAIN token \cup DOMAIN payment] :
                    Begin(r, ask)
BY DEF Next, Background

LEMMA CapsKept ==
    ASSUME TypeOK, [Next]_vars
    PROVE  CapsOK'
<1>1. CapsOK
  BY TypeParts
<1>2. CASE UNCHANGED cap
  BY <1>1, <1>2 DEF CapsOK
<1>3. ASSUME NEW u \in Capper, NEW merchant \in User, NEW kobo \in Cap,
             Upsert(u, merchant, kobo)
      PROVE  CapsOK'
  <2>1. /\ DOMAIN cap' = DOMAIN cap \cup {<<u, merchant>>}
        /\ cap'[<<u, merchant>>] = kobo
        /\ \A pair \in DOMAIN cap \ {<<u, merchant>>} : cap'[pair] = cap[pair]
    BY <1>3 DEF Upsert, UpsertTrustedMerchant, With
  <2>2. kobo # 0
    BY <1>3, IntakeAssumption DEF Upsert
  <2>3. <<u, merchant>> \in Capper \X User
    OBVIOUS
  <2>4. QED
    BY <1>1, <2>1, <2>2, <2>3 DEF CapsOK
<1>4. ASSUME NEW u, NEW merchant, Delete(u, merchant) PROVE CapsOK'
  BY <1>1, <1>4 DEF Delete, DeleteTrustedMerchant, CapsOK
<1>5. \/ UNCHANGED cap
      \/ \E u \in Capper, merchant \in User :
           (\E kobo \in Cap : Upsert(u, merchant, kobo)) \/ Delete(u, merchant)
  <2>1. ASSUME NEW r, RequestStep(r) \/ Disconnect(r) PROVE UNCHANGED cap
    BY <2>1 DEF RequestStep, Disconnect, Claim, LoadReceiver, LoadOriginal,
                EnforceTxLimit, EnforceDayLimit, FailToken, CreatePayment
  <2>2. ASSUME NEW r, NEW ask, Begin(r, ask) PROVE UNCHANGED cap
    BY <2>2 DEF Begin
  <2>3. ASSUME NEW t, NEW u, NEW amount, Issue(t, u, amount) \/ Lapse(t)
        PROVE  UNCHANGED cap
    BY <2>3 DEF Issue, Lapse
  <2>4. ASSUME NEW p, Advance(p) \/ EndToken(p) \/ Age(p) PROVE UNCHANGED cap
    BY <2>4 DEF Advance, EndToken, Age
  <2>5. ExpireStaleTokens \/ UNCHANGED vars => UNCHANGED cap
    BY DEF ExpireStaleTokens, vars
  <2>6. QED
    BY <2>1, <2>2, <2>3, <2>4, <2>5 DEF Next
<1>6. QED
  BY <1>2, <1>3, <1>4, <1>5

LEMMA WellformedNext == Wellformed /\ [Next]_vars => Wellformed'
<1> SUFFICES ASSUME Wellformed, [Next]_vars PROVE Wellformed'
  OBVIOUS
<1>1. ASSUME TokensGrow, PaymentsGrow, RequestsOK', faults' \in 0..MaxFaults
      PROVE  TypeOK'
  <2>1. CapsOK'
    BY CapsKept DEF Wellformed
  <2>2. QED
    BY <1>1, <2>1 DEF TypeOK, TokensOK, PaymentsOK, RequestsOK, CapsOK,
                      TokensGrow, PaymentsGrow
<1>2. CASE Background
  <2>1. /\ TokensGrow /\ PaymentsGrow /\ UNCHANGED <<req, at>>
        /\ DOMAIN payment' = DOMAIN payment
        /\ faults' \in 0..MaxFaults
    BY <1>2, BackgroundRows
  <2>2. RequestsOK' /\ Stages'
    BY <2>1 DEF RequestsOK, Stages, Wellformed, TypeOK, Pays
  <2>3. QED
    BY <1>1, <2>1, <2>2, SourcesKept DEF Wellformed
<1>3. ASSUME NEW r \in Request, RequestStep(r) \/ Disconnect(r)
      PROVE  Wellformed'
  <2>1. TokensGrow /\ PaymentsGrow /\ Sources'
    BY <1>3, RequestRows
  <2>2. RequestsOK' /\ Stages' /\ faults' \in 0..MaxFaults
    BY <1>3, RequestKeeps, StepKeeps DEF Onward
  <2>3. QED
    BY <1>1, <2>1, <2>2 DEF Wellformed
<1>4. QED
  BY <1>2, <1>3, BeginKeeps, Steps

\* The variables have their types in every behaviour of the intake.
THEOREM TypeCorrect == Spec => []TypeOK
<1>1. Wellformed => TypeOK
  BY DEF Wellformed
<1>2. QED
  BY <1>1, WellformedInit, WellformedNext, PTL DEF Spec

-----------------------------------------------------------------------------
(* Who holds a token.                                                      *)

Holds(r, t) == r \in DOMAIN req /\ req[r].source = t /\ at[r] \in Holding

Backs(p, t) == p \in DOMAIN payment /\ payment[p].source = t

\* Nobody may hold a token that can be claimed, has expired or was not issued.
Free(t) == t \in DOMAIN token => token[t].status \in {"created", "expired"}

OneHolder(t) ==
    /\ \A r, q \in Request : Holds(r, t) /\ Holds(q, t) => r = q
    /\ \A p, q \in Payment : Backs(p, t) /\ Backs(q, t) => p = q
    /\ \A r \in Request, p \in Payment : ~(Holds(r, t) /\ Backs(p, t))
    /\ Free(t) => /\ \A r \in Request : ~Holds(r, t)
                  /\ \A p \in Payment : ~Backs(p, t)

IntakeInv == Wellformed /\ \A t \in Token : OneHolder(t)

\* Most steps make no new holder and free no token.
LEMMA NoNewHolder ==
    ASSUME NEW t \in Token, OneHolder(t),
           \A r \in Request : Holds(r, t)' => Holds(r, t),
           \A p \in Payment : Backs(p, t)' => Backs(p, t),
           Free(t)' => Free(t)
    PROVE  OneHolder(t)'
BY DEF OneHolder

LEMMA BackgroundHolders ==
    ASSUME IntakeInv, Background, NEW t \in Token
    PROVE  OneHolder(t)'
<1>1. /\ TypeOK /\ Sources /\ OneHolder(t)
      /\ PaymentsGrow /\ UNCHANGED <<req, at>> /\ DOMAIN payment' = DOMAIN payment
  BY BackgroundRows DEF IntakeInv, Wellformed
<1>2. \A r \in Request : Holds(r, t)' => Holds(r, t)
  BY <1>1 DEF Holds
<1>3. \A p \in Payment : Backs(p, t)' => Backs(p, t)
  BY <1>1 DEF Backs, PaymentsGrow
<1>4. Free(t)' => Free(t)
  <2>1. ASSUME NEW x \in Token, NEW u \in User, NEW amount \in Amount,
               Issue(x, u, amount)
        PROVE  Free(t)' => Free(t)
    BY <2>1 DEF Issue, With, Free
  <2>2. ASSUME NEW x \in Token, Lapse(x) PROVE Free(t)' => Free(t)
    <3>1. /\ DOMAIN token' = DOMAIN token
          /\ t \in DOMAIN token => token'[t].status = token[t].status
      BY <2>2, <1>1 DEF Lapse, TypeOK, TokenRow
    <3>2. QED
      BY <3>1 DEF Free
  <2>3. CASE ExpireStaleTokens
    BY <2>3 DEF ExpireStaleTokens, Stale, Free
  <2>4. ASSUME NEW p \in Payment, EndToken(p) PROVE Free(t)' => Free(t)
    <3>1. /\ DOMAIN token' = DOMAIN token
          /\ t \in DOMAIN token =>
               \/ token'[t].status = token[t].status
               \/ token'[t].status \in {"settled", "failed"}
      BY <2>4, <1>1 DEF EndToken, TypeOK, TokenRow
    <3>2. QED
      BY <3>1 DEF Free
  <2>5. ASSUME NEW p \in Payment, Advance(p) \/ Age(p) PROVE UNCHANGED token
    BY <2>5 DEF Advance, Age
  <2>6. ASSUME NEW u, NEW merchant, NEW kobo,
               Upsert(u, merchant, kobo) \/ Delete(u, merchant)
        PROVE  UNCHANGED token
    BY <2>6 DEF Upsert, Delete
  <2>7. UNCHANGED vars => UNCHANGED token
    BY DEF vars
  <2>8. QED
    BY <2>1, <2>2, <2>3, <2>4, <2>5, <2>6, <2>7 DEF Background, Free
<1>5. QED
  BY <1>1, <1>2, <1>3, <1>4, NoNewHolder

LEMMA BeginHolders ==
    ASSUME IntakeInv, NEW r \in Request, NEW ask, Begin(r, ask), NEW t \in Token
    PROVE  OneHolder(t)'
<1>1. TypeOK /\ OneHolder(t) /\ UNCHANGED <<token, payment>>
  BY DEF IntakeInv, Wellformed, Begin
<1>2. /\ at'[r] \notin Holding
      /\ \A q \in Request \ {r} : at'[q] = at[q]
  BY <1>1 DEF Begin, Goto, TypeOK, Holding
<1>3. /\ DOMAIN req' = DOMAIN req \cup {r}
      /\ \A q \in DOMAIN req \ {r} : req'[q] = req[q]
  BY DEF Begin, With
<1>4. \A q \in Request : Holds(q, t)' => Holds(q, t)
  BY <1>2, <1>3 DEF Holds
<1>5. QED
  BY <1>1, <1>4, NoNewHolder DEF Backs, Free

\* A step of a request that neither claims nor inserts.
LEMMA QuietHolders ==
    ASSUME IntakeInv, NEW r \in Request, NEW t \in Token,
           Onward(r), UNCHANGED <<req, payment>>,
           at'[r] \in Holding => at[r] \in Holding \/ ~Pays(r),
           Free(t)' => Free(t)
    PROVE  OneHolder(t)'
<1>1. TypeOK /\ OneHolder(t)
  BY DEF IntakeInv, Wellformed
<1>2. \A q \in Request \ {r} : at'[q] = at[q]
  BY <1>1 DEF Onward, Goto, TypeOK
<1>3. \A q \in Request : Holds(q, t)' => Holds(q, t)
  BY <1>2 DEF Holds, Pays
<1>4. \A p \in Payment : Backs(p, t)' => Backs(p, t)
  BY DEF Backs
<1>5. QED
  BY <1>1, <1>3, <1>4, NoNewHolder

\* The conditional UPDATE finds a token that nobody holds.
LEMMA ClaimHolders ==
    ASSUME IntakeInv, NEW r \in Request, NEW t \in Token, Claim(r)
    PROVE  OneHolder(t)'
<1>1. /\ Wellformed /\ TypeOK /\ OneHolder(t)
      /\ at[r] = "claim" /\ Pays(r) /\ r \in DOMAIN req
      /\ UNCHANGED <<req, payment>> /\ Onward(r)
  BY RequestKeeps DEF IntakeInv, Wellformed, Stages, Claim, RequestStep
<1>2. CASE Goto(r, "done") /\ UNCHANGED token
  <2>1. at'[r] = "done"
    BY <1>1, <1>2 DEF Goto, TypeOK
  <2>2. QED
    BY <1>1, <1>2, <2>1, QuietHolders DEF Holding, Free
<1>3. CASE ClaimToken(req[r].source) /\ Goto(r, "receiver")
  <2>1. /\ req[r].source \in DOMAIN token
        /\ token[req[r].source].status = "created"
        /\ DOMAIN token' = DOMAIN token
        /\ token'[req[r].source].status = "claimed"
        /\ \A x \in DOMAIN token \ {req[r].source} : token'[x] = token[x]
    BY <1>1, <1>3, SourceRows DEF ClaimToken, Claimable, TypeOK, TokenRow
  <2>2. \A q \in Request \ {r} : at'[q] = at[q]
    BY <1>1, <1>3 DEF Goto, TypeOK
  <2>3. CASE req[r].source = t
    <3>1. /\ \A q \in Request : ~Holds(q, t)
          /\ \A p \in Payment : ~Backs(p, t)
      BY <1>1, <2>1, <2>3 DEF OneHolder, Free
    <3>2. \A q \in Request : Holds(q, t)' => q = r
      BY <1>1, <2>2, <3>1 DEF Holds
    <3>3. \A p \in Payment : ~Backs(p, t)'
      BY <1>1, <3>1 DEF Backs
    <3>4. ~Free(t)'
      BY <2>1, <2>3 DEF Free
    <3>5. QED
      BY <3>2, <3>3, <3>4 DEF OneHolder
  <2>4. CASE req[r].source # t
    <3>1. \A q \in Request : Holds(q, t)' => Holds(q, t)
      BY <1>1, <2>2, <2>4 DEF Holds
    <3>2. Free(t)' => Free(t)
      BY <2>1, <2>4 DEF Free
    <3>3. QED
      BY <1>1, <3>1, <3>2, NoNewHolder DEF Backs
  <2>5. QED
    BY <2>3, <2>4
<1>4. QED
  BY <1>2, <1>3 DEF Claim

\* The payment takes the token over from the request.
LEMMA CreateHolders ==
    ASSUME IntakeInv, NEW r \in Request, NEW t \in Token, NEW p \in Payment,
           CreatePayment(r, p)
    PROVE  OneHolder(t)'
<1>1. /\ Wellformed /\ TypeOK /\ OneHolder(t)
      /\ at[r] = "insert" /\ r \in DOMAIN req
      /\ UNCHANGED <<req, token>> /\ Onward(r)
  BY RequestKeeps DEF IntakeInv, Wellformed, Stages, CreatePayment, RequestStep
<1>2. at'[r] = "done" /\ \A q \in Request \ {r} : at'[q] = at[q]
  BY <1>1 DEF CreatePayment, Goto, TypeOK
<1>3. CASE UNCHANGED payment
  BY <1>1, <1>2, <1>3, QuietHolders DEF Holding, Free
<1>4. CASE /\ DOMAIN payment' = DOMAIN payment \cup {p}
           /\ payment'[p].source = req[r].source
           /\ \A x \in DOMAIN payment : payment'[x] = payment[x]
  <2>1. Free(t)' <=> Free(t)
    BY <1>1 DEF Free
  <2>2. \A q \in Request : Holds(q, t)' => Holds(q, t) /\ q # r
    BY <1>1, <1>2 DEF Holds, Holding
  <2>3. CASE req[r].source = t
    <3>1. Holds(r, t)
      BY <1>1, <2>3 DEF Holds, Holding
    <3>2. /\ \A q \in Request : ~Holds(q, t)'
          /\ \A q \in Payment : ~Backs(q, t)
          /\ ~Free(t)
      BY <1>1, <2>2, <3>1 DEF OneHolder
    <3>3. \A q \in Payment : Backs(q, t)' => q = p
      BY <1>4, <3>2 DEF Backs
    <3>4. QED
      BY <2>1, <3>2, <3>3 DEF OneHolder
  <2>4. CASE req[r].source # t
    <3>1. \A q \in Payment : Backs(q, t)' => Backs(q, t)
      BY <1>4, <2>4 DEF Backs
    <3>2. QED
      BY <1>1, <2>1, <2>2, <3>1, NoNewHolder
  <2>5. QED
    BY <2>3, <2>4
<1>5. QED
  BY <1>3, <1>4 DEF CreatePayment, With

LEMMA RequestHolders ==
    ASSUME IntakeInv, NEW r \in Request, NEW t \in Token,
           RequestStep(r) \/ Disconnect(r)
    PROVE  OneHolder(t)'
<1>1. Wellformed /\ TypeOK /\ Onward(r) /\ UNCHANGED req
      /\ (at[r] = "original" => ~Pays(r))
  BY RequestKeeps DEF IntakeInv, Wellformed, Stages
<1>2. CASE LoadReceiver(r) \/ EnforceTxLimit(r) \/ EnforceDayLimit(r)
           \/ Disconnect(r)
  <2>1. UNCHANGED <<token, payment>>
    BY <1>2 DEF LoadReceiver, EnforceTxLimit, EnforceDayLimit, Refuse,
                    Disconnect
  <2>2. at[r] \in Holding \/ at'[r] = "done"
    BY <1>1, <1>2 DEF LoadReceiver, EnforceTxLimit, EnforceDayLimit, Refuse,
                    Disconnect, Goto, Holding, TypeOK
  <2>3. QED
    BY <1>1, <2>1, <2>2, QuietHolders DEF Holding, Free
<1>3. CASE LoadOriginal(r)
  BY <1>1, <1>3, QuietHolders DEF LoadOriginal, Free
<1>4. CASE FailToken(r)
  <2>1. UNCHANGED payment /\ at[r] \in Holding
    BY <1>4 DEF FailToken, Holding
  <2>2. Free(t)' => Free(t)
    <3>1. /\ DOMAIN token' = DOMAIN token
          /\ t \in DOMAIN token =>
               token'[t].status = token[t].status \/ token'[t].status = "failed"
      BY <1>1, <1>4 DEF FailToken, MarkTokenFailed, TypeOK, TokenRow
    <3>2. QED
      BY <3>1 DEF Free
  <2>3. QED
    BY <1>1, <2>1, <2>2, QuietHolders
<1>5. QED
  BY <1>2, <1>3, <1>4, ClaimHolders, CreateHolders DEF RequestStep

-----------------------------------------------------------------------------
LEMMA InvInit == Init => IntakeInv
BY WellformedInit DEF Init, IntakeInv, OneHolder, Holds, Backs

LEMMA InvNext == IntakeInv /\ [Next]_vars => IntakeInv'
<1> SUFFICES ASSUME IntakeInv, [Next]_vars PROVE IntakeInv'
  OBVIOUS
<1>1. Wellformed'
  BY WellformedNext DEF IntakeInv
<1>2. \A t \in Token : OneHolder(t)'
  BY Steps, BackgroundHolders, BeginHolders, RequestHolders
<1>3. QED
  BY <1>1, <1>2 DEF IntakeInv

\* In every behaviour a token belongs to at most one request or payment, and
\* one that may be claimed or has expired to none.
THEOREM OneHolderEver == Spec => []TokenHasOneHolder
<1>1. ASSUME IntakeInv PROVE TokenHasOneHolder
  <2> SUFFICES ASSUME NEW t \in DOMAIN token
               PROVE  /\ \A x, y \in HoldersOf(t) : x = y
                      /\ token[t].status \in {"created", "expired"} =>
                             HoldersOf(t) = {}
    BY DEF TokenHasOneHolder
  <2>1. OneHolder(t)
    BY <1>1 DEF IntakeInv, Wellformed, TypeOK
  <2>2. \A x \in HoldersOf(t) :
            (x \in Request /\ Holds(x, t)) \/ (x \in Payment /\ Backs(x, t))
    BY <1>1 DEF HoldersOf, Holds, Backs, IntakeInv, Wellformed, TypeOK
  <2>3. QED
    BY <2>1, <2>2 DEF OneHolder, Free
<1>2. QED
  BY <1>1, InvInit, InvNext, PTL DEF Spec

\* No step revives a token that has expired.
THEOREM ExpiredStays == Spec => ExpiredIsFinal
<1>1. ASSUME IntakeInv, [Next]_vars, NEW t \in DOMAIN token,
             token[t].status = "expired"
      PROVE  token'[t].status = "expired"
  <2>1. /\ Wellformed /\ TypeOK /\ t \in Token
        /\ \A r \in Request : ~Holds(r, t)
        /\ \A p \in Payment : ~Backs(p, t)
    BY <1>1 DEF IntakeInv, Wellformed, TypeOK, OneHolder, Free
  <2>2. CASE Background
    <3>1. ASSUME NEW x \in Token, NEW u \in User, NEW amount \in Amount,
                 Issue(x, u, amount)
          PROVE  token'[t].status = "expired"
      BY <3>1, <1>1 DEF Issue, With
    <3>2. ASSUME NEW x \in Token, Lapse(x) PROVE token'[t].status = "expired"
      BY <3>2, <1>1, <2>1 DEF Lapse, TypeOK, TokenRow
    <3>3. CASE ExpireStaleTokens
      BY <3>3, <1>1 DEF ExpireStaleTokens, Stale
    <3>4. ASSUME NEW p \in Payment, EndToken(p)
          PROVE  token'[t].status = "expired"
      BY <3>4, <1>1, <2>1 DEF EndToken, Backs
    <3>5. ASSUME NEW p \in Payment, Advance(p) \/ Age(p) PROVE UNCHANGED token
      BY <3>5 DEF Advance, Age
    <3>6. ASSUME NEW u, NEW merchant, NEW kobo,
                 Upsert(u, merchant, kobo) \/ Delete(u, merchant)
          PROVE  UNCHANGED token
      BY <3>6 DEF Upsert, Delete
    <3>7. UNCHANGED vars => UNCHANGED token
      BY DEF vars
    <3>8. QED
      BY <1>1, <2>2, <3>1, <3>2, <3>3, <3>4, <3>5, <3>6, <3>7 DEF Background
  <2>3. ASSUME NEW r \in Request, RequestStep(r) \/ Disconnect(r)
        PROVE  token'[t].status = "expired"
    <3>1. CASE Claim(r)
      BY <3>1, <1>1 DEF Claim, ClaimToken, Claimable
    <3>2. CASE FailToken(r)
      <4>1. req[r].source # t
        BY <3>2, <2>1 DEF FailToken, Holds, Holding, Wellformed, Stages
      <4>2. QED
        BY <4>1, <3>2, <1>1 DEF FailToken, MarkTokenFailed
    <3>3. CASE \/ LoadReceiver(r) \/ LoadOriginal(r) \/ EnforceTxLimit(r)
               \/ EnforceDayLimit(r)
               \/ Disconnect(r) \/ \E p \in Payment : CreatePayment(r, p)
      BY <3>3, <1>1 DEF LoadReceiver, LoadOriginal, EnforceTxLimit,
                        EnforceDayLimit, Disconnect,
                        CreatePayment
    <3>4. QED
      BY <2>3, <3>1, <3>2, <3>3 DEF RequestStep
  <2>4. ASSUME NEW r, NEW ask, Begin(r, ask) PROVE UNCHANGED token
    BY <2>4 DEF Begin
  <2>5. QED
    BY <1>1, <2>2, <2>3, <2>4, Steps
<1>2. IntakeInv /\ [Next]_vars =>
        [\A t \in DOMAIN token :
             token[t].status = "expired" => token'[t].status = "expired"]_vars
  BY <1>1
<1>3. QED
  BY <1>2, InvInit, InvNext, PTL DEF Spec, ExpiredIsFinal

-----------------------------------------------------------------------------
(* The limit of a single payment.                                          *)

\* A row that is there keeps its amount.
TokenAmounts ==
    \A t \in DOMAIN token :
        t \in DOMAIN token' /\ token'[t].amount = token[t].amount

PaymentAmounts ==
    \A p \in DOMAIN payment :
        p \in DOMAIN payment' /\ payment'[p].amount = payment[p].amount

LEMMA TokenAmountsKept ==
    ASSUME TypeOK, [Next]_vars
    PROVE  TokenAmounts
<1>1. \A t \in DOMAIN token : token[t] \in TokenRow
  BY DEF TypeOK
<1>2. ASSUME NEW x, NEW s, token' = [token EXCEPT ![x].status = s]
      PROVE  TokenAmounts
  BY <1>1, <1>2 DEF TokenAmounts, TokenRow
<1>3. UNCHANGED token => TokenAmounts
  BY DEF TokenAmounts
<1>4. ASSUME NEW r, RequestStep(r) \/ Disconnect(r) PROVE TokenAmounts
  <2>1. \/ UNCHANGED token
        \/ \E x, s : token' = [token EXCEPT ![x].status = s]
    BY <1>4 DEF RequestStep, Disconnect, Claim, LoadReceiver, LoadOriginal,
                EnforceTxLimit, EnforceDayLimit, FailToken, CreatePayment,
                ClaimToken, MarkTokenFailed
  <2>2. QED
    BY <2>1, <1>2, <1>3
<1>5. ASSUME NEW r, NEW ask, Begin(r, ask) PROVE TokenAmounts
  BY <1>3, <1>5 DEF Begin
<1>6. ASSUME NEW t, NEW u, NEW amount, Issue(t, u, amount)
      PROVE  TokenAmounts
  BY <1>6 DEF Issue, With, TokenAmounts
<1>7. ASSUME NEW t, Lapse(t) PROVE TokenAmounts
  BY <1>1, <1>7 DEF Lapse, TokenAmounts, TokenRow
<1>8. CASE ExpireStaleTokens
  BY <1>1, <1>8 DEF ExpireStaleTokens, TokenAmounts, TokenRow
<1>9. ASSUME NEW p, Advance(p) \/ EndToken(p) \/ Age(p) PROVE TokenAmounts
  <2>1. \/ UNCHANGED token
        \/ \E x, s : token' = [token EXCEPT ![x].status = s]
    BY <1>9 DEF Advance, EndToken, Age
  <2>2. QED
    BY <2>1, <1>2, <1>3
<1>10. ASSUME NEW u, NEW merchant, NEW kobo,
              Upsert(u, merchant, kobo) \/ Delete(u, merchant)
       PROVE  TokenAmounts
  BY <1>3, <1>10 DEF Upsert, Delete
<1>11. UNCHANGED vars => TokenAmounts
  BY <1>3 DEF vars
<1>12. QED
  BY <1>4, <1>5, <1>6, <1>7, <1>8, <1>9, <1>10, <1>11 DEF Next

\* What changes a payment that is there.
LEMMA PaymentAmountsKept ==
    ASSUME TypeOK, [Next]_vars
    PROVE  PaymentAmounts
<1>1. \A p \in DOMAIN payment : payment[p] \in PaymentRow
  BY DEF TypeOK
<1>2. UNCHANGED payment => PaymentAmounts
  BY DEF PaymentAmounts
<1>3. ASSUME NEW p, Advance(p) \/ Age(p) PROVE PaymentAmounts
  <2>1. \/ \E s : payment' = [payment EXCEPT ![p].status = s]
        \/ payment' = [payment EXCEPT ![p].recent = FALSE]
    BY <1>3 DEF Advance, Age
  <2>2. QED
    BY <1>1, <2>1 DEF PaymentAmounts, PaymentRow
<1>4. ASSUME NEW r, NEW p, CreatePayment(r, p) PROVE PaymentAmounts
  BY <1>2, <1>4 DEF CreatePayment, With, PaymentAmounts
<1>5. \/ UNCHANGED payment
      \/ \E p : Advance(p) \/ Age(p)
      \/ \E r, p : CreatePayment(r, p)
  <2>1. ASSUME NEW r, RequestStep(r) \/ Disconnect(r)
        PROVE  UNCHANGED payment \/ \E p : CreatePayment(r, p)
    BY <2>1 DEF RequestStep, Disconnect, Claim, LoadReceiver, LoadOriginal,
                EnforceTxLimit, EnforceDayLimit, FailToken
  <2>2. ASSUME NEW r, NEW ask, Begin(r, ask) PROVE UNCHANGED payment
    BY <2>2 DEF Begin
  <2>3. ASSUME NEW t, NEW u, NEW amount, Issue(t, u, amount) \/ Lapse(t)
        PROVE  UNCHANGED payment
    BY <2>3 DEF Issue, Lapse
  <2>4. ASSUME NEW u, NEW merchant, NEW kobo,
               Upsert(u, merchant, kobo) \/ Delete(u, merchant)
        PROVE  UNCHANGED payment
    BY <2>4 DEF Upsert, Delete
  <2>5. ASSUME NEW p, EndToken(p) PROVE UNCHANGED payment
    BY <2>5 DEF EndToken
  <2>6. ExpireStaleTokens \/ UNCHANGED vars => UNCHANGED payment
    BY DEF ExpireStaleTokens, vars
  <2>7. QED
    BY <2>1, <2>2, <2>3, <2>4, <2>5, <2>6 DEF Next
<1>6. QED
  BY <1>2, <1>3, <1>4, <1>5

Checked == {"dayLimit", "insert"}

\* Nor is a payment that is about to be inserted.
LimitInv ==
    /\ NoneAboveTxLimit
    /\ \A r \in Request : at[r] \in Checked => AmountOf(r) <= TxLimit

\* Only the check of the limit lets a request on.
LEMMA CheckedBefore ==
    ASSUME Wellformed, [Next]_vars, NEW r \in Request, at'[r] \in Checked
    PROVE  /\ r \in DOMAIN req /\ r \in DOMAIN req' /\ req'[r] = req[r]
           /\ at[r] \in Checked \/ EnforceTxLimit(r)
<1>1. TypeOK /\ (at[r] # "idle" => r \in DOMAIN req)
  BY DEF Wellformed, Stages
<1>2. CASE Background
  <2>1. UNCHANGED <<req, at>>
    BY <1>2, BackgroundRows
  <2>2. QED
    BY <1>1, <2>1 DEF Checked
<1>3. ASSUME NEW q \in Request, RequestStep(q) \/ Disconnect(q)
      PROVE  /\ at[r] \in Checked \/ EnforceTxLimit(r)
             /\ at[r] # "idle" /\ UNCHANGED req
  <2>1. UNCHANGED req /\ at[q] # "idle"
    BY <1>3, RequestKeeps
  <2>2. CASE q # r
    <3>1. at'[r] = at[r]
      BY <1>1, <1>3, <2>2, RequestKeeps DEF Onward, Goto, TypeOK
    <3>2. QED
      BY <2>1, <3>1 DEF Checked
  <2>3. CASE q = r
    <3>1. ASSUME ~EnforceTxLimit(r) PROVE at[r] \in Checked
      <4>1. CASE EnforceDayLimit(r)
        BY <4>1 DEF EnforceDayLimit, Checked
      <4>2. ASSUME NEW p, CreatePayment(r, p) PROVE at[r] \in Checked
        BY <4>2 DEF CreatePayment, Checked
      <4>3. Claim(r) \/ FailToken(r) \/ Disconnect(r) => at'[r] \notin Checked
        BY <1>1 DEF Claim, FailToken, Disconnect, Goto, Checked, TypeOK
      <4>4. LoadReceiver(r) \/ LoadOriginal(r) => at'[r] \notin Checked
        BY <1>1 DEF LoadReceiver, LoadOriginal, Goto, Checked, TypeOK
      <4>5. QED
        BY <1>3, <2>3, <3>1, <4>1, <4>2, <4>3, <4>4 DEF RequestStep
    <3>2. QED
      BY <2>1, <2>3, <3>1
  <2>4. QED
    BY <2>2, <2>3
<1>4. ASSUME NEW q \in Request, NEW ask, Begin(q, ask)
      PROVE  /\ at[r] \in Checked /\ q # r
             /\ r \in DOMAIN req' /\ req'[r] = req[r]
  <2>1. q # r /\ at'[r] = at[r]
    BY <1>1, <1>4 DEF Begin, Goto, Checked, TypeOK
  <2>2. r \in DOMAIN req
    BY <1>1, <2>1 DEF Checked
  <2>3. QED
    BY <1>4, <2>1, <2>2 DEF Begin, With
<1>5. QED
  <2>1. ASSUME at[r] # "idle", UNCHANGED req
        PROVE  r \in DOMAIN req /\ r \in DOMAIN req' /\ req'[r] = req[r]
    BY <1>1, <2>1
  <2>2. at[r] \in Checked => at[r] # "idle"
    BY DEF Checked
  <2>3. QED
    BY <1>1, <1>2, <1>3, <1>4, <2>1, <2>2, Steps

LEMMA AmountKept ==
    ASSUME Wellformed, [Next]_vars, NEW r \in DOMAIN req,
           r \in DOMAIN req', req'[r] = req[r]
    PROVE  AmountOf(r)' = AmountOf(r)
<1>1. TokenAmounts
  BY TokenAmountsKept DEF Wellformed
<1>2. Pays(r)' = Pays(r)
  BY DEF Pays
<1>3. Pays(r) => req[r].source \in DOMAIN token
  BY SourceRows
<1>4. QED
  BY <1>1, <1>2, <1>3 DEF AmountOf, TokenAmounts

LEMMA LimitNext ==
    ASSUME Wellformed, LimitInv, [Next]_vars
    PROVE  LimitInv'
<1>1. ASSUME NEW r \in Request, at'[r] \in Checked
      PROVE  AmountOf(r)' <= TxLimit
  <2>1. AmountOf(r)' = AmountOf(r)
    BY <1>1, CheckedBefore, AmountKept
  <2>2. CASE at[r] \in Checked
    BY <2>1, <2>2 DEF LimitInv
  <2>3. CASE EnforceTxLimit(r)
    <3>1. \/ AmountOf(r) <= EffectiveCap(req[r].user, Receiver(r))
          \/ AmountOf(r) <= TxLimit
          \/ Refuse(r)
      BY <2>3 DEF EnforceTxLimit
    <3>2. ~Refuse(r)
      BY <1>1 DEF Refuse, Goto, Checked, Wellformed, TypeOK
    <3>3. \A pair \in DOMAIN cap : cap[pair] \in Nat
      BY IntakeAssumption DEF Wellformed, TypeOK
    <3>4. r \in DOMAIN req
      BY <1>1, CheckedBefore
    <3>5. AmountOf(r) \in Nat
      <4>1. req[r] \in Ask
        BY <3>4 DEF Wellformed, TypeOK
      <4>2. Pays(r) => token[req[r].source] \in TokenRow
        BY <3>4, SourceRows DEF Wellformed, TypeOK
      <4>3. AmountOf(r) \in Amount
        BY <4>1, <4>2 DEF AmountOf, Ask, TokenRow
      <4>4. QED
        BY <4>3, IntakeAssumption
    <3>6. EffectiveCap(req[r].user, Receiver(r)) \in Nat
      BY <3>3, IntakeAssumption DEF EffectiveCap
    <3>7. EffectiveCap(req[r].user, Receiver(r)) <= TxLimit
      <4> DEFINE pair == <<req[r].user, Receiver(r)>>
      <4>1. CASE pair \in DOMAIN cap /\ cap[pair] < TxLimit
        <5>1. EffectiveCap(req[r].user, Receiver(r)) = cap[pair]
          BY <4>1 DEF EffectiveCap
        <5>2. cap[pair] \in Nat
          BY <3>3, <4>1
        <5> HIDE DEF pair
        <5>3. QED
          BY <4>1, <5>1, <5>2, IntakeAssumption
      <4>2. CASE ~(pair \in DOMAIN cap /\ cap[pair] < TxLimit)
        <5>1. EffectiveCap(req[r].user, Receiver(r)) = TxLimit
          BY <4>2 DEF EffectiveCap
        <5>2. QED
          BY <5>1, IntakeAssumption
      <4>3. QED
        BY <4>1, <4>2
    <3>8. QED
      BY <2>1, <3>1, <3>2, <3>5, <3>6, <3>7, IntakeAssumption
  <2>4. QED
    BY <1>1, <2>2, <2>3, CheckedBefore
<1>2. ASSUME NEW p \in DOMAIN payment' PROVE payment'[p].amount <= TxLimit
  <2>1. CASE p \in DOMAIN payment
    BY <2>1, PaymentAmountsKept DEF PaymentAmounts, LimitInv, NoneAboveTxLimit,
                                    Wellformed
  <2>2. CASE p \notin DOMAIN payment
    <3>1. PICK r \in Request, x \in Payment : CreatePayment(r, x)
      <4>1. CASE Background
        BY <1>2, <2>2, <4>1, BackgroundRows
      <4>2. ASSUME NEW r \in Request, RequestStep(r) \/ Disconnect(r)
            PROVE  UNCHANGED payment \/ \E x \in Payment : CreatePayment(r, x)
        BY <4>2 DEF RequestStep, Disconnect, Claim, LoadReceiver, LoadOriginal,
                    EnforceTxLimit, EnforceDayLimit, FailToken
      <4>3. ASSUME NEW r, NEW ask, Begin(r, ask) PROVE UNCHANGED payment
        BY <4>3 DEF Begin
      <4>4. QED
        BY <1>2, <2>2, <4>1, <4>2, <4>3, Steps
    <3>2. payment'[p].amount = AmountOf(r)
      BY <1>2, <2>2, <3>1 DEF CreatePayment, With
    <3>3. at[r] \in Checked
      BY <3>1 DEF CreatePayment, Checked
    <3>4. QED
      BY <3>2, <3>3 DEF LimitInv
  <2>3. QED
    BY <2>1, <2>2
<1>3. QED
  BY <1>1, <1>2 DEF LimitInv, NoneAboveTxLimit

\* In every behaviour no payment exceeds its sender's limit, however he caps
\* what he pays to single merchants meanwhile.
THEOREM LimitHolds == Spec => []NoneAboveTxLimit
<1>1. Init => LimitInv
  BY DEF Init, LimitInv, NoneAboveTxLimit, Checked
<1>2. LimitInv => NoneAboveTxLimit
  BY DEF LimitInv
<1>3. QED
  BY <1>1, <1>2, LimitNext, WellformedInit, WellformedNext, PTL DEF Spec

-----------------------------------------------------------------------------
(* A token is good for one payment: Intake implements Voucher.             *)

\* Who holds a token as a request has claimed it, and it is claimed still:
\* nobody but the request or its payment ends it.
Held == \A r \in Request, t \in Token :
            Holds(r, t) => token[t].status = "claimed"

\* Where a step has taken the tokens, and which payment it has made.
Kept(t) == LifeOf(t)' = LifeOf(t)

NonePaid == \A t \in Token : PaidWith(t)' = PaidWith(t)

Moved(t, from, to) ==
    /\ LifeOf(t) \in from
    /\ LifeOf(t)' = to
    /\ \A x \in Token \ {t} : Kept(x)

Paid(t, p) ==
    /\ LifeOf(t) = "claimed"
    /\ PaidWith(t) = {}
    /\ p \notin DOMAIN payment
    /\ PaidWith(t)' = {p}
    /\ \A x \in Token \ {t} : PaidWith(x)' = PaidWith(x)

Live == {"claimed", "settled", "failed"}

\* What a step is to the tokens.
Effect ==
    \/ NonePaid /\ \A t \in Token : Kept(t)
    \/ \E t \in Token :
         \/ NonePaid /\ Moved(t, {"unissued"}, "created")
         \/ /\ NonePaid
            /\ PaidWith(t) # {}
            /\ \E s \in {"settled", "failed"} : Moved(t, Live, s)
         \/ /\ NonePaid
            /\ \E r \in Request :
                 \/ Claim(r) /\ Moved(t, {"created"}, "claimed")
                 \/ /\ FailToken(r) /\ Holds(r, t) /\ PaidWith(t) = {}
                    /\ Moved(t, {"claimed"}, "failed")
         \/ (\A x \in Token : Kept(x)) /\ \E p \in Payment : Paid(t, p)
    \/ /\ NonePaid
       /\ \A t \in Token :
            LifeOf(t)' = IF t \in Stale THEN "expired" ELSE LifeOf(t)

LEMMA LifeKept ==
    ASSUME NEW t, DOMAIN token' = DOMAIN token,
           t \in DOMAIN token => token'[t].status = token[t].status
    PROVE  Kept(t)
BY DEF Kept, LifeOf

LEMMA PaymentsKept ==
    ASSUME PaymentsGrow, DOMAIN payment' = DOMAIN payment
    PROVE  NonePaid
BY DEF PaymentsGrow, NonePaid, PaidWith

\* What writing one status does.
LEMMA StatusWritten ==
    ASSUME TypeOK, NEW t \in DOMAIN token, NEW s,
           token' = [token EXCEPT ![t].status = s]
    PROVE  LifeOf(t)' = s /\ \A x \in Token \ {t} : Kept(x)
<1>1. DOMAIN token' = DOMAIN token
  OBVIOUS
<1>2. token'[t].status = s
  BY DEF TypeOK, TokenRow
<1>3. \A x \in DOMAIN token \ {t} : token'[x] = token[x]
  OBVIOUS
<1>4. QED
  BY <1>1, <1>2, <1>3 DEF Kept, LifeOf

LEMMA BackgroundEffect ==
    ASSUME IntakeInv, Background
    PROVE  Effect
<1>1. /\ Wellformed /\ TypeOK /\ NonePaid /\ \A t \in Token : OneHolder(t)
  BY BackgroundRows, PaymentsKept DEF IntakeInv, Wellformed
<1>2. UNCHANGED token => Effect
  BY <1>1 DEF Effect, Kept, LifeOf
<1>3. ASSUME NEW t \in Token, NEW u \in User, NEW amount \in Amount,
             Issue(t, u, amount)
      PROVE  Effect
  <2>1. /\ t \notin DOMAIN token
        /\ DOMAIN token' = DOMAIN token \cup {t}
        /\ token'[t].status = "created"
        /\ \A x \in DOMAIN token : token'[x] = token[x]
    BY <1>3 DEF Issue, With
  <2>2. Moved(t, {"unissued"}, "created")
    BY <2>1 DEF Moved, Kept, LifeOf
  <2>3. QED
    BY <1>1, <2>2 DEF Effect
<1>4. ASSUME NEW t \in Token, Lapse(t) PROVE Effect
  <2>1. /\ DOMAIN token' = DOMAIN token
        /\ \A x \in DOMAIN token : token'[x].status = token[x].status
    BY <1>1, <1>4 DEF Lapse, TypeOK, TokenRow
  <2>2. \A x \in Token : Kept(x)
    BY <2>1, LifeKept
  <2>3. QED
    BY <1>1, <2>2 DEF Effect
<1>5. CASE ExpireStaleTokens
  <2>1. /\ DOMAIN token' = DOMAIN token
        /\ \A x \in DOMAIN token :
             token'[x].status = IF x \in Stale THEN "expired" ELSE token[x].status
    BY <1>1, <1>5 DEF ExpireStaleTokens, TypeOK, TokenRow
  <2>2. \A t \in Token :
            LifeOf(t)' = IF t \in Stale THEN "expired" ELSE LifeOf(t)
    BY <2>1 DEF LifeOf, Stale
  <2>3. QED
    BY <1>1, <2>2 DEF Effect
<1>6. ASSUME NEW p \in Payment, EndToken(p) PROVE Effect
  <2>1. PICK t \in Token, s \in {"settled", "failed"} :
            /\ t \in DOMAIN token
            /\ Backs(p, t) /\ PaidWith(t) # {}
            /\ token' = [token EXCEPT ![t].status = s]
    BY <1>1, <1>6 DEF EndToken, Backs, PaidWith, Wellformed, Sources
  <2>2. LifeOf(t) \in Live
    <3>1. token[t].status \in TokenStatus
      BY <1>1, <2>1 DEF TypeOK, TokenRow
    <3>2. ~Free(t)
      BY <1>1, <2>1 DEF OneHolder
    <3>3. QED
      BY <2>1, <3>1, <3>2 DEF Free, TokenStatus, LifeOf, Live
  <2>3. Moved(t, Live, s)
    BY <1>1, <2>1, <2>2, StatusWritten DEF Moved
  <2>4. QED
    BY <1>1, <2>1, <2>3 DEF Effect
<1>7. ASSUME NEW p \in Payment, Advance(p) \/ Age(p) PROVE UNCHANGED token
  BY <1>7 DEF Advance, Age
<1>8. ASSUME NEW u, NEW merchant, NEW kobo,
             Upsert(u, merchant, kobo) \/ Delete(u, merchant)
      PROVE  UNCHANGED token
  BY <1>8 DEF Upsert, Delete
<1>9. UNCHANGED vars => UNCHANGED token
  BY DEF vars
<1>10. QED
  BY <1>2, <1>3, <1>4, <1>5, <1>6, <1>7, <1>8, <1>9 DEF Background

LEMMA RequestEffect ==
    ASSUME IntakeInv, Held, NEW r \in Request, RequestStep(r) \/ Disconnect(r)
    PROVE  Effect
<1> SUFFICES ASSUME NEW t, t = req[r].source PROVE Effect
  OBVIOUS
<1>1. /\ Wellformed /\ TypeOK /\ \A x \in Token : OneHolder(x)
      /\ PaymentsGrow /\ at[r] # "idle" /\ r \in DOMAIN req
  BY RequestRows, RequestKeeps DEF IntakeInv, Wellformed, Stages
<1>2. UNCHANGED payment => NonePaid
  BY DEF NonePaid, PaidWith
<1>3. UNCHANGED token => \A x \in Token : Kept(x)
  BY DEF Kept, LifeOf
<1>4. Pays(r) => t \in Token /\ t \in DOMAIN token
  BY <1>1, SourceRows DEF Pays
<1>5. CASE Claim(r)
  <2>1. UNCHANGED payment /\ Pays(r)
    BY <1>1, <1>5 DEF Claim, Wellformed, Stages
  <2>2. CASE ClaimToken(t)
    <3>1. LifeOf(t) = "created" /\ token' = [token EXCEPT ![t].status = "claimed"]
      BY <1>4, <2>1, <2>2 DEF ClaimToken, Claimable, LifeOf
    <3>2. Moved(t, {"created"}, "claimed")
      BY <1>1, <1>4, <2>1, <3>1, StatusWritten DEF Moved
    <3>3. QED
      BY <1>2, <1>4, <1>5, <2>1, <3>2 DEF Effect
  <2>3. CASE UNCHANGED token
    BY <1>2, <1>3, <2>1, <2>3 DEF Effect
  <2>4. QED
    BY <1>5, <2>2, <2>3 DEF Claim
<1>6. CASE FailToken(r)
  <2>1. UNCHANGED payment /\ Pays(r) /\ Holds(r, t)
    BY <1>1, <1>6 DEF FailToken, Wellformed, Stages, Holds, Holding
  <2>2. CASE MarkTokenFailed(t)
    <3>1. LifeOf(t) = "claimed" /\ token' = [token EXCEPT ![t].status = "failed"]
      BY <1>4, <2>1, <2>2 DEF MarkTokenFailed, LifeOf, Held
    <3>2. Moved(t, {"claimed"}, "failed")
      BY <1>1, <1>4, <2>1, <3>1, StatusWritten DEF Moved
    <3>3. PaidWith(t) = {}
      BY <1>1, <1>4, <2>1 DEF OneHolder, Backs, PaidWith, TypeOK
    <3>4. QED
      BY <1>2, <1>4, <1>6, <2>1, <3>2, <3>3 DEF Effect
  <2>3. CASE UNCHANGED token
    BY <1>2, <1>3, <2>1, <2>3 DEF Effect
  <2>4. QED
    BY <1>6, <2>2, <2>3 DEF FailToken
<1>7. CASE LoadReceiver(r) \/ LoadOriginal(r) \/ EnforceTxLimit(r)
           \/ EnforceDayLimit(r) \/ Disconnect(r)
  <2>1. UNCHANGED <<token, payment>>
    BY <1>7 DEF LoadReceiver, LoadOriginal, EnforceTxLimit, EnforceDayLimit,
                Disconnect
  <2>2. QED
    BY <1>2, <1>3, <2>1 DEF Effect
<1>8. ASSUME NEW p \in Payment, CreatePayment(r, p) PROVE Effect
  <2>1. UNCHANGED token /\ at[r] = "insert"
    BY <1>8 DEF CreatePayment
  <2>2. CASE UNCHANGED payment
    BY <1>2, <1>3, <2>1, <2>2 DEF Effect
  <2>3. CASE /\ p \notin DOMAIN payment
             /\ DOMAIN payment' = DOMAIN payment \cup {p}
             /\ payment'[p].source = t
             /\ \A x \in DOMAIN payment : payment'[x] = payment[x]
    <3>1. \A x : x # t => PaidWith(x)' = PaidWith(x)
      BY <2>3 DEF PaidWith
    <3>2. CASE Pays(r)
      <4>1. Holds(r, t)
        BY <1>1, <2>1 DEF Holds, Holding
      <4>2. LifeOf(t) = "claimed"
        BY <1>4, <3>2, <4>1 DEF Held, LifeOf
      <4>3. PaidWith(t) = {}
        BY <1>1, <1>4, <3>2, <4>1 DEF OneHolder, Backs, PaidWith, TypeOK
      <4>4. PaidWith(t)' = {p}
        BY <2>3, <4>3 DEF PaidWith
      <4>5. Paid(t, p)
        BY <2>3, <3>1, <4>2, <4>3, <4>4 DEF Paid
      <4>6. QED
        BY <1>3, <1>4, <2>1, <3>2, <4>5 DEF Effect
    <3>3. CASE ~Pays(r)
      <4>1. \A x \in Token : x # t
        BY <3>3 DEF Pays
      <4>2. NonePaid
        BY <3>1, <4>1 DEF NonePaid
      <4>3. QED
        BY <1>3, <2>1, <4>2 DEF Effect
    <3>4. QED
      BY <3>2, <3>3
  <2>4. QED
    BY <1>8, <2>2, <2>3 DEF CreatePayment, With
<1>9. QED
  BY <1>5, <1>6, <1>7, <1>8 DEF RequestStep

LEMMA EveryEffect ==
    ASSUME IntakeInv, Held, [Next]_vars
    PROVE  Effect
<1>1. ASSUME NEW r, NEW ask, Begin(r, ask) PROVE Effect
  BY <1>1 DEF Begin, Effect, NonePaid, PaidWith, Kept, LifeOf
<1>2. QED
  BY <1>1, BackgroundEffect, RequestEffect, Steps

\* Only its claim makes a request a holder.
LEMMA HoldersBefore ==
    ASSUME IntakeInv, [Next]_vars, NEW r \in Request, NEW t \in Token,
           Holds(r, t)', ~Holds(r, t)
    PROVE  Claim(r) /\ req[r].source = t /\ token'[t].status = "claimed"
<1>1. Wellformed /\ TypeOK
  BY DEF IntakeInv, Wellformed
<1>2. CASE Background
  BY <1>2, <1>1, BackgroundRows DEF Holds
<1>3. ASSUME NEW q \in Request, NEW ask, Begin(q, ask) PROVE FALSE
  <2>1. /\ at'[q] \notin Holding
        /\ \A x \in Request \ {q} : at'[x] = at[x]
    BY <1>1, <1>3 DEF Begin, Goto, TypeOK, Holding
  <2>2. /\ DOMAIN req' = DOMAIN req \cup {q}
        /\ \A x \in DOMAIN req \ {q} : req'[x] = req[x]
    BY <1>3 DEF Begin, With
  <2>3. QED
    BY <2>1, <2>2 DEF Holds
<1>4. ASSUME NEW q \in Request, RequestStep(q) \/ Disconnect(q)
      PROVE  Claim(r) /\ req[r].source = t /\ token'[t].status = "claimed"
  <2>1. Onward(q) /\ UNCHANGED req
    BY <1>1, <1>4, RequestKeeps
  <2>2. q = r /\ at'[r] \in Holding /\ at[r] \notin Holding
        /\ req[r].source = t /\ Pays(r)
    BY <1>1, <2>1 DEF Onward, Goto, TypeOK, Holds, Pays
  <2>3. ~FailToken(r) /\ ~LoadReceiver(r) /\ ~EnforceTxLimit(r)
        /\ ~EnforceDayLimit(r)
    BY <2>2 DEF FailToken, LoadReceiver, EnforceTxLimit, EnforceDayLimit, Holding
  <2>4. ~LoadOriginal(r)
    BY <1>1, <2>2 DEF LoadOriginal, Wellformed, Stages
  <2>5. \A p \in Payment : ~CreatePayment(r, p)
    BY <2>2 DEF CreatePayment, Holding
  <2>6. ~Disconnect(r)
    BY <1>1, <2>2 DEF Disconnect, Goto, TypeOK, Holding
  <2>7. Claim(r)
    BY <1>4, <2>2, <2>3, <2>4, <2>5, <2>6 DEF RequestStep
  <2>8. ClaimToken(t)
    BY <1>1, <2>2, <2>7 DEF Claim, Goto, TypeOK, Holding
  <2>9. t \in DOMAIN token
    BY <1>1, <2>2, <2>7, SourceRows DEF Wellformed, Stages, Claim
  <2>10. token'[t].status = "claimed"
    BY <1>1, <2>8, <2>9 DEF ClaimToken, TypeOK, TokenRow
  <2>11. QED
    BY <2>2, <2>7, <2>10
<1>5. QED
  BY <1>2, <1>3, <1>4, Steps

LEMMA HeldNext ==
    ASSUME IntakeInv, Held, [Next]_vars
    PROVE  Held'
<1> SUFFICES ASSUME NEW r \in Request, NEW t \in Token, Holds(r, t)'
             PROVE  token'[t].status = "claimed"
  BY DEF Held
<1>1. CASE ~Holds(r, t)
  BY <1>1, HoldersBefore
<1>2. CASE Holds(r, t)
  <2>1. /\ TypeOK /\ OneHolder(t)
        /\ t \in DOMAIN token /\ LifeOf(t) = "claimed"
    BY <1>2 DEF Held, IntakeInv, Wellformed, OneHolder, Free, LifeOf
  <2>2. PaidWith(t) = {}
    BY <1>2, <2>1 DEF OneHolder, Backs, PaidWith, TypeOK
  <2>3. \A q \in Request : FailToken(q) => ~Holds(q, t)
    <3> SUFFICES ASSUME NEW q \in Request, FailToken(q), Holds(q, t)
                 PROVE  FALSE
      OBVIOUS
    <3>1. q = r
      BY <1>2, <2>1 DEF OneHolder
    <3>2. at'[r] = "done"
      BY <2>1, <3>1 DEF FailToken, Goto, TypeOK
    <3>3. QED
      BY <3>2 DEF Holds, Holding
  <2>4. \A x \in Token : \A to :
            Moved(x, {"unissued"}, to) \/ Moved(x, {"created"}, to) => Kept(t)
    BY <2>1 DEF Moved
  <2>5. \A x \in Token : \A to :
            Moved(x, Live, to) /\ PaidWith(x) # {} => Kept(t)
    BY <2>2 DEF Moved
  <2>6. \A x \in Token, q \in Request : \A to :
            Moved(x, {"claimed"}, to) /\ FailToken(q) /\ Holds(q, x) => Kept(t)
    BY <2>3 DEF Moved
  <2>7. t \notin Stale
    BY <2>1 DEF Stale, LifeOf
  <2>8. Kept(t)
    BY <2>4, <2>5, <2>6, <2>7, EveryEffect DEF Effect, Kept
  <2>9. QED
    BY <2>1, <2>8 DEF Kept, LifeOf
<1>3. QED
  BY <1>1, <1>2

LEMMA VoucherStep ==
    ASSUME Effect, TypeOK
    PROVE  [Abstract!Next]_<<[t \in Token |-> LifeOf(t)],
                             [t \in Token |-> PaidWith(t)]>>
<1> DEFINE life == [t \in Token |-> LifeOf(t)]
           paid == [t \in Token |-> PaidWith(t)]
<1>1. NonePaid => paid' = paid
  BY DEF NonePaid
<1>2. (\A t \in Token : Kept(t)) => life' = life
  BY DEF Kept
<1>3. ASSUME NEW t \in Token, NEW from, NEW to, NonePaid, Moved(t, from, to)
      PROVE  Abstract!Move(t, from, to)
  <2>1. life' = [life EXCEPT ![t] = to]
    BY <1>3 DEF Moved, Kept
  <2>2. life[t] \in from
    BY <1>3 DEF Moved
  <2>3. QED
    BY <1>1, <1>3, <2>1, <2>2 DEF Abstract!Move
<1>4. ASSUME NonePaid, \A t \in Token : Kept(t)
      PROVE  UNCHANGED <<life, paid>>
  BY <1>1, <1>2, <1>4
<1>5. ASSUME NEW t \in Token, NonePaid, Moved(t, {"unissued"}, "created")
      PROVE  Abstract!Next
  <2>1. Abstract!Issue(t)
    BY <1>3, <1>5 DEF Abstract!Issue
  <2>2. QED
    BY <2>1 DEF Abstract!Next
<1>6. ASSUME NEW t \in Token, NonePaid, PaidWith(t) # {},
             NEW s \in {"settled", "failed"}, Moved(t, Live, s)
      PROVE  Abstract!Next
  <2>1. Live = {"claimed"} \cup {"settled", "failed"}
    BY DEF Live
  <2>2. Abstract!Move(t, {"claimed"} \cup {"settled", "failed"}, s)
    BY <1>3, <1>6, <2>1
  <2>3. paid[t] # {}
    BY <1>6
  <2>4. Abstract!End(t)
    BY <2>2, <2>3 DEF Abstract!End, Abstract!Ends
  <2>5. QED
    BY <2>4 DEF Abstract!Next
<1>7. ASSUME NEW t \in Token, NonePaid, Moved(t, {"created"}, "claimed")
      PROVE  Abstract!Next
  <2>1. Abstract!Claim(t)
    BY <1>3, <1>7 DEF Abstract!Claim
  <2>2. QED
    BY <2>1 DEF Abstract!Next
<1>8. ASSUME NEW t \in Token, NonePaid, Moved(t, {"claimed"}, "failed"),
             PaidWith(t) = {}
      PROVE  Abstract!Next
  <2>1. Abstract!Waste(t)
    BY <1>3, <1>8 DEF Abstract!Waste
  <2>2. QED
    BY <2>1 DEF Abstract!Next
<1>9. ASSUME NEW t \in Token, NEW p \in Payment, Paid(t, p),
             \A x \in Token : Kept(x)
      PROVE  Abstract!Next
  <2>1. paid' = [paid EXCEPT ![t] = {p}]
    BY <1>9 DEF Paid
  <2>2. life' = life
    BY <1>2, <1>9
  <2>3. life[t] = "claimed" /\ paid[t] = {}
    BY <1>9 DEF Paid
  <2>4. \A x \in Token : p \notin paid[x]
    BY <1>9 DEF Paid, PaidWith
  <2>5. Abstract!Pay(t, p)
    BY <2>1, <2>2, <2>3, <2>4 DEF Abstract!Pay
  <2>6. QED
    BY <2>5 DEF Abstract!Next
<1>10. ASSUME NonePaid,
              \A t \in Token :
                  LifeOf(t)' = IF t \in Stale THEN "expired" ELSE LifeOf(t)
       PROVE  Abstract!Next
  <2>1. life' = [t \in Token |-> IF t \in Stale THEN "expired" ELSE life[t]]
    BY <1>10
  <2>2. Stale \in SUBSET Token /\ \A t \in Stale : life[t] = "created"
    BY DEF Stale, LifeOf, TypeOK
  <2>3. Abstract!Expire(Stale)
    BY <1>1, <1>10, <2>1, <2>2 DEF Abstract!Expire
  <2>4. QED
    BY <2>2, <2>3 DEF Abstract!Next
<1>11. Abstract!Next \/ UNCHANGED <<life, paid>>
  <2> HIDE DEF life, paid
  <2>1. QED
    BY <1>4, <1>5, <1>6, <1>7, <1>8, <1>9, <1>10 DEF Effect
<1>12. QED
  BY <1>11

\* In every behaviour the tokens keep the promise of Voucher: each is good for
\* one payment, whichever requests, retries and sweeps race for it.
THEOREM VoucherIsKept == Spec => ImplementsVoucher
<1>1. Init => Abstract!Init
  BY DEF Init, Abstract!Init, LifeOf, PaidWith
<1>2. Init => Held
  BY DEF Init, Held, Holds
<1>3. IntakeInv => TypeOK
  BY DEF IntakeInv, Wellformed
<1>4. IntakeInv /\ Held /\ [Next]_vars =>
        [Abstract!Next]_<<[t \in Token |-> LifeOf(t)],
                          [t \in Token |-> PaidWith(t)]>>
  BY <1>3, EveryEffect, VoucherStep
<1>5. QED
  BY <1>1, <1>2, <1>4, InvInit, InvNext, HeldNext, PTL
     DEF Spec, ImplementsVoucher, Abstract!Spec

=============================================================================
