------------------------------- MODULE Intake -------------------------------
(***************************************************************************)
(* What happens before a payment row exists: a receiver issues a token,    *)
(* requests to pay it or to refund an earlier payment race for it, and the *)
(* one that gets through its checks inserts the row.  From then on the     *)
(* payment lives by Lifecycle, which Payments implements.                  *)
(*                                                                         *)
(* A step of a request is the code between two statements that other       *)
(* requests can see the effect of; nothing runs in a transaction.          *)
(***************************************************************************)
EXTENDS Naturals, FiniteSetsExt

CONSTANTS
    User,          \* users: each may issue, pay and refund
    Token,         \* token rows
    Payment,       \* payment rows
    Request,       \* POST /v1/payments and POST /v1/payments/:id/refund
    Key,           \* idempotency keys the clients choose
    Amount,        \* amounts of tokens and refunds
    DayLimit,      \* everyone's per_day_limit_kobo
    TxLimit,       \* everyone's per_tx_limit_kobo
    Capper,        \* users who cap what they pay a merchant
    Cap,           \* caps they ask for
    MaxFaults      \* bound on errors and dropped connections

ASSUME IntakeAssumption ==
    /\ Amount \subseteq Nat \ {0}
    /\ DayLimit \in Nat
    /\ TxLimit \in Nat
    /\ Capper \subseteq User
    /\ Cap \subseteq Nat
    /\ MaxFaults \in Nat
    /\ Token \cap Payment = {}

VARIABLES
    token,      \* the rows of tokens, a function on those issued
    payment,    \* the rows of payments, a function on those inserted
    req,        \* what each request that has begun asks for
    at,         \* at[r]: the next step of request r
    cap,        \* trusted_merchants: <<user, merchant>> -> per_tx_cap_kobo
    faults      \* faults so far

vars == <<token, payment, req, at, cap, faults>>

TokenStatus == {"created", "claimed", "settled", "failed", "expired"}

\* lapsed: expires_at has passed.
TokenRow == [status : TokenStatus, issuer : User, amount : Amount,
             lapsed : BOOLEAN]

PaymentStatus == {"initiated", "transferring", "held", "settling", "settled",
                  "failed", "refunded"}

\* source: the token that was claimed or the payment that is refunded;
\* recent: created_at is less than a day ago.
PaymentRow == [status : PaymentStatus, key : Key, source : Token \cup Payment,
               sender : User, receiver : User, amount : Amount,
               recent : BOOLEAN]

\* A refund names its amount, a payment takes that of its token.
Ask == [user : User, key : Key, source : Token \cup Payment, amount : Amount]

Step == {"idle", "claim", "receiver", "original", "txLimit", "dayLimit",
         "insert", "failToken", "done"}

TypeOK ==
    /\ DOMAIN token \subseteq Token
    /\ \A t \in DOMAIN token : token[t] \in TokenRow
    /\ DOMAIN payment \subseteq Payment
    /\ \A p \in DOMAIN payment : payment[p] \in PaymentRow
    /\ DOMAIN req \subseteq Request
    /\ \A r \in DOMAIN req : req[r] \in Ask
    /\ at \in [Request -> Step]
    /\ DOMAIN cap \subseteq Capper \X User
    /\ \A pair \in DOMAIN cap : cap[pair] \in Cap \ {0}
    /\ faults \in 0..MaxFaults

Init ==
    /\ token = [t \in {} |-> 0]
    /\ payment = [p \in {} |-> 0]
    /\ req = [r \in {} |-> 0]
    /\ at = [r \in Request |-> "idle"]
    /\ cap = [pair \in {} |-> 0]
    /\ faults = 0

-----------------------------------------------------------------------------
Fault == faults < MaxFaults /\ faults' = faults + 1

NoFault == faults' = faults

Goto(r, step) == at' = [at EXCEPT ![r] = step]

\* f with one more row, or with the row replaced.
With(f, x, value) == [y \in DOMAIN f \cup {x} |->
                         IF y = x THEN value ELSE f[y]]

\* The payment or the token a request is about.
Pays(r) == req[r].source \in Token

StatusOf(p) == IF p \in DOMAIN payment THEN payment[p].status ELSE "none"

Life == INSTANCE Lifecycle WITH status <- [p \in Payment |-> StatusOf(p)]

-----------------------------------------------------------------------------
(* The statements of sqlc/queries: tokens.sql, payments.sql, users.sql and *)
(* trusted_merchants.sql.                                                  *)

\* Mutant: the WHERE loses its "status = 'created'".
ClaimableTwice(t) == ~token[t].lapsed

\* The WHERE of ClaimToken.
Claimable(t) == token[t].status = "created" /\ ~token[t].lapsed

ClaimToken(t) ==
    /\ Claimable(t)
    /\ token' = [token EXCEPT ![t].status = "claimed"]

\* Mutant: a status that no other query knows.
MarkTokenFailedNewStatus(t) ==
    token' = [token EXCEPT ![t].status = "rejected"]

\* Does not look at the status it replaces.
MarkTokenFailed(t) == token' = [token EXCEPT ![t].status = "failed"]

KeyIsFree(k) == \A p \in DOMAIN payment : payment[p].key # k

\* A held payment and one whose transfer is out ('settling') do not count.
SumUserSentLast24h(u) ==
    LET Counted == {p \in DOMAIN payment :
                       /\ payment[p].sender = u
                       /\ payment[p].recent
                       /\ payment[p].status \in
                              {"initiated", "transferring", "settled"}}
    IN  MapThenSumSet(LAMBDA p : payment[p].amount, Counted)

\* One row per pair, inserted or overwritten.
UpsertTrustedMerchant(u, merchant, kobo) ==
    cap' = With(cap, <<u, merchant>>, kobo)

\* By the row's id, and the user it belongs to.
DeleteTrustedMerchant(u, merchant) ==
    cap' = [pair \in DOMAIN cap \ {<<u, merchant>>} |-> cap[pair]]

\* Mutant: a trusted cap takes the place of the general limit.
EffectiveCapAnyWay(u, merchant) ==
    IF <<u, merchant>> \in DOMAIN cap THEN cap[<<u, merchant>>] ELSE TxLimit

EffectiveCap(u, merchant) ==
    IF <<u, merchant>> \in DOMAIN cap /\ cap[<<u, merchant>>] < TxLimit
    THEN cap[<<u, merchant>>] ELSE TxLimit

-----------------------------------------------------------------------------
(* Trusted merchants.                                                      *)

Upsert(u, merchant, kobo) ==
    /\ u # merchant
    /\ kobo > 0
    /\ UpsertTrustedMerchant(u, merchant, kobo)
    /\ NoFault
    /\ UNCHANGED <<token, payment, req, at>>

Delete(u, merchant) ==
    /\ DeleteTrustedMerchant(u, merchant)
    /\ NoFault
    /\ UNCHANGED <<token, payment, req, at>>

-----------------------------------------------------------------------------
(* Tokens.                                                                 *)

Issue(t, u, amount) ==
    /\ t \notin DOMAIN token
    /\ token' = With(token, t, [status |-> "created", issuer |-> u,
                                amount |-> amount, lapsed |-> FALSE])
    /\ NoFault
    /\ UNCHANGED <<payment, req, at, cap>>

\* The minute of its TTL is over.
Lapse(t) ==
    /\ t \in DOMAIN token
    /\ ~token[t].lapsed
    /\ token' = [token EXCEPT ![t].lapsed = TRUE]
    /\ NoFault
    /\ UNCHANGED <<payment, req, at, cap>>

\* Mutant: expires_at compared the wrong way round.
StaleReversed ==
    {t \in DOMAIN token : token[t].status = "created" /\ ~token[t].lapsed}

\* Mutant: whatever its status.
StaleAnyStatus == {t \in DOMAIN token : token[t].lapsed}

\* What ExpireStaleTokens finds.
Stale == {t \in DOMAIN token : token[t].status = "created" /\ token[t].lapsed}

\* One UPDATE at the end of each sweep of the reconciler.
ExpireStaleTokens ==
    /\ Stale # {}
    /\ token' = [t \in DOMAIN token |->
                    IF t \in Stale THEN [token[t] EXCEPT !.status = "expired"]
                                   ELSE token[t]]
    /\ NoFault
    /\ UNCHANGED <<payment, req, at, cap>>

-----------------------------------------------------------------------------
(* Requests.                                                               *)

\* A known key is answered with the payment it belongs to.  The mandate and
\* the sender are read next and may end the request, as may an error; a code
\* or an id that is not in the database ends it without a trace.
Begin(r, ask) ==
    /\ at[r] = "idle"
    /\ req' = With(req, r, ask)
    /\ \/ /\ KeyIsFree(ask.key)
          /\ Goto(r, IF ask.source \in Token THEN "claim" ELSE "original")
       \/ Goto(r, "done")
    /\ NoFault
    /\ UNCHANGED <<token, payment, cap>>

\* tokens.Claim: the lookup by code, the claimer is not the issuer, and the
\* conditional UPDATE.
Claim(r) ==
    LET t == req[r].source IN
    /\ at[r] = "claim"
    /\ \/ /\ token[t].issuer # req[r].user
          /\ ClaimToken(t)
          /\ Goto(r, "receiver")
          /\ NoFault
       \/ /\ \/ token[t].issuer = req[r].user /\ NoFault
             \/ ~Claimable(t) /\ NoFault
             \/ Fault
          /\ Goto(r, "done")
          /\ UNCHANGED token
    /\ UNCHANGED <<payment, req, cap>>

\* The receiver is loaded; an error returns and leaves the token claimed, a
\* receiver without a bank account fails it.
LoadReceiver(r) ==
    /\ at[r] = "receiver"
    /\ \/ \E step \in {"txLimit", "failToken"} : Goto(r, step) /\ NoFault
       \/ Fault /\ Goto(r, "done")
    /\ UNCHANGED <<token, payment, req, cap>>

\* Refund: the original must be settled, paid to the caller and not smaller.
\* Whether it was refunded before is not asked.
LoadOriginal(r) ==
    LET o == req[r].source IN
    /\ at[r] = "original"
    /\ \/ /\ payment[o].status = "settled"
          /\ payment[o].receiver = req[r].user
          /\ req[r].amount <= payment[o].amount
          /\ Goto(r, "txLimit")
       \/ Goto(r, "done")
    /\ NoFault
    /\ UNCHANGED <<token, payment, req, cap>>

Receiver(r) == IF Pays(r) THEN token[req[r].source].issuer
                          ELSE payment[req[r].source].sender

AmountOf(r) == IF Pays(r) THEN token[req[r].source].amount ELSE req[r].amount

Refuse(r) == Goto(r, IF Pays(r) THEN "failToken" ELSE "done")

\* An error of the lookup falls back to the general limit.
EnforceTxLimit(r) ==
    LET limit == EffectiveCap(req[r].user, Receiver(r)) IN
    /\ at[r] = "txLimit"
    /\ \/ AmountOf(r) <= limit /\ Goto(r, "dayLimit") /\ NoFault
       \/ AmountOf(r) > limit /\ Refuse(r) /\ NoFault
       \/ AmountOf(r) <= TxLimit /\ Goto(r, "dayLimit") /\ Fault
    /\ UNCHANGED <<token, payment, req, cap>>

EnforceDayLimit(r) ==
    LET total == SumUserSentLast24h(req[r].user) + AmountOf(r) IN
    /\ at[r] = "dayLimit"
    /\ \/ total <= DayLimit /\ Goto(r, "insert") /\ NoFault
       \/ total > DayLimit /\ Refuse(r) /\ NoFault
       \/ Refuse(r) /\ Fault
    /\ UNCHANGED <<token, payment, req, cap>>

\* Mutant: no return after the token was failed.
FailTokenGoesOn(r) ==
    /\ at[r] = "failToken"
    /\ \/ MarkTokenFailed(req[r].source) /\ NoFault
       \/ Fault /\ UNCHANGED token
    /\ Goto(r, "insert")
    /\ UNCHANGED <<payment, req, cap>>

FailToken(r) ==
    /\ at[r] = "failToken"
    /\ \/ MarkTokenFailed(req[r].source) /\ NoFault
       \/ Fault /\ UNCHANGED token
    /\ Goto(r, "done")
    /\ UNCHANGED <<payment, req, cap>>

\* CreatePayment.  A key that was used meanwhile violates the unique index;
\* an error returns and leaves the token claimed.
CreatePayment(r, p) ==
    /\ at[r] = "insert"
    /\ \/ /\ p \notin DOMAIN payment
          /\ KeyIsFree(req[r].key)
          /\ payment' = With(payment, p,
                 [status |-> "initiated", key |-> req[r].key,
                  source |-> req[r].source, sender |-> req[r].user,
                  receiver |-> Receiver(r), amount |-> AmountOf(r),
                  recent |-> TRUE])
          /\ NoFault
       \/ /\ \/ ~KeyIsFree(req[r].key) /\ NoFault
             \/ Fault
          /\ UNCHANGED payment
    /\ Goto(r, "done")
    /\ UNCHANGED <<token, req, cap>>

\* The client goes away: what is left of the request errs.
Disconnect(r) ==
    /\ at[r] \notin {"idle", "done"}
    /\ Fault
    /\ Goto(r, "done")
    /\ UNCHANGED <<token, payment, req, cap>>

-----------------------------------------------------------------------------
(* The payments once they exist, as Payments has them.                     *)

Advance(p) ==
    /\ p \in DOMAIN payment
    /\ \E s \in PaymentStatus :
         /\ <<payment[p].status, s>> \in Life!Moves
         /\ payment' = [payment EXCEPT ![p].status = s]
    /\ NoFault
    /\ UNCHANGED <<token, req, at, cap>>

EndToken(p) ==
    /\ p \in DOMAIN payment
    /\ payment[p].source \in Token
    /\ \E s \in {"settled", "failed"} :
         token' = [token EXCEPT ![payment[p].source].status = s]
    /\ NoFault
    /\ UNCHANGED <<payment, req, at, cap>>

\* A day passes since created_at.
Age(p) ==
    /\ p \in DOMAIN payment
    /\ payment[p].recent
    /\ payment' = [payment EXCEPT ![p].recent = FALSE]
    /\ NoFault
    /\ UNCHANGED <<token, req, at, cap>>

-----------------------------------------------------------------------------
RequestStep(r) == \/ Claim(r) \/ LoadReceiver(r) \/ LoadOriginal(r)
                  \/ EnforceTxLimit(r) \/ EnforceDayLimit(r) \/ FailToken(r)
                  \/ \E p \in Payment : CreatePayment(r, p)

Next ==
    \/ \E t \in Token :
         \/ \E u \in User, amount \in Amount : Issue(t, u, amount)
         \/ Lapse(t)
    \/ ExpireStaleTokens
    \/ \E r \in Request :
         \/ \E ask \in [user : User, key : Key, amount : Amount,
                        source : DOMAIN token \cup DOMAIN payment] :
                Begin(r, ask)
         \/ RequestStep(r)
         \/ Disconnect(r)
    \/ \E p \in Payment : Advance(p) \/ EndToken(p) \/ Age(p)
    \/ \E u \in Capper, merchant \in User :
         \/ \E kobo \in Cap : Upsert(u, merchant, kobo)
         \/ Delete(u, merchant)

Spec == Init /\ [][Next]_vars

\* Time passes, and the reconciler sweeps every five minutes.
SweptSpec ==
    /\ Spec
    /\ \A t \in Token : WF_vars(Lapse(t))
    /\ SF_vars(ExpireStaleTokens)

-----------------------------------------------------------------------------
(* What the code keeps.                                                    *)

\* The request is past its claim and has not yet let go of the token.
Holding == {"receiver", "txLimit", "dayLimit", "insert", "failToken"}

HoldersOf(t) ==
    {r \in DOMAIN req : req[r].source = t /\ at[r] \in Holding}
    \cup {p \in DOMAIN payment : payment[p].source = t}

\* However many requests race for a token, with the same idempotency key or
\* not, it belongs to one of them or to the one payment made of it; a token
\* that may still be claimed or that expired belongs to none.  So no request
\* fails a token under another one's payment, and none is paid twice.
TokenHasOneHolder ==
    \A t \in DOMAIN token :
        /\ \A x, y \in HoldersOf(t) : x = y
        /\ token[t].status \in {"created", "expired"} => HoldersOf(t) = {}

\* A token that was expired stays so: neither a request that looked it up
\* earlier nor the sweep that races with a claim revives it.
ExpiredIsFinal ==
    [][\A t \in DOMAIN token :
          token[t].status = "expired" => token'[t].status = "expired"]_vars

LifeOf(t) == IF t \in DOMAIN token THEN token[t].status ELSE "unissued"

PaidWith(t) == {p \in DOMAIN payment : payment[p].source = t}

Abstract == INSTANCE Voucher WITH life <- [t \in Token |-> LifeOf(t)],
                                  paid <- [t \in Token |-> PaidWith(t)]

\* A token is good for one payment, as Voucher has it, however requests,
\* retries, the sweep and the payments' own endings of it interleave: one
\* that was failed under a request is never paid after all, and only a
\* payment settles it.
ImplementsVoucher == Abstract!Spec

\* However caps are set, raised and deleted while requests are under way, and
\* whatever errs: they only ever lower the limit on what one payment may be,
\* and a refund is held to it as well.
NoneAboveTxLimit == \A p \in DOMAIN payment : payment[p].amount <= TxLimit

Unclaimed(t) == t \in DOMAIN token /\ token[t].status = "created"

\* A token nobody claims is expired in the end.
StaleTokensEnd == \A t \in Token : Unclaimed(t) ~> ~Unclaimed(t)

-----------------------------------------------------------------------------
(* What the code declares and does not keep.                               *)

\* internal/payments/service.go:41: what a user has sent within a day, or
\* has committed to send, is within the limit.
WithinDayLimit ==
    \A u \in User :
        LET Out == {p \in DOMAIN payment :
                       /\ payment[p].sender = u
                       /\ payment[p].recent
                       /\ payment[p].status \notin {"failed", "refunded"}}
        IN  MapThenSumSet(LAMBDA p : payment[p].amount, Out) <= DayLimit
=============================================================================
