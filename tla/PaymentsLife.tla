---------------------------- MODULE PaymentsLife ----------------------------
(***************************************************************************)
(* A payment's status makes the moves of Lifecycle and no others, so that  *)
(* Payments implements it, and the ledger never shows money that was not   *)
(* sent nor books a payment again whose debit it has: for any number of    *)
(* servers, payments, requests and faults.                                 *)
(***************************************************************************)
EXTENDS PaymentsProofs, FiniteSetTheorems

\* The steps a thread gets to only when the row names a transfer.
Booking == {"debit", "credit", "settle", "settleToken", "countLedger",
            "noteSuccess", "noteFailure", "verifyTransfer", "recheck"}

Off == {"idle", "done"}

\* Nobody works on a payment that has not been inserted.
Absent(p) ==
    row[p].status = "none" =>
        /\ \A t \in Thread : pc[t][p] \in Off
        /\ p \notin armed
        /\ \A s \in Server : p \notin DOMAIN batch[s]

LifeInv(p) ==
    /\ row[p].chargeRef => row[p].status \notin {"none", "initiated"}
    /\ Absent(p)
    /\ \A t \in Thread : pc[t][p] \in Booking => row[p].transferRef

\* The steps of a request that may still arm the timer.
Early == {"idle", "charge", "saveCharge", "hold", "arm"}

\* A payment has one timer, armed once and fired once.
TimerInv(p) ==
    /\ row[p].status = "none" => pc[Request][p] = "idle"
    /\ pc[Request][p] \in Early => p \notin armed /\ pc[Timer][p] = "idle"
    /\ p \in armed => pc[Timer][p] = "idle"

\* The threads that have written the debit and not yet the credit.
Between(p) == {t \in Thread : pc[t][p] = "credit"}

PairInv(p) ==
    /\ IsFiniteSet(Between(p))
    /\ ledger[p].credit + Cardinality(Between(p)) <= ledger[p].debit

\* The thread that has just sent p is the only one, and the first to book.
SaverInv(p) ==
    \A t \in Thread : At(t, p, "saveTransfer") =>
        /\ ~ row[p].transferRef
        /\ \A u \in Thread : At(u, p, "saveTransfer") => u = t

\* As long as no webhook has come in for p, one thread books it, once.
SinglePair(p) ==
    (\A h \in Hook : At(h, p, "idle")) =>
        /\ ledger[p].debit <= 1
        /\ \A t \in Thread : At(t, p, "debit") =>
              /\ ledger[p].debit = 0
              /\ \A u \in Thread : At(u, p, "debit") => u = t

\* If nothing has erred, every debit has its credit or a thread that is
\* about to write it, and a transfer on record is booked or about to be.
WholePairs(p) ==
    faults = 0 =>
        /\ ledger[p].credit + Cardinality(Between(p)) = ledger[p].debit
        /\ row[p].transferRef =>
             ledger[p].debit > 0 \/ \E t \in Thread : At(t, p, "debit")

BookedInv(p) ==
    /\ row[p].status = "settled" \/ ledger[p].debit > 0 => row[p].transferRef
    /\ SaverInv(p)
    /\ SinglePair(p)
    /\ WholePairs(p)

Books ==
    \A p \in Payment :
        LifeInv(p) /\ TimerInv(p) /\ PairInv(p) /\ BookedInv(p)

-----------------------------------------------------------------------------
(* What a step does to the row of one payment.                             *)

Moved(p) ==
    \/ <<row[p].status, row'[p].status>> \in Life!Moves
    \/ row'[p].status = row[p].status

Lawful(p) ==
    /\ \A q \in Payment \ {p} : row'[q] = row[q]
    /\ Moved(p)
    /\ row'[p].status # "none"
    /\ row[p].transferRef => row'[p].transferRef
    /\ row'[p].chargeRef => row[p].chargeRef \/ row'[p].status = "transferring"

\* Only the request arms the timer, on its way out, only the timer takes
\* itself off, and nobody goes back to where it was.
Orderly(t, p, s) ==
    /\ \/ armed' \subseteq armed
       \/ /\ t = Request /\ pc[t][p] \in Early /\ s \notin Early
          /\ armed' \subseteq armed \cup {p}
    /\ t = Timer => pc[t][p] # "idle" \/ p \in armed \ armed'
    /\ t = Request =>
         (s \in Early => pc[t][p] \in Early \/ row[p].status = "none")

\* A step that takes thread t to step s of p.
Works(t, p, s) ==
    /\ Goto(t, p, s)
    /\ Lawful(p)
    /\ Orderly(t, p, s)
    /\ s \in Booking => row'[p].transferRef
    /\ armed' \subseteq armed \cup {p}
    /\ \A v \in Server : DOMAIN batch'[v] \subseteq DOMAIN batch[v]
    /\ s = "credit" => Debit(t, p)
    /\ UNCHANGED ledger \/ Debit(t, p) \/ Credit(t, p)

\* A step that takes no thread on.
Rests ==
    /\ UNCHANGED <<row, ledger>>
    /\ \A t \in Thread, p \in Payment :
          \/ pc'[t][p] = pc[t][p]
          \/ pc[t][p] # "idle" /\ pc'[t][p] = Ended(t)
    /\ armed' \subseteq armed
    /\ \A v \in Server : \A p \in DOMAIN batch'[v] :
          p \in DOMAIN batch[v] \/ row[p].status # "none"

LEMMA BookingSteps ==
    /\ Booking \subseteq Step \ Off
    /\ "credit" \in Booking
    /\ \A t : Ended(t) \in Off
BY DEF Booking, Off, Step, Ended

\* A thread other than a request or a timer is orderly if it arms nothing.
LEMMA ArmsNothing ==
    ASSUME NEW t, NEW p, NEW s, armed' \subseteq armed,
           t \in {Request, Timer} => pc[t][p] # "idle" /\ s \notin Early
    PROVE  Orderly(t, p, s)
BY DEF Orderly

LEMMA EndsLate ==
    /\ \A t \in {Request, Timer} : Ended(t) = "done"
    /\ Timer # Request
    /\ \A t \in Undoer \cup Hook \cup Server : t \notin {Request, Timer}
BY PaymentsAssumption DEF Ended, Sender, Request, Timer

LEMMA SameRow ==
    ASSUME NEW p \in Payment, UNCHANGED row, row[p].status # "none"
    PROVE  Lawful(p)
BY DEF Lawful, Moved

LEMMA Written ==
    ASSUME TypeOK, NEW p \in Payment, NEW s \in Status,
           <<row[p].status, s>> \in Life!Moves \/ s = row[p].status,
           s # "none",
           NEW r \in Row, r.status = s,
           row[p].transferRef => r.transferRef,
           r.chargeRef => row[p].chargeRef \/ s = "transferring",
           row' = [row EXCEPT ![p] = r]
    PROVE  Lawful(p)
<1>1. row'[p] = r /\ \A q \in Payment \ {p} : row'[q] = row[q]
  BY DEF TypeOK
<1>2. QED
  BY <1>1 DEF Lawful, Moved

LEMMA RowAmended ==
    ASSUME NEW r \in Row, NEW s \in Status
    PROVE  /\ [r EXCEPT !.status = s].status = s
           /\ [r EXCEPT !.status = s].chargeRef = r.chargeRef
           /\ [r EXCEPT !.status = s].transferRef = r.transferRef
           /\ [r EXCEPT !.chargeRef = TRUE, !.status = s].status = s
           /\ [r EXCEPT !.chargeRef = TRUE, !.status = s].transferRef
                = r.transferRef
           /\ [r EXCEPT !.transferRef = TRUE, !.status = s].status = s
           /\ [r EXCEPT !.transferRef = TRUE, !.status = s].transferRef
           /\ [r EXCEPT !.transferRef = TRUE, !.status = s].chargeRef
                = r.chargeRef
           /\ [r EXCEPT !.refundRef = TRUE, !.status = s].status = s
           /\ [r EXCEPT !.refundRef = TRUE, !.status = s].chargeRef
                = r.chargeRef
           /\ [r EXCEPT !.refundRef = TRUE, !.status = s].transferRef
                = r.transferRef
BY DEF Row

\* The forms that the statements of payments.sql have.
LEMMA Rewritten ==
    ASSUME TypeOK, NEW p \in Payment, NEW s \in Status, s # "none",
           <<row[p].status, s>> \in Life!Moves \/ s = row[p].status,
           \/ row' = [row EXCEPT ![p] = [row[p] EXCEPT !.status = s]]
           \/ /\ s = "transferring"
              /\ row' = [row EXCEPT ![p] =
                            [row[p] EXCEPT !.chargeRef = TRUE, !.status = s]]
           \/ row' = [row EXCEPT ![p] =
                         [row[p] EXCEPT !.transferRef = TRUE, !.status = s]]
           \/ row' = [row EXCEPT ![p] =
                         [row[p] EXCEPT !.refundRef = TRUE, !.status = s]]
    PROVE  Lawful(p)
<1>1. row[p] \in Row
  BY DEF TypeOK
<1> DEFINE r1 == [row[p] EXCEPT !.status = s]
           r2 == [row[p] EXCEPT !.chargeRef = TRUE, !.status = s]
           r3 == [row[p] EXCEPT !.transferRef = TRUE, !.status = s]
           r4 == [row[p] EXCEPT !.refundRef = TRUE, !.status = s]
<1>2. /\ r1 \in Row /\ r1.status = s /\ r1.chargeRef = row[p].chargeRef
         /\ r1.transferRef = row[p].transferRef
      /\ r2 \in Row /\ r2.status = s /\ r2.transferRef = row[p].transferRef
      /\ r3 \in Row /\ r3.status = s /\ r3.chargeRef = row[p].chargeRef
         /\ r3.transferRef
      /\ r4 \in Row /\ r4.status = s /\ r4.chargeRef = row[p].chargeRef
         /\ r4.transferRef = row[p].transferRef
  BY <1>1, RowFields, RowAmended
<1>3. \/ row' = [row EXCEPT ![p] = r1]
      \/ s = "transferring" /\ row' = [row EXCEPT ![p] = r2]
      \/ row' = [row EXCEPT ![p] = r3]
      \/ row' = [row EXCEPT ![p] = r4]
  OBVIOUS
<1> HIDE DEF r1, r2, r3, r4
<1>4. QED
  BY <1>2, <1>3, Written

\* The statements, each with what its callers know of the row.
LEMMA StatementsLawful ==
    ASSUME TypeOK, NEW p \in Payment
    PROVE  /\ UpdatePaymentCharge(p)
              /\ row[p].status \in {"initiated", "transferring", "failed"}
              => Lawful(p)
           /\ UpdatePaymentTransfer(p, "settling")
              /\ row[p].status \in {"transferring", "settling", "settled",
                                    "failed"}
              => Lawful(p) /\ row'[p].transferRef
           /\ MarkPaymentSettled(p)
              /\ row[p].status \in {"settling", "settled", "failed"}
              => Lawful(p)
           /\ MarkPaymentFailed(p) /\ row[p].status # "none" => Lawful(p)
           /\ MarkPaymentAutoRefunded(p) /\ row[p].status # "none" => Lawful(p)
           /\ HoldPayment(p) \/ ReleaseHeldPayment(p) \/ MarkPaymentRefunded(p)
              => Lawful(p)
<1>1. row[p] \in Row /\ row[p].status \in Status
  BY DEF TypeOK, Row
<1>2. {"transferring", "settling", "settled", "failed", "held", "refunded"}
         \subseteq Status
  BY DEF Status
<1>3. ASSUME UpdatePaymentCharge(p),
             row[p].status \in {"initiated", "transferring", "failed"}
      PROVE  Lawful(p)
  BY <1>1, <1>2, <1>3, Rewritten
     DEF UpdatePaymentCharge, WriteRow, Life!Moves
<1>4. ASSUME UpdatePaymentTransfer(p, "settling"),
             row[p].status \in {"transferring", "settling", "settled", "failed"}
      PROVE  Lawful(p) /\ row'[p].transferRef
  <2>1. Lawful(p)
    BY <1>1, <1>2, <1>4, Rewritten
       DEF UpdatePaymentTransfer, WriteRow, Life!Moves
  <2>2. QED
    BY <2>1, <1>2, <1>4, RowFacts
<1>5. ASSUME MarkPaymentSettled(p),
             row[p].status \in {"settling", "settled", "failed"}
      PROVE  Lawful(p)
  BY <1>1, <1>2, <1>5, Rewritten
     DEF MarkPaymentSettled, WriteRow, Life!Moves
<1>6. ASSUME MarkPaymentFailed(p), row[p].status # "none"
      PROVE  Lawful(p)
  <2>1. <<row[p].status, "failed">> \in Life!Moves \/ row[p].status = "failed"
    BY <1>1, <1>6 DEF Life!Moves, Status
  <2>2. QED
    BY <1>1, <1>2, <1>6, <2>1, Rewritten
       DEF MarkPaymentFailed, WriteRow
<1>7. ASSUME MarkPaymentAutoRefunded(p), row[p].status # "none"
      PROVE  Lawful(p)
  <2>1. <<row[p].status, "failed">> \in Life!Moves \/ row[p].status = "failed"
    BY <1>1, <1>7 DEF Life!Moves, Status
  <2>2. QED
    BY <1>1, <1>2, <1>7, <2>1, Rewritten
       DEF MarkPaymentAutoRefunded, WriteRow
<1>8. ASSUME HoldPayment(p)
      PROVE  Lawful(p)
  <2>1. row' = [row EXCEPT ![p] = [row[p] EXCEPT !.status = "held"]]
    BY <1>8 DEF HoldPayment
  <2>2. QED
    BY <1>1, <1>2, <1>8, <2>1, Rewritten
       DEF HoldPayment, Life!Moves
<1>9. ASSUME ReleaseHeldPayment(p)
       PROVE  Lawful(p)
  BY <1>1, <1>2, <1>9, Rewritten
     DEF ReleaseHeldPayment, WriteRow, Life!Moves
<1>10. ASSUME MarkPaymentRefunded(p)
       PROVE  Lawful(p)
  BY <1>1, <1>2, <1>10, Rewritten
     DEF MarkPaymentRefunded, WriteRow, Life!Moves
<1>11. QED
  BY <1>3, <1>4, <1>5, <1>6, <1>7, <1>8, <1>9, <1>10

-----------------------------------------------------------------------------
(* The steps of the code, group by group.                                  *)

LEMMA Present ==
    ASSUME NEW p \in Payment, LifeInv(p), NEW t \in Thread, pc[t][p] \notin Off
    PROVE  row[p].status # "none"
BY DEF LifeInv, Absent

LEMMA Referenced ==
    ASSUME NEW p \in Payment, LifeInv(p), PaymentInv(p),
           NEW t \in Thread, pc[t][p] \in Booking
    PROVE  row[p].transferRef /\ row[p].status \in {"settling", "settled", "failed"}
BY DEF LifeInv, PaymentInv

\* Goes to a step that asks for nothing.
LEMMA WorksPlain ==
    ASSUME NEW t, NEW p \in Payment, NEW s, Goto(t, p, s), s \notin Booking,
           Lawful(p), Orderly(t, p, s), armed' \subseteq armed \cup {p},
           UNCHANGED <<batch, ledger>>
    PROVE  Works(t, p, s)
BY BookingSteps DEF Works

\* Goes to a step that is only for a row with a transfer reference.
LEMMA WorksBooking ==
    ASSUME NEW t, NEW p \in Payment, NEW s, Goto(t, p, s),
           s = "credit" => Debit(t, p), Orderly(t, p, s),
           row[p].transferRef, Lawful(p), UNCHANGED <<armed, batch>>,
           UNCHANGED ledger \/ Debit(t, p) \/ Credit(t, p)
    PROVE  Works(t, p, s)
BY DEF Works, Lawful

PlainSteps == {"idle", "done", "charge", "saveCharge", "hold", "arm", "release",
               "load", "transfer", "saveTransfer", "fail", "reject", "close",
               "failToken", "refund", "markUndone", "disarm", "verifyCharge",
               "giveBack", "markRefunded"}

LEMMA PlainFacts ==
    /\ PlainSteps \cap Booking = {}
    /\ PlainSteps \cup Booking = Step
    /\ \A t : Ended(t) \in PlainSteps
BY DEF PlainSteps, Booking, Step, Ended

LEMMA CreateWorks ==
    ASSUME TypeOK, NEW p \in Payment, LifeInv(p), NEW kind \in Kind,
           Create(p, kind)
    PROVE  Works(Request, p, "charge")
<1>1. row[p].status = "none" /\ ~ row[p].chargeRef
  BY DEF Create, LifeInv
<1>2. row[p] \in Row /\ "initiated" \in Status
  BY DEF TypeOK, Status
<1> DEFINE r == [row[p] EXCEPT !.status = "initiated", !.kind = kind]
<1>3. /\ r \in Row /\ r.status = "initiated"
      /\ r.chargeRef = row[p].chargeRef /\ r.transferRef = row[p].transferRef
  BY <1>2 DEF Row
<1>4. row' = [row EXCEPT ![p] = r]
  BY DEF Create
<1> HIDE DEF r
<1>5. Lawful(p)
  BY <1>1, <1>2, <1>3, <1>4, Written DEF Life!Moves
<1>6. Orderly(Request, p, "charge")
  BY <1>1, EndsLate DEF Orderly, Create
<1>7. QED
  BY <1>5, <1>6, WorksPlain, PlainFacts DEF Create, PlainSteps, recon

LEMMA RequestWorks ==
    ASSUME TypeOK, NEW p \in Payment, LifeInv(p), PaymentInv(p), RequestStep(p)
    PROVE  \E s \in Step : Works(Request, p, s)
<1>1. Request \in Thread /\ UNCHANGED <<batch, ledger>>
  BY ThreadFacts
     DEF RequestStep, Charge, ChargeErrs, SaveCharge, Hold, Arm, db, recon
<1>2. row[p].status # "none"
  BY <1>1, Present
     DEF RequestStep, Charge, ChargeErrs, SaveCharge, Hold, Arm, At, Off
<1>3. armed' \subseteq armed \cup {p}
  BY DEF RequestStep, Charge, ChargeErrs, SaveCharge, Hold, Arm
<1>4. \E s \in PlainSteps :
         /\ Goto(Request, p, s)
         /\ s \in Early => armed' \subseteq armed
  BY PlainFacts, EndsLate
     DEF RequestStep, Charge, ChargeErrs, SaveCharge, Hold, Arm,
         Return, PlainSteps, Early
<1>5. Lawful(p)
  <2>1. CASE SaveCharge(p)
    <3>1. row[p].status \in {"initiated", "transferring", "failed"}
      BY <1>1, <2>1 DEF SaveCharge, At, PaymentInv, SendersAreAlone, Sending
    <3>2. QED
      BY <1>2, <2>1, <3>1, StatementsLawful, SameRow DEF SaveCharge
  <2>2. CASE Hold(p)
    BY <1>2, <2>2, StatementsLawful, SameRow DEF Hold
  <2>3. CASE Charge(p) \/ ChargeErrs(p) \/ Arm(p)
    BY <1>2, <2>3, SameRow DEF Charge, ChargeErrs, Arm, db
  <2>4. QED
    BY <2>1, <2>2, <2>3 DEF RequestStep
<1>6. \A s : (s \in Early => armed' \subseteq armed) => Orderly(Request, p, s)
  BY <1>3, EndsLate
     DEF RequestStep, Charge, ChargeErrs, SaveCharge, Hold, Arm, At, Early,
         Orderly
<1>7. QED
  BY <1>1, <1>3, <1>4, <1>5, <1>6, WorksPlain, PlainFacts

LEMMA SenderWorks ==
    ASSUME TypeOK, NEW p \in Payment, LifeInv(p), PaymentInv(p),
           NEW t \in Sender, SenderStep(t, p)
    PROVE  \E s \in Step : Works(t, p, s)
<1>1. t \in Thread /\ UNCHANGED <<armed, batch, ledger>>
  BY ThreadFacts DEF SenderStep, Release, Load, Transfer, TransferErrs,
                     SaveTransfer, db, recon
<1>2. row[p].status # "none"
  BY <1>1, Present DEF SenderStep, Release, Load, Transfer, TransferErrs,
                       SaveTransfer, At, Off
<1>3. CASE SaveTransfer(t, p) /\ UpdatePaymentTransfer(p, "settling")
           /\ Goto(t, p, "debit")
  <2>1. ps[p].sent = 1 /\ row[p].chargeRef
    BY <1>1, <1>3 DEF SaveTransfer, At, PaymentInv, TransferEvidence, Sent
  <2>2. row[p].status \in {"transferring", "settling", "settled", "failed"}
    BY <2>1 DEF PaymentInv, LifeInv, TypeOK, Row, Status
  <2>3. Lawful(p) /\ row'[p].transferRef
    BY <1>3, <2>2, StatementsLawful
  <2>4. Orderly(t, p, "debit")
    BY <1>1, <1>3, ArmsNothing DEF SaveTransfer, At, Early
  <2>5. QED
    BY <1>1, <1>3, <2>3, <2>4, BookingSteps DEF Works, Step
<1>4. CASE ~ (SaveTransfer(t, p) /\ UpdatePaymentTransfer(p, "settling")
              /\ Goto(t, p, "debit"))
  <2>1. \E s \in PlainSteps : Goto(t, p, s) /\ Orderly(t, p, s)
    <3>1. pc[t][p] # "idle"
      BY <1>4 DEF SenderStep, Release, Load, Transfer, TransferErrs,
                  SaveTransfer, At
    <3>2. \A s \in {"load", "transfer", "saveTransfer", "fail", Ended(t)} :
             s \in PlainSteps /\ Orderly(t, p, s)
      BY <1>1, <3>1, ArmsNothing, EndsLate, PlainFacts DEF Early, PlainSteps
    <3>3. \E s \in {"load", "transfer", "saveTransfer", "fail", Ended(t)} :
             Goto(t, p, s)
      BY <1>4 DEF SenderStep, Release, Load, Transfer, TransferErrs,
                  SaveTransfer, Return
    <3>4. QED
      BY <3>2, <3>3
  <2>2. UNCHANGED row \/ ReleaseHeldPayment(p)
    BY <1>4 DEF SenderStep, Release, Load, Transfer, TransferErrs,
                SaveTransfer, db
  <2>3. Lawful(p)
    BY <1>2, <2>2, StatementsLawful, SameRow
  <2>4. QED
    BY <1>1, <2>1, <2>3, WorksPlain, PlainFacts
<1>5. QED
  BY <1>3, <1>4

LEMMA BookWorks ==
    ASSUME TypeOK, NEW p \in Payment, LifeInv(p), PaymentInv(p),
           NEW t \in Thread, BookStep(t, p)
    PROVE  \E s \in Step : Works(t, p, s)
<1>1. UNCHANGED <<armed, batch>>
  BY DEF BookStep, Debit, Credit, Settle, SettleToken, Fail, FailToken, Reject,
         Close, recon
<1>0. \A s \in {"credit", "settle", "settleToken", "fail", "failToken",
                Ended(t)} :
         Orderly(t, p, s)
  <2>1. pc[t][p] # "idle"
    BY DEF BookStep, Debit, Credit, Settle, SettleToken, Fail, FailToken,
           Reject, Close, At
  <2>2. QED
    BY <1>1, <2>1, ArmsNothing, EndsLate DEF Early
<1>2. CASE Debit(t, p) \/ Credit(t, p) \/ Settle(t, p) \/ SettleToken(t, p)
  <2>1. /\ row[p].transferRef
        /\ row[p].status \in {"settling", "settled", "failed"}
    BY <1>2, Referenced DEF Debit, Credit, Settle, SettleToken, At, Booking
  <2>2. Lawful(p)
    BY <1>2, <2>1, StatementsLawful, SameRow
       DEF Debit, Credit, Settle, SettleToken
  <2>3. UNCHANGED ledger \/ Debit(t, p) \/ Credit(t, p)
    BY <1>2 DEF Settle, SettleToken
  <2>4. CASE Goto(t, p, "credit") /\ Debit(t, p)
    BY <1>0, <1>1, <2>1, <2>2, <2>4, WorksBooking DEF Step
  <2>5. CASE \E s \in {"settle", "settleToken", "fail", Ended(t)} : Goto(t, p, s)
    <3>1. \A s \in {"settle", "settleToken", "fail", Ended(t)} :
             s \in Step /\ s # "credit"
      BY DEF Step, Ended
    <3>2. QED
      BY <1>0, <1>1, <2>1, <2>2, <2>3, <2>5, <3>1, WorksBooking
  <2>6. QED
    BY <1>2, <2>4, <2>5
       DEF Debit, Credit, LedgerErrs, Settle, SettleToken, Return
<1>3. CASE Fail(t, p) \/ FailToken(t, p) \/ Reject(t, p) \/ Close(t, p)
  <2>1. row[p].status # "none"
    BY <1>3, Present DEF Fail, FailToken, Reject, Close, At, Off
  <2>2. Lawful(p)
    BY <1>3, <2>1, StatementsLawful, SameRow DEF Fail, FailToken, Reject, Close
  <2>3. \E s \in PlainSteps : Goto(t, p, s) /\ Orderly(t, p, s)
    BY <1>0, <1>3, PlainFacts
       DEF Fail, FailToken, Reject, Close, Return, PlainSteps
  <2>4. QED
    BY <1>1, <1>3, <2>2, <2>3, WorksPlain, PlainFacts
       DEF Fail, FailToken, Reject, Close
<1>4. QED
  BY <1>2, <1>3 DEF BookStep

LEMMA UndoWorks ==
    ASSUME TypeOK, NEW p \in Payment, LifeInv(p),
           NEW u \in Undoer, Undo(u, p) \/ UndoStep(u, p)
    PROVE  \E s \in Step : Works(u, p, s)
<1>1. u \in Thread /\ UNCHANGED <<batch, ledger>> /\ armed' \subseteq armed
  BY ThreadFacts DEF Undo, UndoStep, UndoRefund, MarkUndone, Disarm, db, recon
<1>2. row[p].status # "none"
  BY <1>1, Present DEF Undo, UndoChecks, UndoStep, UndoRefund, MarkUndone,
                       Disarm, At, Off
<1>3. \E s \in PlainSteps : Goto(u, p, s)
  BY PlainFacts DEF Undo, UndoStep, UndoRefund, MarkUndone, Disarm, Return,
                    PlainSteps
<1>4. Lawful(p)
  BY <1>2, StatementsLawful, SameRow
     DEF Undo, UndoStep, UndoRefund, MarkUndone, Disarm, db
<1>5. \A s : Orderly(u, p, s)
  BY <1>1, EndsLate, ArmsNothing
<1>6. QED
  BY <1>1, <1>3, <1>4, <1>5, WorksPlain, PlainFacts

LEMMA HookWorks ==
    ASSUME TypeOK, NEW p \in Payment, LifeInv(p), PaymentInv(p),
           NEW h \in Hook, Delivery(h, p) \/ HookStep(h, p)
    PROVE  \E s \in Step : Works(h, p, s)
<1>1. h \in Thread /\ UNCHANGED <<armed, batch, ledger>>
  BY ThreadFacts DEF Delivery, ChargeFailedHook, TransferHook, LateHook,
                     HookStep, NoteTransfer, CountLedger, db, recon
<1>0. \A s : Orderly(h, p, s)
  BY <1>1, EndsLate, ArmsNothing
<1>2. CASE ChargeFailedHook(h, p) \/ LateHook(h, p)
  <2>1. row[p].status # "none" /\ UNCHANGED row
    BY <1>2 DEF ChargeFailedHook, LateHook, LifeInv, db
  <2>2. Lawful(p)
    BY <2>1, SameRow
  <2>3. \E s \in PlainSteps : Goto(h, p, s)
    BY <1>2, PlainFacts DEF ChargeFailedHook, LateHook, Return, PlainSteps
  <2>4. QED
    BY <1>0, <1>1, <2>2, <2>3, WorksPlain, PlainFacts
<1>3. CASE TransferHook(h, p) \/ HookStep(h, p)
  <2>1. /\ row[p].transferRef
        /\ row[p].status \in {"settling", "settled", "failed"}
    BY <1>1, <1>3, Referenced DEF TransferHook, HookStep, NoteTransfer,
       CountLedger, At, Booking, PaymentInv
  <2>2. Lawful(p)
    <3>1. CASE UNCHANGED row
      BY <2>1, <3>1, SameRow
    <3>2. CASE NoteTransfer(h, p) /\ UpdatePaymentTransfer(p, seen[h])
      <4>1. seen[h] = "settling"
        BY <3>2 DEF NoteTransfer, PaymentInv, NotesAreSettling, Note
      <4>2. QED
        BY <2>1, <3>2, <4>1, StatementsLawful
    <3>3. QED
      BY <1>3, <3>1, <3>2 DEF TransferHook, HookStep, NoteTransfer,
         CountLedger, db
  <2>3. \E s \in {"noteSuccess", "noteFailure", "countLedger", "reject",
                  "debit", "settle", Ended(h)} : Goto(h, p, s)
    BY <1>3 DEF TransferHook, HookStep, NoteTransfer, CountLedger, Return
  <2>4. \A s \in {"noteSuccess", "noteFailure", "countLedger", "reject",
                  "debit", "settle", Ended(h)} : s \in Step /\ s # "credit"
    BY DEF Step, Ended
  <2>5. QED
    BY <1>0, <1>1, <2>1, <2>2, <2>3, <2>4, WorksBooking
<1>4. QED
  BY <1>2, <1>3 DEF Delivery

LEMMA VisitWorks ==
    ASSUME TypeOK, NEW p \in Payment, LifeInv(p), PaymentInv(p),
           NEW v \in Server, VisitStep(v, p)
    PROVE  \E s \in Step : Works(v, p, s)
<1>1. PICK s \in {"release", "verifyTransfer", "verifyCharge", "close", "idle",
                  "recheck", "giveBack"} :
         /\ Visit(v, p, s)
         /\ s \in {"verifyTransfer", "recheck"} => batch[v][p] = "transfer"
  <2>1. p \in DOMAIN batch[v] => batch[v][p] \in Leg
    BY DEF TypeOK
  <2>2. QED
    BY <2>1 DEF VisitStep, ReleaseOne, ReconcileOne, AutoRefundOne, Leg
<1>2. p \in DOMAIN batch[v] /\ Goto(v, p, s) /\ UNCHANGED <<row, armed, ledger>>
  BY <1>1 DEF Visit, db
<1>3. row[p].status # "none"
  BY <1>2 DEF LifeInv, Absent
<1>4. Lawful(p)
  BY <1>2, <1>3, SameRow
<1>5. s \in Step /\ s # "credit"
  BY DEF Step
<1>6. s \in Booking => row'[p].transferRef
  BY <1>1, <1>2, BookingSteps DEF Booking, PaymentInv
<1>7. \A w \in Server : DOMAIN batch'[w] \subseteq DOMAIN batch[w]
  BY <1>1 DEF Visit, TypeOK
<1>8. Orderly(v, p, s)
  BY <1>2, EndsLate, ArmsNothing
<1>9. QED
  BY <1>2, <1>4, <1>5, <1>6, <1>7, <1>8 DEF Works

LEMMA VerifyWorks ==
    ASSUME TypeOK, NEW p \in Payment, LifeInv(p), PaymentInv(p),
           NEW v \in Server, VerifyStep(v, p)
    PROVE  \E s \in Step : Works(v, p, s)
<1>1. v \in Thread /\ UNCHANGED <<armed, batch, ledger>>
  BY ThreadFacts DEF VerifyStep, ReconcileTransfer, ReconcileCharge, Recheck,
                     GiveBack, MarkRefunded, db, recon
<1>2. row[p].status # "none"
  BY <1>1, Present DEF VerifyStep, ReconcileTransfer, ReconcileCharge, Recheck,
                       GiveBack, MarkRefunded, At, Off
<1>3. Lawful(p)
  BY <1>2, StatementsLawful, SameRow
     DEF VerifyStep, ReconcileTransfer, ReconcileCharge, Recheck, GiveBack,
         MarkRefunded, db
<1>0. \A s : Orderly(v, p, s)
  BY <1>1, EndsLate, ArmsNothing
<1>4. CASE ReconcileTransfer(v, p) \/ Recheck(v, p)
  <2>1. row[p].transferRef
    BY <1>1, <1>4, Referenced DEF ReconcileTransfer, Recheck, At, Booking
  <2>2. \E s \in {"settle", "reject", "giveBack", Ended(v)} : Goto(v, p, s)
    BY <1>4 DEF ReconcileTransfer, Recheck, Return
  <2>3. \A s \in {"settle", "reject", "giveBack", Ended(v)} :
           s \in Step /\ s # "credit"
    BY DEF Step, Ended
  <2>4. QED
    BY <1>0, <1>1, <1>3, <2>1, <2>2, <2>3, WorksBooking
<1>5. CASE ReconcileCharge(v, p) \/ GiveBack(v, p) \/ MarkRefunded(v, p)
  <2>1. \E s \in PlainSteps : Goto(v, p, s)
    BY <1>5, PlainFacts DEF ReconcileCharge, GiveBack, MarkRefunded, Return,
                            PlainSteps
  <2>2. QED
    BY <1>0, <1>1, <1>3, <2>1, WorksPlain, PlainFacts
<1>6. QED
  BY <1>4, <1>5 DEF VerifyStep

LEMMA TimerWorks ==
    ASSUME NEW p \in Payment, LifeInv(p), TimerFires(p)
    PROVE  \E s \in Step : Works(Timer, p, s)
<1>1. row[p].status # "none" /\ UNCHANGED <<row, batch, ledger>>
  BY DEF TimerFires, LifeInv, Absent, db, recon
<1>2. Lawful(p)
  BY <1>1, SameRow
<1>3. Goto(Timer, p, "release") /\ armed' \subseteq armed
  BY DEF TimerFires
<1>4. Orderly(Timer, p, "release")
  BY <1>3, EndsLate DEF Orderly, TimerFires
<1>5. QED
  BY <1>1, <1>2, <1>3, <1>4, WorksPlain, PlainFacts DEF PlainSteps, Step

LEMMA OthersRest ==
    ASSUME TypeOK,
           \/ UNCHANGED vars
           \/ \E p \in Payment : PaystackStep(p) \/ ClockStep(p)
           \/ \E p \in Payment, t \in Thread : Disconnect(t, p)
           \/ \E v \in Server : \/ ReleaseDueHolds(v) \/ Sweep(v)
                               \/ AttemptAutoRefunds(v) \/ BatchDone(v)
                               \/ Crash(v)
    PROVE  Rests
<1>1. CASE \/ UNCHANGED vars
           \/ \E p \in Payment : PaystackStep(p) \/ ClockStep(p)
  <2>1. UNCHANGED <<row, ledger, pc, armed, batch>>
    BY <1>1 DEF vars, PaystackStep, ChargeResolves, TransferResolves,
                ChargeTurns, TransferReverses,
                ClockStep, WindowCloses, TimePasses, db, recon
  <2>2. QED
    BY <2>1 DEF Rests
<1>2. ASSUME NEW p \in Payment, NEW t \in Thread, Disconnect(t, p)
      PROVE  Rests
  <2>1. UNCHANGED <<row, ledger, armed, batch>>
    BY <1>2 DEF Disconnect, db, recon
  <2>2. \A u \in Thread, q \in Payment :
           \/ pc'[u][q] = pc[u][q]
           \/ pc[u][q] # "idle" /\ pc'[u][q] = Ended(u)
    BY <1>2 DEF Disconnect, Return, TypeOK, Goto
  <2>3. QED
    BY <2>1, <2>2 DEF Rests
<1>3. ASSUME NEW v \in Server, Crash(v)
      PROVE  Rests
  <2>1. UNCHANGED <<row, ledger>> /\ armed' \subseteq armed
    BY <1>3 DEF Crash, db
  <2>2. \A u \in Thread, q \in Payment :
           \/ pc'[u][q] = pc[u][q]
           \/ pc[u][q] # "idle" /\ pc'[u][q] = Ended(u)
    BY <1>3 DEF Crash, At
  <2>3. \A w \in Server : DOMAIN batch'[w] \subseteq DOMAIN batch[w]
    BY <1>3 DEF Crash, NoRows, TypeOK
  <2>4. QED
    BY <2>1, <2>2, <2>3 DEF Rests
<1>4. ASSUME NEW v \in Server,
             \/ ReleaseDueHolds(v) \/ Sweep(v)
             \/ AttemptAutoRefunds(v) \/ BatchDone(v)
      PROVE  Rests
  <2>1. UNCHANGED <<row, ledger, pc, armed>>
    BY <1>4 DEF ReleaseDueHolds, Sweep, AttemptAutoRefunds, BatchDone, db
  <2>2. CASE UNCHANGED batch
    BY <2>1, <2>2 DEF Rests
  <2>3. ASSUME NEW rows \in SUBSET Payment, Listing(v, rows),
               \A p \in rows : row[p].status # "none"
        PROVE  Rests
    <3>1. \A w \in Server : \A p \in DOMAIN batch'[w] :
             p \in DOMAIN batch[w] \/ p \in rows
      BY <2>3 DEF Listing, TypeOK
    <3>2. QED
      BY <2>1, <2>3, <3>1 DEF Rests
  <2>4. QED
    BY <1>4, <2>2, <2>3
       DEF ReleaseDueHolds, Sweep, AttemptAutoRefunds, BatchDone,
           ExpiredHolds, StuckPayments, PaymentsForAutoRefund
<1>5. QED
  BY <1>1, <1>2, <1>3, <1>4

\* Each step takes one thread on for one payment, or none.
LEMMA StepShapes ==
    ASSUME TypeOK, RightToSend, \A p \in Payment : LifeInv(p), [Next]_vars
    PROVE  \/ Rests
           \/ \E t \in Thread, p \in Payment, s \in Step : Works(t, p, s)
<1>1. \A p \in Payment : PaymentInv(p)
  BY DEF RightToSend
<1>2. Request \in Thread /\ Timer \in Thread /\ "charge" \in Step
  BY ThreadFacts DEF Step
<1>3. QED
  BY <1>1, <1>2, ThreadFacts, CreateWorks, RequestWorks, TimerWorks,
     SenderWorks, BookWorks, UndoWorks, HookWorks, VisitWorks, VerifyWorks,
     OthersRest DEF Next

-----------------------------------------------------------------------------
(* The invariant.                                                          *)

LEMMA MovesFacts ==
    ASSUME NEW a, NEW b, <<a, b>> \in Life!Moves
    PROVE  b # "none" /\ (b = "initiated" => a = "none")
BY DEF Life!Moves

LEMMA LifeStep ==
    ASSUME TypeOK, \A p \in Payment : LifeInv(p),
           \/ Rests
           \/ \E t \in Thread, p \in Payment, s \in Step : Works(t, p, s)
    PROVE  \A p \in Payment : LifeInv(p)'
<1>1. ASSUME Rests, NEW p \in Payment
      PROVE  LifeInv(p)'
  <2>1. row' = row /\ LifeInv(p)
    BY <1>1 DEF Rests
  <2>2. Absent(p)'
    BY <1>1, <2>1, BookingSteps DEF Rests, LifeInv, Absent, Off
  <2>3. \A t \in Thread : pc'[t][p] \in Booking => row'[p].transferRef
    BY <1>1, <2>1, BookingSteps DEF Rests, LifeInv
  <2>4. QED
    BY <2>1, <2>2, <2>3 DEF LifeInv
<1>2. ASSUME NEW t \in Thread, NEW p \in Payment, NEW s \in Step,
             Works(t, p, s), NEW q \in Payment
      PROVE  LifeInv(q)'
  <2>1. \A u \in Thread, r \in Payment :
           pc'[u][r] = IF u = t /\ r = p THEN s ELSE pc[u][r]
    BY <1>2, GotoFacts DEF Works
  <2>2. CASE q # p
    <3>1. row'[q] = row[q] /\ \A u \in Thread : pc'[u][q] = pc[u][q]
      BY <1>2, <2>1, <2>2 DEF Works, Lawful
    <3>2. /\ q \in armed' => q \in armed
          /\ \A v \in Server : q \in DOMAIN batch'[v] => q \in DOMAIN batch[v]
      BY <1>2, <2>2 DEF Works
    <3>3. QED
      BY <3>1, <3>2 DEF LifeInv, Absent
  <2>3. CASE q = p
    <3>1. LifeInv(p) /\ Lawful(p)
      BY <1>2 DEF Works
    <3>2. row'[p].chargeRef => row'[p].status \notin {"none", "initiated"}
      BY <3>1, MovesFacts DEF LifeInv, Lawful, Moved
    <3>3. Absent(p)'
      BY <3>1 DEF Lawful, Absent
    <3>4. \A u \in Thread : pc'[u][p] \in Booking => row'[p].transferRef
      BY <1>2, <2>1, <3>1 DEF Works, Lawful, LifeInv
    <3>5. QED
      BY <2>3, <3>2, <3>3, <3>4 DEF LifeInv
  <2>4. QED
    BY <2>2, <2>3
<1>3. QED
  BY <1>1, <1>2

LEMMA TimerStep ==
    ASSUME TypeOK, \A p \in Payment : TimerInv(p),
           \/ Rests
           \/ \E t \in Thread, p \in Payment, s \in Step : Works(t, p, s)
    PROVE  \A p \in Payment : TimerInv(p)'
<1>1. ASSUME Rests, NEW p \in Payment
      PROVE  TimerInv(p)'
  BY <1>1, ThreadFacts, EndsLate DEF Rests, TimerInv, Early
<1>2. ASSUME NEW t \in Thread, NEW p \in Payment, NEW s \in Step,
             Works(t, p, s), NEW q \in Payment
      PROVE  TimerInv(q)'
  <2>1. /\ pc'[Request][q] = IF Request = t /\ q = p THEN s ELSE pc[Request][q]
        /\ pc'[Timer][q] = IF Timer = t /\ q = p THEN s ELSE pc[Timer][q]
    BY <1>2, GotoFacts, ThreadFacts DEF Works
  <2>2. TimerInv(q) /\ Orderly(t, p, s) /\ Lawful(p)
    BY <1>2 DEF Works
  <2>3. CASE q # p
    BY <2>1, <2>2, <2>3 DEF TimerInv, Orderly, Lawful
  <2>4. CASE q = p
    <3>1. row'[p].status # "none"
      BY <2>2 DEF Lawful
    <3>2. CASE t \notin {Request, Timer}
      BY <2>1, <2>2, <2>4, <3>1, <3>2 DEF TimerInv, Orderly
    <3>3. CASE t = Timer
      BY <2>1, <2>2, <2>4, <3>1, <3>3, EndsLate DEF TimerInv, Orderly
    <3>4. CASE t = Request
      <4>1. s \in Early => pc[Request][p] \in Early
        BY <2>2, <2>4, <3>4 DEF Orderly, TimerInv, Early
      <4>2. QED
        BY <2>1, <2>2, <2>4, <3>1, <3>4, <4>1, EndsLate DEF TimerInv, Orderly
    <3>5. QED
      BY <3>2, <3>3, <3>4
  <2>5. QED
    BY <2>3, <2>4
<1>3. QED
  BY <1>1, <1>2

\* Counting the threads between a debit and its credit.
LEMMA FewerBetween ==
    ASSUME TypeOK, NEW p \in Payment, PairInv(p), ledger'[p] = ledger[p],
           Between(p)' \subseteq Between(p)
    PROVE  PairInv(p)'
<1>1. IsFiniteSet(Between(p)')
      /\ Cardinality(Between(p)') <= Cardinality(Between(p))
  BY FS_Subset DEF PairInv
<1>2. /\ Cardinality(Between(p)') \in Nat
      /\ Cardinality(Between(p)) \in Nat
  BY <1>1, FS_CardinalityType DEF PairInv
<1>3. ledger[p].credit \in Nat /\ ledger[p].debit \in Nat
  BY DEF TypeOK, Pair
<1>4. QED
  BY <1>1, <1>2, <1>3 DEF PairInv

LEMMA LedgerFacts ==
    ASSUME TypeOK, NEW t \in Thread, NEW p \in Payment
    PROVE  /\ ledger[p].debit \in Nat /\ ledger[p].credit \in Nat
           /\ Debit(t, p) /\ ~ LedgerErrs(t, p) =>
                /\ ledger'[p].debit = ledger[p].debit + 1
                /\ ledger'[p].credit = ledger[p].credit
           /\ Credit(t, p) /\ ~ LedgerErrs(t, p) =>
                /\ ledger'[p].debit = ledger[p].debit
                /\ ledger'[p].credit = ledger[p].credit + 1
           /\ Debit(t, p) \/ Credit(t, p) =>
                \A q \in Payment \ {p} : ledger'[q] = ledger[q]
<1>1. ledger \in [Payment -> Pair] /\ ledger[p] \in Pair
  BY DEF TypeOK
<1>2. QED
  BY <1>1 DEF Debit, Credit, LedgerErrs, Pair

LEMMA PairStep ==
    ASSUME TypeOK, \A p \in Payment : PairInv(p),
           \/ Rests
           \/ \E t \in Thread, p \in Payment, s \in Step : Works(t, p, s)
    PROVE  \A p \in Payment : PairInv(p)'
<1>1. ASSUME Rests, NEW p \in Payment
      PROVE  PairInv(p)'
  BY <1>1, FewerBetween DEF Rests, Between, Ended
<1>2. ASSUME NEW t \in Thread, NEW p \in Payment, NEW s \in Step,
             Works(t, p, s), NEW q \in Payment
      PROVE  PairInv(q)'
  <2>1. \A u \in Thread, r \in Payment :
           pc'[u][r] = IF u = t /\ r = p THEN s ELSE pc[u][r]
    BY <1>2, GotoFacts DEF Works
  <2>2. CASE q # p
    <3>1. ledger'[q] = ledger[q]
      BY <1>2, <2>2, LedgerFacts DEF Works
    <3>2. Between(q)' \subseteq Between(q)
      BY <2>1, <2>2 DEF Between
    <3>3. QED
      BY <3>1, <3>2, FewerBetween
  <2>3. CASE q = p /\ s = "credit"
    <3>1. Debit(t, p) /\ ~ LedgerErrs(t, p) /\ pc[t][p] = "debit"
      <4>1. Debit(t, p)
        BY <1>2, <2>3 DEF Works
      <4>2. \A x \in {"fail", Ended(t)} : x # "credit"
        BY DEF Ended
      <4>3. pc'[t][p] = "credit"
        BY <2>1, <2>3
      <4>4. ~ LedgerErrs(t, p)
        <5>1. SUFFICES ASSUME LedgerErrs(t, p) PROVE FALSE
          OBVIOUS
        <5>2. \E x \in {"fail", Ended(t)} : Goto(t, p, x)
          BY <5>1 DEF LedgerErrs, Return
        <5>3. PICK x \in {"fail", Ended(t)} : Goto(t, p, x)
          BY <5>2
        <5>4. x \in Step
          BY DEF Step, Ended
        <5>5. pc'[t][p] = x
          BY <5>3, <5>4, GotoFacts
        <5>6. QED
          BY <4>2, <4>3, <5>5
      <4>5. QED
        BY <4>1, <4>4 DEF Debit, At
    <3>2. /\ ledger'[p].debit = ledger[p].debit + 1
          /\ ledger'[p].credit = ledger[p].credit
          /\ ledger[p].debit \in Nat /\ ledger[p].credit \in Nat
      BY <3>1, LedgerFacts
    <3>3. Between(p)' = Between(p) \cup {t} /\ t \notin Between(p)
      BY <2>1, <2>3, <3>1 DEF Between
    <3>4. /\ IsFiniteSet(Between(p)')
          /\ Cardinality(Between(p)') = Cardinality(Between(p)) + 1
      BY <3>3, FS_AddElement DEF PairInv
    <3>5. Cardinality(Between(p)) \in Nat
      BY FS_CardinalityType DEF PairInv
    <3>6. ledger[p].credit + Cardinality(Between(p)) <= ledger[p].debit
      BY DEF PairInv
    <3>7. QED
      BY <2>3, <3>2, <3>4, <3>5, <3>6 DEF PairInv
  <2>4. CASE q = p /\ s # "credit" /\ Credit(t, p) /\ ~ LedgerErrs(t, p)
    <3>1. /\ ledger'[p].debit = ledger[p].debit
          /\ ledger'[p].credit = ledger[p].credit + 1
          /\ ledger[p].debit \in Nat /\ ledger[p].credit \in Nat
      BY <2>4, LedgerFacts
    <3>2. Between(p)' = Between(p) \ {t} /\ t \in Between(p)
      BY <2>1, <2>4 DEF Between, Credit, At
    <3>3. /\ IsFiniteSet(Between(p)')
          /\ Cardinality(Between(p)') = Cardinality(Between(p)) - 1
      BY <3>2, FS_RemoveElement DEF PairInv
    <3>4. Cardinality(Between(p)) \in Nat
      BY FS_CardinalityType DEF PairInv
    <3>5. ledger[p].credit + Cardinality(Between(p)) <= ledger[p].debit
      BY DEF PairInv
    <3>6. QED
      BY <2>4, <3>1, <3>3, <3>4, <3>5 DEF PairInv
  <2>5. CASE q = p /\ s # "credit" /\ UNCHANGED ledger
    <3>1. Between(p)' \subseteq Between(p)
      BY <2>1, <2>5 DEF Between
    <3>2. QED
      BY <2>5, <3>1, FewerBetween
  <2>6. ASSUME s # "credit", Debit(t, p)
        PROVE  UNCHANGED ledger
    <3>1. Goto(t, p, "credit") => pc'[t][p] = "credit"
      BY GotoFacts DEF Step
    <3>2. pc'[t][p] = s
      BY <2>1
    <3>3. QED
      BY <2>6, <3>1, <3>2 DEF Debit, LedgerErrs
  <2>7. QED
    BY <1>2, <2>2, <2>3, <2>4, <2>5, <2>6 DEF Works, Credit, LedgerErrs
<1>3. QED
  BY <1>1, <1>2

-----------------------------------------------------------------------------
(* How many pairs there are: what a step does to the books of a payment.   *)

Booker == {"saveTransfer", "debit", "credit"}

\* A step that neither books p nor makes anybody ready to, and that takes no
\* one away from booking it unless something errs.
Quiet(p) ==
    /\ ledger'[p] = ledger[p]
    /\ row'[p].transferRef = row[p].transferRef
    /\ row'[p].status = "settled" =>
          row[p].status = "settled" \/ row[p].transferRef
    /\ \A t \in Thread : pc'[t][p] \in Booker => pc'[t][p] = pc[t][p]
    /\ \A t \in Thread : pc[t][p] \in {"debit", "credit"} =>
          pc'[t][p] = pc[t][p] \/ faults' # 0
    /\ \A h \in Hook : At(h, p, "idle")' => At(h, p, "idle")
    /\ faults' = 0 => faults = 0

RowQuiet(p) ==
    /\ row'[p].transferRef = row[p].transferRef
    /\ row'[p].status = "settled" =>
          row[p].status = "settled" \/ row[p].transferRef
    /\ \A q \in Payment \ {p} : row'[q] = row[q]

\* The steps that count: thread t takes p from one step of booking it to
\* the next.
Sends(t, p) ==
    /\ At(t, p, "transfer") /\ Goto(t, p, "saveTransfer")
    /\ UNCHANGED <<row, ledger>>

Saves(t, p) ==
    /\ At(t, p, "saveTransfer") /\ Goto(t, p, "debit")
    /\ row'[p].transferRef /\ row'[p].status = "settling"
    /\ \A q \in Payment \ {p} : row'[q] = row[q]
    /\ UNCHANGED ledger

Debits(t, p) ==
    /\ At(t, p, "debit") /\ Goto(t, p, "credit")
    /\ ledger' = [ledger EXCEPT ![p].debit = @ + 1]
    /\ UNCHANGED row

Credits(t, p) ==
    /\ At(t, p, "credit") /\ Goto(t, p, "settle")
    /\ ledger' = [ledger EXCEPT ![p].credit = @ + 1]
    /\ UNCHANGED row

Counts(t, p) ==
    /\ At(t, p, "countLedger") /\ Goto(t, p, "debit")
    /\ t \in Hook
    /\ faults' = faults => ledger[p].debit = 0
    /\ UNCHANGED <<row, ledger>>

Counting(t, p) ==
    /\ \/ Sends(t, p) \/ Saves(t, p) \/ Debits(t, p) \/ Credits(t, p)
       \/ Counts(t, p)
    /\ faults' = 0 => faults = 0

LEMMA FaultsCount ==
    ASSUME TypeOK
    PROVE  /\ Fault => faults' # 0 /\ faults' # faults
           /\ NoFault => (faults' = 0 => faults = 0)
BY PaymentsAssumption DEF TypeOK, Fault, NoFault

LEMMA HooksEnd == \A h \in Hook : Ended(h) = "done"
BY PaymentsAssumption DEF Ended, Sender

LEMMA SameRowQuiet ==
    ASSUME UNCHANGED row, NEW p \in Payment
    PROVE  RowQuiet(p)
BY DEF RowQuiet

LEMMA StatementsQuiet ==
    ASSUME TypeOK, NEW p \in Payment
    PROVE  /\ \/ UpdatePaymentCharge(p) \/ HoldPayment(p)
              \/ ReleaseHeldPayment(p) \/ MarkPaymentRefunded(p)
              \/ MarkPaymentFailed(p) \/ MarkPaymentAutoRefunded(p)
              => RowQuiet(p)
           /\ MarkPaymentSettled(p) /\ row[p].transferRef => RowQuiet(p)
           /\ \A s \in Status :
                UpdatePaymentTransfer(p, s) /\ row[p].transferRef => RowQuiet(p)
<1>1. row[p] \in Row /\ row \in [Payment -> Row]
  BY DEF TypeOK
<1>2. \/ UpdatePaymentCharge(p) \/ HoldPayment(p)
      \/ ReleaseHeldPayment(p) \/ MarkPaymentRefunded(p)
      => RowQuiet(p)
  BY RowFacts DEF RowQuiet
<1>3. MarkPaymentFailed(p) => RowQuiet(p)
  BY <1>1 DEF MarkPaymentFailed, WriteRow, RowQuiet, Row
<1>4. MarkPaymentAutoRefunded(p) => RowQuiet(p)
  BY <1>1 DEF MarkPaymentAutoRefunded, WriteRow, RowQuiet, Row
<1>5. MarkPaymentSettled(p) /\ row[p].transferRef => RowQuiet(p)
  BY <1>1 DEF MarkPaymentSettled, WriteRow, RowQuiet, Row
<1>6. ASSUME NEW s \in Status, UpdatePaymentTransfer(p, s), row[p].transferRef
      PROVE  RowQuiet(p)
  BY <1>1, <1>6 DEF UpdatePaymentTransfer, WriteRow, RowQuiet, Row
<1>7. QED
  BY <1>2, <1>3, <1>4, <1>5, <1>6

LEMMA GotoQuiet ==
    ASSUME TypeOK, NEW t \in Thread, NEW p \in Payment, NEW s \in Step,
           Goto(t, p, s), s \notin Booker, t \in Hook => s # "idle",
           pc[t][p] \in {"debit", "credit"} => faults' # 0,
           faults' = 0 => faults = 0, UNCHANGED ledger, RowQuiet(p)
    PROVE  \A q \in Payment : Quiet(q)
<1> SUFFICES ASSUME NEW q \in Payment
             PROVE  Quiet(q)
  OBVIOUS
<1>1. \A u \in Thread :
         pc'[u][q] = IF u = t /\ q = p THEN s ELSE pc[u][q]
  BY GotoFacts
<1>2. CASE q # p
  BY <1>1, <1>2, ThreadFacts DEF Quiet, RowQuiet, At
<1>3. CASE q = p
  <2>1. /\ \A u \in Thread : pc'[u][p] \in Booker => pc'[u][p] = pc[u][p]
        /\ \A u \in Thread : pc[u][p] \in {"debit", "credit"} =>
              pc'[u][p] = pc[u][p] \/ faults' # 0
    BY <1>1, <1>3
  <2>2. \A h \in Hook : At(h, p, "idle")' => At(h, p, "idle")
    BY <1>1, <1>3, ThreadFacts DEF At
  <2>3. QED
    BY <1>3, <2>1, <2>2 DEF Quiet, RowQuiet
<1>4. QED
  BY <1>2, <1>3

LEMMA StillQuiet ==
    ASSUME UNCHANGED <<row, ledger, pc>>, faults' = 0 => faults = 0
    PROVE  \A q \in Payment : Quiet(q)
BY DEF Quiet, At

\* The steps of a thread from which it sets out to book nothing.
QuietSteps == {"idle", "done", "charge", "saveCharge", "hold", "arm",
               "release", "load", "transfer", "fail", "reject", "close",
               "failToken", "refund", "markUndone", "disarm", "verifyCharge",
               "giveBack", "markRefunded", "settle", "settleToken",
               "noteSuccess", "noteFailure", "countLedger", "verifyTransfer",
               "recheck"}

LEMMA QuietFacts ==
    /\ QuietSteps \cap Booker = {}
    /\ QuietSteps \cup Booker = Step
    /\ \A t : Ended(t) \in QuietSteps
BY DEF QuietSteps, Booker, Step, Ended

\* What a group of actions has to show to be quiet.
LEMMA GroupQuiet ==
    ASSUME TypeOK, NEW t \in Thread, NEW p \in Payment,
           \E s \in QuietSteps : Goto(t, p, s) /\ (t \in Hook => s # "idle"),
           pc[t][p] \in {"debit", "credit"} => Fault,
           Fault \/ NoFault, UNCHANGED ledger, RowQuiet(p)
    PROVE  \A q \in Payment : Quiet(q)
BY GotoQuiet, QuietFacts, FaultsCount

LEMMA RequestQuiet ==
    ASSUME TypeOK, NEW p \in Payment, LifeInv(p),
           RequestStep(p) \/ \E kind \in Kind : Create(p, kind)
    PROVE  \A q \in Payment : Quiet(q)
<1>1. /\ Request \in Thread /\ Request \notin Hook
      /\ Ended(Request) = "done"
  BY ThreadFacts, PaymentsAssumption DEF Sender, Ended
<1>2. /\ \E s \in QuietSteps : Goto(Request, p, s)
      /\ pc[Request][p] \notin {"debit", "credit"}
      /\ Fault \/ NoFault
      /\ UNCHANGED ledger
  BY <1>1 DEF RequestStep, Create, Charge, ChargeErrs, SaveCharge, Hold, Arm,
              Return, QuietSteps, At, db, LifeInv, Absent, Off
<1>3. RowQuiet(p)
  <2>1. CASE \E kind \in Kind : Create(p, kind)
    <3>1. PICK kind \in Kind : Create(p, kind)
      BY <2>1
    <3>2. row[p] \in Row /\ row \in [Payment -> Row]
      BY DEF TypeOK
    <3>3. row' = [row EXCEPT ![p] =
                     [row[p] EXCEPT !.status = "initiated", !.kind = kind]]
      BY <3>1, <3>2 DEF Create
    <3>4. QED
      BY <3>2, <3>3 DEF RowQuiet, Row
  <2>2. CASE RequestStep(p)
    BY <2>2, StatementsQuiet, SameRowQuiet
       DEF RequestStep, Charge, ChargeErrs, SaveCharge, Hold, Arm, db
  <2>3. QED
    BY <2>1, <2>2
<1>4. QED
  BY <1>1, <1>2, <1>3, GroupQuiet

LEMMA SenderQuiet ==
    ASSUME TypeOK, NEW p \in Payment, NEW t \in Sender, SenderStep(t, p)
    PROVE  \/ \A q \in Payment : Quiet(q)
           \/ Counting(t, p)
<1>1. t \in Thread /\ t \notin Hook
  BY ThreadFacts, PaymentsAssumption
<1>2. CASE Transfer(t, p)
  BY <1>2 DEF Transfer, Counting, Sends, NoFault, db
<1>3. CASE SaveTransfer(t, p) /\ NoFault
  <2>1. "settling" \in Status /\ UpdatePaymentTransfer(p, "settling")
    BY <1>3, FaultsCount DEF SaveTransfer, Status, Fault, NoFault
  <2>2. Goto(t, p, "debit") /\ UNCHANGED ledger
    BY <1>3, FaultsCount DEF SaveTransfer, NoFault
  <2>3. QED
    BY <1>3, <2>1, <2>2, RowFacts
       DEF SaveTransfer, Counting, Saves, NoFault
<1>4. CASE Release(t, p) \/ Load(t, p) \/ TransferErrs(t, p)
           \/ (SaveTransfer(t, p) /\ Fault /\ ~ NoFault)
  <2>1. /\ \E s \in QuietSteps : Goto(t, p, s)
        /\ pc[t][p] \notin {"debit", "credit"}
        /\ Fault \/ NoFault
        /\ UNCHANGED ledger
    BY <1>4, QuietFacts DEF Release, Load, TransferErrs, SaveTransfer, Return,
       QuietSteps, At, db
  <2>2. RowQuiet(p)
    BY <1>4, StatementsQuiet, SameRowQuiet
       DEF Release, Load, TransferErrs, SaveTransfer, db
  <2>3. QED
    BY <1>1, <2>1, <2>2, GroupQuiet
<1>5. QED
  BY <1>2, <1>3, <1>4 DEF SenderStep, SaveTransfer

LEMMA BookQuiet ==
    ASSUME TypeOK, NEW p \in Payment, LifeInv(p), NEW t \in Thread,
           BookStep(t, p)
    PROVE  \/ \A q \in Payment : Quiet(q)
           \/ Counting(t, p)
<1>1. \A s \in {"fail", Ended(t), "settleToken", "failToken"} :
         s \in QuietSteps /\ (t \in Hook => s # "idle")
  BY HooksEnd, QuietFacts DEF QuietSteps
<1>2. CASE Debit(t, p) /\ ~ LedgerErrs(t, p)
  BY <1>2 DEF Debit, Counting, Debits, NoFault
<1>3. CASE Credit(t, p) /\ ~ LedgerErrs(t, p)
  BY <1>3 DEF Credit, Counting, Credits, NoFault
<1>4. CASE (Debit(t, p) \/ Credit(t, p)) /\ LedgerErrs(t, p)
  <2>1. /\ \E s \in {"fail", Ended(t)} : Goto(t, p, s)
        /\ Fault /\ UNCHANGED <<row, ledger>>
    BY <1>4 DEF Debit, Credit, LedgerErrs, Return
  <2>2. QED
    BY <1>1, <2>1, SameRowQuiet, GroupQuiet
<1>5. CASE \/ Settle(t, p) \/ SettleToken(t, p) \/ Fail(t, p)
           \/ FailToken(t, p) \/ Reject(t, p) \/ Close(t, p)
  <2>1. /\ \E s \in {"fail", Ended(t), "settleToken", "failToken"} :
              Goto(t, p, s)
        /\ pc[t][p] \notin {"debit", "credit"}
        /\ Fault \/ NoFault
        /\ UNCHANGED ledger
    BY <1>5 DEF Settle, SettleToken, Fail, FailToken, Reject, Close, Return, At
  <2>2. RowQuiet(p)
    <3>1. Settle(t, p) => row[p].transferRef
      BY DEF Settle, At, LifeInv, Booking
    <3>2. QED
      BY <1>5, <3>1, StatementsQuiet, SameRowQuiet
         DEF Settle, SettleToken, Fail, FailToken, Reject, Close
  <2>3. QED
    BY <1>1, <2>1, <2>2, GroupQuiet
<1>6. QED
  BY <1>2, <1>3, <1>4, <1>5 DEF BookStep

LEMMA UndoQuiet ==
    ASSUME TypeOK, NEW p \in Payment, NEW u \in Undoer,
           Undo(u, p) \/ UndoStep(u, p)
    PROVE  \A q \in Payment : Quiet(q)
<1>1. u \in Thread /\ u \notin Hook
  BY ThreadFacts, PaymentsAssumption
<1>2. /\ \E s \in QuietSteps : Goto(u, p, s)
      /\ pc[u][p] \notin {"debit", "credit"}
      /\ Fault \/ NoFault
      /\ UNCHANGED ledger
  BY QuietFacts DEF Undo, UndoStep, UndoRefund, MarkUndone, Disarm, Return,
     QuietSteps, At, db
<1>3. RowQuiet(p)
  BY StatementsQuiet, SameRowQuiet
     DEF Undo, UndoStep, UndoRefund, MarkUndone, Disarm, db
<1>4. QED
  BY <1>1, <1>2, <1>3, GroupQuiet

LEMMA HookQuiet ==
    ASSUME TypeOK, NEW p \in Payment, LifeInv(p), PaymentInv(p),
           NEW h \in Hook, Delivery(h, p) \/ HookStep(h, p)
    PROVE  \/ \A q \in Payment : Quiet(q)
           \/ Counting(h, p)
<1>1. h \in Thread
  BY ThreadFacts
<1>2. \A s \in {"close", Ended(h), "noteSuccess", "noteFailure",
                "countLedger", "reject", "settle"} :
         s \in QuietSteps /\ s # "idle"
  BY HooksEnd DEF QuietSteps
<1>3. CASE CountLedger(h, p) /\ Goto(h, p, "debit")
  <2>1. NoFault => ledger[p].debit = 0
    <3>1. "settle" # "debit" /\ "settle" \in Step /\ "debit" \in Step
      BY DEF Step
    <3>2. ~ Goto(h, p, "settle")
      BY <1>1, <1>3, <3>1, GotoFacts
    <3>3. QED
      BY <1>3, <3>2, FaultsCount DEF CountLedger, NoFault
  <2>2. faults' = 0 => faults = 0
    BY <1>3, FaultsCount DEF CountLedger
  <2>3. QED
    BY <1>3, <2>1, <2>2 DEF CountLedger, Counting, Counts, NoFault, db
<1>4. CASE \/ Delivery(h, p) \/ NoteTransfer(h, p)
           \/ (CountLedger(h, p) /\ Goto(h, p, "settle") /\ NoFault)
  <2>1. /\ \E s \in {"close", Ended(h), "noteSuccess", "noteFailure",
                      "countLedger", "reject", "settle"} : Goto(h, p, s)
        /\ pc[h][p] \notin {"debit", "credit"}
        /\ Fault \/ NoFault
        /\ UNCHANGED ledger
    BY <1>4 DEF Delivery, ChargeFailedHook, TransferHook, LateHook, Fresh,
       NoteTransfer, CountLedger, Return, At, db
  <2>2. RowQuiet(p)
    <3>1. CASE UNCHANGED row
      BY <3>1, SameRowQuiet
    <3>2. CASE NoteTransfer(h, p) /\ UpdatePaymentTransfer(p, seen[h])
      <4>1. row[p].transferRef /\ seen[h] \in Status
        BY <1>1, <3>2 DEF NoteTransfer, LifeInv, Booking, TypeOK
      <4>2. QED
        BY <3>2, <4>1, StatementsQuiet
    <3>3. QED
      BY <1>4, <3>1, <3>2 DEF Delivery, ChargeFailedHook, TransferHook,
         LateHook, NoteTransfer, CountLedger, db
  <2>3. QED
    BY <1>1, <1>2, <2>1, <2>2, GroupQuiet
<1>5. QED
  BY <1>3, <1>4 DEF HookStep, CountLedger

LEMMA ServerQuiet ==
    ASSUME TypeOK, NEW p \in Payment, NEW v \in Server,
           VisitStep(v, p) \/ VerifyStep(v, p)
    PROVE  \A q \in Payment : Quiet(q)
<1>1. v \in Thread /\ v \notin Hook
  BY ThreadFacts, PaymentsAssumption DEF Sender
<1>2. CASE VisitStep(v, p)
  <2>1. \E s \in QuietSteps : Visit(v, p, s)
    <3>1. p \in DOMAIN batch[v] => batch[v][p] \in Leg
      BY DEF TypeOK
    <3>2. QED
      BY <1>2, <3>1 DEF VisitStep, ReleaseOne, ReconcileOne, AutoRefundOne,
         Leg, QuietSteps
  <2>2. /\ \E s \in QuietSteps : Goto(v, p, s)
        /\ pc[v][p] \notin {"debit", "credit"}
        /\ NoFault /\ UNCHANGED <<row, ledger>>
    BY <2>1 DEF Visit, Resting, At, db
  <2>3. QED
    BY <1>1, <2>2, SameRowQuiet, GroupQuiet
<1>3. CASE VerifyStep(v, p)
  <2>1. /\ \E s \in QuietSteps : Goto(v, p, s)
        /\ pc[v][p] \notin {"debit", "credit"}
        /\ Fault \/ NoFault
        /\ UNCHANGED ledger
    BY <1>3, QuietFacts DEF VerifyStep, ReconcileTransfer, ReconcileCharge,
       Recheck, GiveBack, MarkRefunded, Return, QuietSteps, At, db
  <2>2. RowQuiet(p)
    BY <1>3, StatementsQuiet, SameRowQuiet
       DEF VerifyStep, ReconcileTransfer, ReconcileCharge, Recheck, GiveBack,
           MarkRefunded, db
  <2>3. QED
    BY <1>1, <2>1, <2>2, GroupQuiet
<1>4. QED
  BY <1>2, <1>3

LEMMA OthersQuiet ==
    ASSUME TypeOK,
           \/ UNCHANGED vars
           \/ \E p \in Payment : PaystackStep(p) \/ ClockStep(p)
           \/ \E p \in Payment, t \in Thread : Disconnect(t, p)
           \/ \E v \in Server : \/ ReleaseDueHolds(v) \/ Sweep(v)
                               \/ AttemptAutoRefunds(v) \/ BatchDone(v)
                               \/ Crash(v)
    PROVE  \A q \in Payment : Quiet(q)
<1>1. CASE \/ UNCHANGED vars
           \/ \E p \in Payment : PaystackStep(p) \/ ClockStep(p)
           \/ \E v \in Server : \/ ReleaseDueHolds(v) \/ Sweep(v)
                               \/ AttemptAutoRefunds(v) \/ BatchDone(v)
  <2>1. UNCHANGED <<row, ledger, pc, faults>>
    BY <1>1 DEF vars, PaystackStep, ChargeResolves, TransferResolves,
                ChargeTurns, TransferReverses,
                ClockStep, WindowCloses, TimePasses, NoFault, db,
                ReleaseDueHolds, Sweep, AttemptAutoRefunds, BatchDone
  <2>2. QED
    BY <2>1, StillQuiet
<1>3. ASSUME NEW p \in Payment, NEW t \in Thread, Disconnect(t, p)
      PROVE  \A q \in Payment : Quiet(q)
  <2>1. /\ UNCHANGED <<row, ledger>> /\ Fault
        /\ Goto(t, p, Ended(t)) /\ Ended(t) \in QuietSteps
    BY <1>3, QuietFacts DEF Disconnect, Return, db
  <2>2. \E s \in QuietSteps : Goto(t, p, s) /\ (t \in Hook => s # "idle")
    <3>1. t \in Hook => Ended(t) # "idle"
      BY HooksEnd
    <3>2. QED
      BY <2>1, <3>1
  <2>3. RowQuiet(p) /\ UNCHANGED ledger
    BY <2>1, SameRowQuiet
  <2>4. QED
    BY <2>1, <2>2, <2>3, GroupQuiet
<1>4. ASSUME NEW v \in Server, Crash(v)
      PROVE  \A q \in Payment : Quiet(q)
  <2>1. UNCHANGED <<row, ledger>> /\ faults' # 0
    BY <1>4, FaultsCount DEF Crash, db
  <2>2. \A u \in Thread, q \in Payment :
           \/ pc'[u][q] = pc[u][q]
           \/ pc[u][q] # "idle" /\ pc'[u][q] = Ended(u)
    BY <1>4 DEF Crash, At
  <2>3. QED
    BY <2>1, <2>2, HooksEnd, QuietFacts, ThreadFacts DEF Quiet, At
<1>5. QED
  BY <1>1, <1>3, <1>4

LEMMA TimerQuiet ==
    ASSUME TypeOK, NEW p \in Payment, TimerInv(p), TimerFires(p)
    PROVE  \A q \in Payment : Quiet(q)
<1>1. Timer \in Thread /\ Timer \notin Hook
  BY ThreadFacts, PaymentsAssumption DEF Sender
<1>2. /\ UNCHANGED <<row, ledger>> /\ NoFault
      /\ Goto(Timer, p, "release") /\ "release" \in QuietSteps
      /\ pc[Timer][p] = "idle"
  BY DEF TimerFires, TimerInv, QuietSteps, db
<1>3. QED
  BY <1>1, <1>2, SameRowQuiet, GroupQuiet

LEMMA BookingShapes ==
    ASSUME TypeOK, RightToSend, [Next]_vars,
           \A p \in Payment : LifeInv(p) /\ TimerInv(p)
    PROVE  \/ \A q \in Payment : Quiet(q)
           \/ \E t \in Thread, p \in Payment : Counting(t, p)
<1>1. \A p \in Payment : PaymentInv(p)
  BY DEF RightToSend
<1>2. QED
  BY <1>1, ThreadFacts, RequestQuiet, SenderQuiet, BookQuiet, UndoQuiet,
     HookQuiet, ServerQuiet, TimerQuiet, OthersQuiet DEF Next

LEMMA QuietKeeps ==
    ASSUME TypeOK, NEW p \in Payment, BookedInv(p), Quiet(p)
    PROVE  BookedInv(p)'
<1>1. row'[p].status = "settled" \/ ledger'[p].debit > 0 => row'[p].transferRef
  BY DEF BookedInv, Quiet
<1>2. SaverInv(p)'
  BY DEF BookedInv, SaverInv, Quiet, Booker, At
<1>3. SinglePair(p)'
  BY ThreadFacts DEF BookedInv, SinglePair, Quiet, Booker, At
<1>4. WholePairs(p)'
  <2> SUFFICES ASSUME faults' = 0
               PROVE  WholePairs(p)'
    BY DEF WholePairs
  <2>1. faults = 0 /\ WholePairs(p)
    BY DEF BookedInv, Quiet
  <2>2. \A t \in Thread :
           /\ pc'[t][p] = "credit" <=> pc[t][p] = "credit"
           /\ pc[t][p] = "debit" => pc'[t][p] = "debit"
    BY DEF Quiet, Booker
  <2>3. Between(p)' = Between(p)
    BY <2>2 DEF Between
  <2>4. QED
    BY <2>1, <2>2, <2>3 DEF WholePairs, Quiet, At
<1>5. QED
  BY <1>1, <1>2, <1>3, <1>4 DEF BookedInv

LEMMA OtherQuiet ==
    ASSUME TypeOK, NEW t \in Thread, NEW p \in Payment, Counting(t, p),
           NEW q \in Payment, q # p
    PROVE  Quiet(q)
<1>1. \A u \in Thread : pc'[u][q] = pc[u][q]
  BY DEF Counting, Sends, Saves, Debits, Credits, Counts, Goto, TypeOK
<1>2. row'[q] = row[q] /\ ledger'[q] = ledger[q]
  BY DEF Counting, Sends, Saves, Debits, Credits, Counts, TypeOK
<1>3. QED
  BY <1>1, <1>2, ThreadFacts DEF Quiet, Counting, At

\* Where the threads are after a step that counts.
LEMMA CountingPc ==
    ASSUME TypeOK, NEW t \in Thread, NEW p \in Payment, NEW s \in Step,
           Goto(t, p, s)
    PROVE  /\ pc'[t][p] = s
           /\ \A u \in Thread \ {t} : pc'[u][p] = pc[u][p]
BY GotoFacts

\* Handing p to Paystack: its sender is alone, so nobody was booking it.
LEMMA SendsKeeps ==
    ASSUME TypeOK, NEW t \in Thread, NEW p \in Payment, PaymentInv(p),
           LifeInv(p), BookedInv(p), Sends(t, p), faults' = 0 => faults = 0
    PROVE  BookedInv(p)'
<1>1. /\ pc'[t][p] = "saveTransfer" /\ pc[t][p] = "transfer"
      /\ \A u \in Thread \ {t} : pc'[u][p] = pc[u][p]
      /\ UNCHANGED <<row, ledger>>
  BY CountingPc DEF Sends, Step, At
<1>2. ps[p].sent = 0
  BY <1>1 DEF PaymentInv, SendersAreAlone, Sending
<1>3. ~ TransferEvidence(p)
  BY <1>2 DEF PaymentInv
<1>4. SaverInv(p)'
  BY <1>1, <1>3 DEF SaverInv, TransferEvidence, Sent, At
<1>5. SinglePair(p)'
  <2>1. \A h \in Hook : At(h, p, "idle")' => At(h, p, "idle")
    BY <1>1, ThreadFacts DEF At
  <2>2. \A u \in Thread : At(u, p, "debit")' => At(u, p, "debit")
    BY <1>1 DEF At
  <2>3. QED
    BY <1>1, <2>1, <2>2 DEF BookedInv, SinglePair
<1>6. WholePairs(p)'
  <2>1. Between(p)' = Between(p)
    BY <1>1 DEF Between
  <2>2. \A u \in Thread : At(u, p, "debit") => At(u, p, "debit")'
    BY <1>1 DEF At
  <2>3. QED
    BY <1>1, <2>1, <2>2 DEF BookedInv, WholePairs
<1>7. QED
  BY <1>1, <1>4, <1>5, <1>6 DEF BookedInv

LEMMA SavesKeeps ==
    ASSUME TypeOK, NEW t \in Thread, NEW p \in Payment,
           LifeInv(p), BookedInv(p), Saves(t, p), faults' = 0 => faults = 0
    PROVE  BookedInv(p)'
<1>1. /\ pc'[t][p] = "debit" /\ pc[t][p] = "saveTransfer"
      /\ \A u \in Thread \ {t} : pc'[u][p] = pc[u][p]
      /\ ledger' = ledger /\ row'[p].transferRef
  BY CountingPc DEF Saves, Step, At
<1>2. /\ ~ row[p].transferRef
      /\ \A u \in Thread \ {t} : pc[u][p] # "saveTransfer"
  BY <1>1 DEF BookedInv, SaverInv, At
<1>3. \A u \in Thread : pc[u][p] # "debit"
  BY <1>2 DEF LifeInv, Booking
<1>4. ledger[p].debit = 0
  BY <1>2 DEF BookedInv, TypeOK, Pair
<1>5. SaverInv(p)'
  BY <1>1, <1>2 DEF SaverInv, At
<1>6. SinglePair(p)'
  BY <1>1, <1>3, <1>4 DEF SinglePair, At
<1>7. WholePairs(p)'
  <2>1. Between(p)' = Between(p)
    BY <1>1 DEF Between
  <2>2. QED
    BY <1>1, <2>1 DEF BookedInv, WholePairs, At
<1>8. QED
  BY <1>1, <1>5, <1>6, <1>7 DEF BookedInv

LEMMA DebitsKeeps ==
    ASSUME TypeOK, NEW t \in Thread, NEW p \in Payment, PairInv(p),
           LifeInv(p), BookedInv(p), Debits(t, p), faults' = 0 => faults = 0
    PROVE  BookedInv(p)'
<1>1. /\ pc'[t][p] = "credit" /\ pc[t][p] = "debit"
      /\ \A u \in Thread \ {t} : pc'[u][p] = pc[u][p]
      /\ row' = row /\ row[p].transferRef
  BY CountingPc DEF Debits, Step, At, LifeInv, Booking
<1>2. /\ ledger[p].debit \in Nat /\ ledger[p].credit \in Nat
      /\ ledger'[p].debit = ledger[p].debit + 1
      /\ ledger'[p].credit = ledger[p].credit
  <2>1. ledger \in [Payment -> Pair] /\ ledger[p] \in Pair
    BY DEF TypeOK
  <2>2. QED
    BY <2>1 DEF Debits, Pair
<1>3. SaverInv(p)'
  BY <1>1 DEF BookedInv, SaverInv, At
<1>4. SinglePair(p)'
  <2>1. \A h \in Hook : At(h, p, "idle")' => At(h, p, "idle")
    BY <1>1, ThreadFacts DEF At
  <2>2. (\A h \in Hook : At(h, p, "idle")) =>
            /\ ledger[p].debit = 0
            /\ \A u \in Thread \ {t} : pc[u][p] # "debit"
    BY <1>1 DEF BookedInv, SinglePair, At
  <2>3. QED
    BY <1>1, <1>2, <2>1, <2>2 DEF SinglePair, At
<1>5. WholePairs(p)'
  <2>1. Between(p)' = Between(p) \cup {t} /\ t \notin Between(p)
    BY <1>1 DEF Between
  <2>2. /\ Cardinality(Between(p)') = Cardinality(Between(p)) + 1
        /\ Cardinality(Between(p)) \in Nat
    BY <2>1, FS_AddElement, FS_CardinalityType DEF PairInv
  <2>3. faults' = 0 =>
           ledger[p].credit + Cardinality(Between(p)) = ledger[p].debit
    BY DEF BookedInv, WholePairs
  <2>4. faults' = 0 =>
           ledger'[p].credit + Cardinality(Between(p)') = ledger'[p].debit
    BY <1>2, <2>2, <2>3
  <2>5. ledger'[p].debit > 0
    BY <1>2
  <2>6. QED
    BY <2>4, <2>5 DEF WholePairs
<1>6. QED
  BY <1>1, <1>3, <1>4, <1>5 DEF BookedInv

LEMMA CreditsKeeps ==
    ASSUME TypeOK, NEW t \in Thread, NEW p \in Payment, PairInv(p),
           LifeInv(p), BookedInv(p), Credits(t, p), faults' = 0 => faults = 0
    PROVE  BookedInv(p)'
<1>1. /\ pc'[t][p] = "settle" /\ pc[t][p] = "credit"
      /\ \A u \in Thread \ {t} : pc'[u][p] = pc[u][p]
      /\ row' = row /\ row[p].transferRef
  BY CountingPc DEF Credits, Step, At, LifeInv, Booking
<1>2. /\ ledger[p].debit \in Nat /\ ledger[p].credit \in Nat
      /\ ledger'[p].debit = ledger[p].debit
      /\ ledger'[p].credit = ledger[p].credit + 1
  <2>1. ledger \in [Payment -> Pair] /\ ledger[p] \in Pair
    BY DEF TypeOK
  <2>2. QED
    BY <2>1 DEF Credits, Pair
<1>3. SaverInv(p)'
  BY <1>1 DEF BookedInv, SaverInv, At
<1>4. SinglePair(p)'
  <2>1. \A h \in Hook : At(h, p, "idle")' => At(h, p, "idle")
    BY <1>1, ThreadFacts DEF At
  <2>2. \A u \in Thread : At(u, p, "debit")' => At(u, p, "debit")
    BY <1>1 DEF At
  <2>3. QED
    BY <1>2, <2>1, <2>2 DEF BookedInv, SinglePair
<1>5. WholePairs(p)'
  <2>1. Between(p)' = Between(p) \ {t} /\ t \in Between(p)
    BY <1>1 DEF Between
  <2>2. /\ Cardinality(Between(p)') = Cardinality(Between(p)) - 1
        /\ Cardinality(Between(p)) \in Nat
    BY <2>1, FS_RemoveElement, FS_CardinalityType DEF PairInv
  <2>3. faults' = 0 =>
           /\ ledger[p].credit + Cardinality(Between(p)) = ledger[p].debit
           /\ ledger[p].debit > 0 \/ \E u \in Thread : At(u, p, "debit")
    BY <1>1 DEF BookedInv, WholePairs
  <2>4. faults' = 0 =>
           ledger'[p].credit + Cardinality(Between(p)') = ledger'[p].debit
    BY <1>2, <2>2, <2>3
  <2>5. \A u \in Thread : At(u, p, "debit") => At(u, p, "debit")'
    BY <1>1 DEF At
  <2>6. QED
    BY <1>2, <2>3, <2>4, <2>5 DEF WholePairs
<1>6. QED
  BY <1>1, <1>2, <1>3, <1>4, <1>5 DEF BookedInv

LEMMA CountsKeeps ==
    ASSUME TypeOK, NEW t \in Thread, NEW p \in Payment,
           LifeInv(p), BookedInv(p), Counts(t, p), faults' = 0 => faults = 0
    PROVE  BookedInv(p)'
<1>1. /\ pc'[t][p] = "debit" /\ pc[t][p] = "countLedger" /\ t \in Hook
      /\ \A u \in Thread \ {t} : pc'[u][p] = pc[u][p]
      /\ UNCHANGED <<row, ledger>>
  BY CountingPc DEF Counts, Step, At
<1>2. SaverInv(p)'
  BY <1>1 DEF BookedInv, SaverInv, At
<1>3. SinglePair(p)'
  BY <1>1 DEF SinglePair, At
<1>4. WholePairs(p)'
  <2>1. Between(p)' = Between(p)
    BY <1>1 DEF Between
  <2>2. QED
    BY <1>1, <2>1 DEF BookedInv, WholePairs, At
<1>5. QED
  BY <1>1, <1>2, <1>3, <1>4 DEF BookedInv

LEMMA BookedStep ==
    ASSUME TypeOK, RightToSend, Books, [Next]_vars
    PROVE  \A p \in Payment : BookedInv(p)'
<1>1. CASE \A q \in Payment : Quiet(q)
  BY <1>1, QuietKeeps DEF Books
<1>2. ASSUME NEW t \in Thread, NEW p \in Payment, Counting(t, p),
             NEW q \in Payment
      PROVE  BookedInv(q)'
  <2>1. CASE q # p
    BY <1>2, <2>1, OtherQuiet, QuietKeeps DEF Books
  <2>2. CASE q = p
    <3>1. PaymentInv(p) /\ LifeInv(p) /\ PairInv(p) /\ BookedInv(p)
      BY DEF Books, RightToSend
    <3>2. faults' = 0 => faults = 0
      BY <1>2 DEF Counting
    <3>3. QED
      BY <1>2, <2>2, <3>1, <3>2, SendsKeeps, SavesKeeps, DebitsKeeps,
         CreditsKeeps, CountsKeeps DEF Counting
  <2>3. QED
    BY <2>1, <2>2
<1>3. QED
  BY <1>1, <1>2, BookingShapes DEF Books

LEMMA BooksInit == Init => Books
<1> SUFFICES ASSUME Init, NEW p \in Payment
             PROVE  LifeInv(p) /\ TimerInv(p) /\ PairInv(p) /\ BookedInv(p)
  BY DEF Books
<1>1. \A t \in Thread : pc[t][p] = "idle"
  BY DEF Init
<1>2. LifeInv(p)
  BY <1>1, BookingSteps DEF LifeInv, Absent, Off, Init, NoRows
<1>3. TimerInv(p)
  BY <1>1, ThreadFacts DEF TimerInv, Init
<1>4. Between(p) = {}
  BY <1>1 DEF Between
<1>5. PairInv(p)
  BY <1>4, FS_EmptySet DEF PairInv, Init
<1>6. BookedInv(p)
  <2>1. SaverInv(p) /\ SinglePair(p)
    BY <1>1 DEF SaverInv, SinglePair, At, Init
  <2>2. WholePairs(p)
    BY <1>4, FS_EmptySet DEF WholePairs, Init
  <2>3. QED
    BY <2>1, <2>2 DEF BookedInv, Init
<1>7. QED
  BY <1>2, <1>3, <1>5, <1>6

LEMMA BooksStep ==
    ASSUME TypeOK, RightToSend, Books, [Next]_vars
    PROVE  Books'
<1>1. \A p \in Payment : LifeInv(p)' /\ TimerInv(p)' /\ PairInv(p)'
  BY StepShapes, LifeStep, TimerStep, PairStep DEF Books
<1>2. QED
  BY <1>1, BookedStep DEF Books

LEMMA BooksAreKept == Spec => []Books
BY BooksInit, BooksStep, TypeCorrect, SenderIsAlone, PTL DEF Spec

-----------------------------------------------------------------------------
\* Ledger entries are of a transfer that was made, and there are never more
\* credits than debits; no second pair without a webhook, and if nothing
\* errs no half pair is left and no settled payment goes without one,
\* although pairs are written in two statements, by threads of which each
\* only looks, if at all, before it writes.
THEOREM LedgerStaysBacked == Spec => []LedgerIsBacked
<1>1. TypeOK /\ RightToSend /\ Books => LedgerIsBacked
  <2> SUFFICES ASSUME TypeOK, RightToSend, Books, NEW p \in Payment
               PROVE  /\ ledger[p].debit > 0 => ps[p].sent = 1
                      /\ ledger[p].credit <= ledger[p].debit
                      /\ (\A h \in Hook : At(h, p, "idle")) =>
                            ledger[p].debit <= 1
                      /\ faults = 0 /\ Quiescent(p) =>
                           /\ ledger[p].credit = ledger[p].debit
                           /\ row[p].status = "settled" =>
                                ledger[p].debit > 0
    BY DEF LedgerIsBacked
  <2>1. ledger[p].debit > 0 => ps[p].sent = 1
    BY DEF RightToSend, PaymentInv, TransferEvidence
  <2>2. /\ ledger[p].credit \in Nat /\ ledger[p].debit \in Nat
    BY DEF TypeOK, Pair
  <2>3. /\ Cardinality(Between(p)) \in Nat
        /\ ledger[p].credit + Cardinality(Between(p)) <= ledger[p].debit
    BY FS_CardinalityType DEF Books, PairInv
  <2>4. (\A h \in Hook : At(h, p, "idle")) => ledger[p].debit <= 1
    BY DEF Books, BookedInv, SinglePair
  <2>5. ASSUME faults = 0, Quiescent(p)
        PROVE  /\ ledger[p].credit = ledger[p].debit
               /\ row[p].status = "settled" => ledger[p].debit > 0
    <3>1. \A t \in Thread : pc[t][p] # "credit" /\ pc[t][p] # "debit"
      BY <2>5 DEF Quiescent
    <3>2. Cardinality(Between(p)) = 0
      BY <3>1, FS_EmptySet DEF Between
    <3>3. WholePairs(p) /\ (row[p].status = "settled" => row[p].transferRef)
      BY DEF Books, BookedInv
    <3>4. QED
      BY <2>2, <2>5, <3>1, <3>2, <3>3 DEF WholePairs, At
  <2>6. QED
    BY <2>1, <2>2, <2>3, <2>4, <2>5
<1>2. QED
  BY <1>1, TypeCorrect, SenderIsAlone, BooksAreKept, PTL

\* A payment with a debit is not booked again unless a webhook's count of
\* the entries errs: who is on its way to a first pair has it alone, and
\* who comes by webhook counts.
THEOREM PairsStayCounted == Spec => PairsAreCounted
<1>1. ASSUME TypeOK, RightToSend, Books, [Next]_vars, NEW p \in Payment,
             ledger[p].debit > 0, \A t \in Thread : pc[t][p] # "debit",
             faults' = faults, NEW t \in Thread
      PROVE  pc'[t][p] # "debit"
  <2>1. CASE Quiet(p)
    BY <1>1, <2>1 DEF Quiet, Booker
  <2>2. ASSUME NEW u \in Thread, Counting(u, p)
        PROVE  pc'[t][p] # "debit"
    <3>1. ~ Saves(u, p)
      BY <1>1 DEF Saves, Books, BookedInv, SaverInv
    <3>2. ~ Counts(u, p)
      BY <1>1 DEF Counts
    <3>3. \E s \in {"saveTransfer", "credit", "settle"} : Goto(u, p, s)
      BY <2>2, <3>1, <3>2 DEF Counting, Sends, Debits, Credits
    <3>4. QED
      BY <1>1, <3>3, GotoFacts DEF Step
  <2>3. QED
    BY <1>1, <2>1, <2>2, BookingShapes, OtherQuiet DEF Books
<1>2. TypeOK /\ RightToSend /\ Books /\ [Next]_vars =>
         [\A p \in Payment :
             /\ ledger[p].debit > 0
             /\ \A t \in Thread : pc[t][p] # "debit"
             /\ faults' = faults
             => \A t \in Thread : pc'[t][p] # "debit"]_vars
  BY <1>1
<1>3. QED
  BY <1>2, TypeCorrect, SenderIsAlone, BooksAreKept, PTL
     DEF Spec, PairsAreCounted

\* Payments implements Lifecycle: whoever writes the status, in whatever
\* order, moves it as Lifecycle says or leaves it.
THEOREM ImplementsLifecycle == Spec => FollowsLifecycle
<1>1. Init => Life!Init
  BY DEF Init, Life!Init
<1>2. ASSUME TypeOK, RightToSend, Books, [Next]_vars
      PROVE  [Life!Next]_([p \in Payment |-> row[p].status])
  <2>1. CASE Rests
    BY <2>1 DEF Rests
  <2>2. ASSUME NEW t \in Thread, NEW x \in Payment, NEW s \in Step,
               Works(t, x, s)
        PROVE  [Life!Next]_([p \in Payment |-> row[p].status])
    <3> DEFINE old == [q \in Payment |-> row[q].status]
               new == [q \in Payment |-> row'[q].status]
               move == <<row[x].status, row'[x].status>>
    <3>1. \A q \in Payment \ {x} : row'[q].status = row[q].status
      BY <2>2 DEF Works, Lawful
    <3>2. Moved(x)
      BY <2>2 DEF Works, Lawful
    <3>3. new = [old EXCEPT ![x] = row'[x].status]
      BY <3>1
    <3>4. CASE row'[x].status = row[x].status
      BY <3>1, <3>4
    <3>5. CASE move \in Life!Moves
      <4>1. \E m \in Life!Moves : m[2] = row'[x].status
        BY <3>5
      <4>2. PICK m \in Life!Moves : m[2] = row'[x].status
        BY <4>1
      <4>3. <<row[x].status, m[2]>> \in Life!Moves
        BY <3>5, <4>2
      <4>4. new = [old EXCEPT ![x] = m[2]]
        BY <3>3, <4>2
      <4>5. Life!Move(x, m[2])
        BY <4>3, <4>4 DEF Life!Move
      <4>6. QED
        BY <4>5 DEF Life!Next
    <3>6. QED
      BY <3>2, <3>4, <3>5 DEF Moved
  <2>3. QED
    BY <1>2, <2>1, <2>2, StepShapes DEF Books
<1>3. QED
  BY <1>1, <1>2, TypeCorrect, SenderIsAlone, BooksAreKept, PTL
     DEF Spec, FollowsLifecycle, Life!Spec
=============================================================================
