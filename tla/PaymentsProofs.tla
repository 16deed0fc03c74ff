--------------------------- MODULE PaymentsProofs ---------------------------
(***************************************************************************)
(* Payments is well typed, RightToSend is an inductive invariant of it,    *)
(* and the safety properties that follow from that hold for any number of  *)
(* servers, payments, undo requests, webhook deliveries and faults, and    *)
(* however slow a handler is.                                              *)
(***************************************************************************)
EXTENDS Payments, TLAPS

-----------------------------------------------------------------------------
(* What the building blocks of the actions keep of TypeOK.                 *)

RowsOK == row \in [Payment -> Row] /\ clock \in [Payment -> Age]

PcOK == pc \in [Thread -> [Payment -> Step]]

FaultsOK == faults \in 0..MaxFaults

Batch(b) == DOMAIN b \subseteq Payment /\ \A p \in DOMAIN b : b[p] \in Leg

BatchOK == DOMAIN batch = Server /\ \A s \in Server : Batch(batch[s])

LEMMA ThreadFacts ==
    /\ Request \in Thread /\ Timer \in Thread /\ Server \subseteq Thread
    /\ Sender \subseteq Thread /\ Undoer \subseteq Thread
    /\ Hook \subseteq Thread
BY DEF Thread, Sender

LEMMA FaultType ==
    ASSUME TypeOK, Fault \/ NoFault
    PROVE  FaultsOK'
BY PaymentsAssumption DEF TypeOK, Fault, NoFault, FaultsOK

LEMMA GotoType ==
    ASSUME TypeOK, NEW t \in Thread, NEW p \in Payment, NEW s \in Step,
           Goto(t, p, s)
    PROVE  PcOK'
BY DEF TypeOK, Goto, PcOK

LEMMA ReturnType ==
    ASSUME TypeOK, NEW t \in Thread, NEW p \in Payment, Return(t, p)
    PROVE  PcOK'
<1>1. Ended(t) \in Step
  BY DEF Ended, Step
<1>2. QED
  BY <1>1, GotoType DEF Return

LEMMA RowFields ==
    ASSUME NEW r \in Row, NEW s \in Status
    PROVE  /\ [r EXCEPT !.status = s] \in Row
           /\ [r EXCEPT !.chargeRef = TRUE, !.status = s] \in Row
           /\ [r EXCEPT !.transferRef = TRUE, !.status = s] \in Row
           /\ [r EXCEPT !.refundRef = TRUE, !.status = s] \in Row
BY DEF Row

LEMMA AgeFields ==
    ASSUME NEW c \in Age
    PROVE  /\ [c EXCEPT !.quiet = 0] \in Age
           /\ [c EXCEPT !.window = "over"] \in Age
           /\ [c EXCEPT !.quiet = 0, !.window = "open"] \in Age
           /\ c.quiet < 2 =>
                [c EXCEPT !.quiet = @ + 1, !.aged = @ \/ c.quiet = 1] \in Age
<1>1. [c EXCEPT !.quiet = 0] \in Age
  BY DEF Age
<1>2. [c EXCEPT !.window = "over"] \in Age
  BY DEF Age
<1>3. [c EXCEPT !.quiet = 0, !.window = "open"] \in Age
  <2>1. [[c EXCEPT !.quiet = 0] EXCEPT !.window = "open"] \in Age
    BY <1>1 DEF Age
  <2>2. QED
    BY <2>1
<1>4. ASSUME c.quiet < 2
      PROVE  [c EXCEPT !.quiet = @ + 1, !.aged = @ \/ c.quiet = 1] \in Age
  <2>1. [c EXCEPT !.quiet = c.quiet + 1] \in Age
    BY <1>4 DEF Age
  <2>2. \A b \in BOOLEAN :
           [[c EXCEPT !.quiet = c.quiet + 1] EXCEPT !.aged = b] \in Age
    BY <2>1 DEF Age
  <2>3. [c EXCEPT !.quiet = @ + 1, !.aged = @ \/ c.quiet = 1] =
        [[c EXCEPT !.quiet = c.quiet + 1]
            EXCEPT !.aged = (c.aged \/ c.quiet = 1)]
    BY DEF Age
  <2>4. QED
    BY <2>2, <2>3
<1>5. QED
  BY <1>1, <1>2, <1>3, <1>4

LEMMA AccountFields ==
    ASSUME NEW a \in Account
    PROVE  /\ \A v \in ChargeState : [a EXCEPT !.charge = v] \in Account
           /\ \A v \in TransferState : [a EXCEPT !.transfer = v] \in Account
           /\ [a EXCEPT !.transfer = "pending", !.sent = @ + 1] \in Account
           /\ [a EXCEPT !.refunds = @ + 1] \in Account
<1>1. \A v \in ChargeState : [a EXCEPT !.charge = v] \in Account
  BY DEF Account
<1>2. \A v \in TransferState : [a EXCEPT !.transfer = v] \in Account
  BY DEF Account
<1>3. [a EXCEPT !.transfer = "pending", !.sent = @ + 1] \in Account
  <2>1. [a EXCEPT !.transfer = "pending"] \in Account
    BY <1>2 DEF TransferState
  <2>2. a.sent + 1 \in Nat
    BY DEF Account
  <2>3. [[a EXCEPT !.transfer = "pending"] EXCEPT !.sent = a.sent + 1]
            \in Account
    BY <2>1, <2>2 DEF Account
  <2>4. [a EXCEPT !.transfer = "pending", !.sent = @ + 1] =
        [[a EXCEPT !.transfer = "pending"] EXCEPT !.sent = a.sent + 1]
    BY DEF Account
  <2>5. QED
    BY <2>3, <2>4
<1>4. [a EXCEPT !.refunds = @ + 1] \in Account
  BY DEF Account
<1>5. QED
  BY <1>1, <1>2, <1>3, <1>4

LEMMA PairFields ==
    ASSUME NEW e \in Pair
    PROVE  /\ [e EXCEPT !.debit = @ + 1] \in Pair
           /\ [e EXCEPT !.credit = @ + 1] \in Pair
BY DEF Pair

LEMMA WriteRowType ==
    ASSUME TypeOK, NEW p \in Payment, NEW r \in Row, WriteRow(p, r)
    PROVE  RowsOK'
<1>1. [clock[p] EXCEPT !.quiet = 0] \in Age
  BY AgeFields DEF TypeOK
<1>2. QED
  BY <1>1 DEF TypeOK, WriteRow, RowsOK

\* Every statement on payments leaves rows and their ages well typed.
LEMMA StatementType ==
    ASSUME TypeOK, NEW p \in Payment,
           \/ UpdatePaymentCharge(p)
           \/ \E s \in Status : UpdatePaymentTransfer(p, s)
           \/ MarkPaymentSettled(p) \/ MarkPaymentFailed(p)
           \/ MarkPaymentAutoRefunded(p) \/ HoldPayment(p)
           \/ ReleaseHeldPayment(p) \/ MarkPaymentRefunded(p)
    PROVE  RowsOK'
<1> row[p] \in Row /\ clock[p] \in Age
  BY DEF TypeOK
<1>1. CASE HoldPayment(p)
  <2>1. [row[p] EXCEPT !.status = "held"] \in Row
    BY RowFields DEF Status
  <2>2. [clock[p] EXCEPT !.quiet = 0, !.window = "open"] \in Age
    BY AgeFields
  <2>3. QED
    BY <1>1, <2>1, <2>2 DEF TypeOK, HoldPayment, RowsOK
<1>2. CASE ~HoldPayment(p)
  <2>1. \A v \in Status :
          /\ [row[p] EXCEPT !.status = v] \in Row
          /\ [row[p] EXCEPT !.chargeRef = TRUE, !.status = v] \in Row
          /\ [row[p] EXCEPT !.transferRef = TRUE, !.status = v] \in Row
          /\ [row[p] EXCEPT !.refundRef = TRUE, !.status = v] \in Row
    BY RowFields
  <2>2. {"transferring", "settled", "failed", "refunded"} \subseteq Status
    BY DEF Status
  <2>3. \E r \in Row : WriteRow(p, r)
    BY <1>2, <2>1, <2>2
       DEF UpdatePaymentCharge, UpdatePaymentTransfer, MarkPaymentSettled,
           MarkPaymentFailed, MarkPaymentAutoRefunded, ReleaseHeldPayment,
           MarkPaymentRefunded
  <2>4. QED
    BY <2>3, WriteRowType
<1>3. QED
  BY <1>1, <1>2

LEMMA TokenType ==
    ASSUME TypeOK, NEW t, NEW p \in Payment, NEW s \in TokenStatus,
           SetToken(t, p, s)
    PROVE  token' \in [Payment -> TokenStatus]
BY DEF TypeOK, SetToken

\* An update of one payment's account with Paystack.
LEMMA AccountType ==
    ASSUME TypeOK, NEW p \in Payment,
           \/ \E v \in ChargeState : ps' = [ps EXCEPT ![p].charge = v]
           \/ \E v \in TransferState : ps' = [ps EXCEPT ![p].transfer = v]
           \/ InitiateTransfer(p)
           \/ RefundCharge(p)
    PROVE  ps' \in [Payment -> Account]
<1> ps[p] \in Account
  BY DEF TypeOK
<1>1. CASE \E v \in ChargeState : ps' = [ps EXCEPT ![p].charge = v]
  <2>1. PICK v \in ChargeState : ps' = [ps EXCEPT ![p].charge = v]
    BY <1>1
  <2>2. [ps[p] EXCEPT !.charge = v] \in Account
    BY AccountFields
  <2>3. QED
    BY <2>1, <2>2 DEF TypeOK
<1>2. CASE \E v \in TransferState : ps' = [ps EXCEPT ![p].transfer = v]
  <2>1. PICK v \in TransferState : ps' = [ps EXCEPT ![p].transfer = v]
    BY <1>2
  <2>2. [ps[p] EXCEPT !.transfer = v] \in Account
    BY AccountFields
  <2>3. QED
    BY <2>1, <2>2 DEF TypeOK
<1>3. CASE InitiateTransfer(p)
  <2>1. [ps[p] EXCEPT !.transfer = "pending", !.sent = @ + 1] \in Account
    BY AccountFields
  <2>2. QED
    BY <1>3, <2>1 DEF TypeOK, InitiateTransfer
<1>4. CASE RefundCharge(p)
  BY <1>4, AccountFields DEF TypeOK, RefundCharge
<1>5. QED
  BY <1>1, <1>2, <1>3, <1>4

\* What one server does to its batch leaves the others theirs.
LEMMA BatchType ==
    ASSUME TypeOK, NEW s \in Server, NEW b, Batch(b),
           batch' = [batch EXCEPT ![s] = b]
    PROVE  BatchOK'
<1>1. BatchOK
  BY DEF TypeOK, BatchOK, Batch
<1>2. /\ DOMAIN batch' = Server
      /\ \A v \in Server : batch'[v] = IF v = s THEN b ELSE batch[v]
  BY <1>1 DEF BatchOK
<1>3. \A v \in Server : Batch(batch'[v])
  BY <1>1, <1>2 DEF BatchOK
<1>4. QED
  BY <1>2, <1>3 DEF BatchOK, Batch

LEMMA ListingType ==
    ASSUME TypeOK, NEW s \in Server, NEW rows \in SUBSET Payment,
           Listing(s, rows)
    PROVE  BatchOK'
<1>1. Batch([p \in rows |-> LegOf(p)])
  BY DEF LegOf, Leg, Batch
<1>2. QED
  BY <1>1, BatchType DEF Listing

LEMMA VisitType ==
    ASSUME TypeOK, NEW v \in Server, NEW p \in Payment, NEW s \in Step,
           Visit(v, p, s)
    PROVE  TypeOK'
<1>1. PcOK'
  BY GotoType, ThreadFacts DEF Visit
<1>2. FaultsOK'
  BY FaultType DEF Visit
<1>3. BatchOK'
  <2>1. Batch([q \in DOMAIN batch[v] \ {p} |-> batch[v][q]])
    BY DEF TypeOK, Batch
  <2>2. QED
    BY <2>1, BatchType DEF Visit
<1>4. tokenless' \subseteq Thread \X Payment
  BY DEF Visit, TypeOK
<1>5. QED
  BY <1>1, <1>2, <1>3, <1>4
     DEF Visit, TypeOK, PcOK, FaultsOK, BatchOK, Batch, db

-----------------------------------------------------------------------------
(* Type correctness, group of actions by group of actions.                 *)

LEMMA RequestType ==
    ASSUME TypeOK, NEW p \in Payment, RequestStep(p)
    PROVE  TypeOK'
<1> USE ThreadFacts DEF TypeOK, RowsOK, PcOK, FaultsOK, db, local, recon
<1>1. CASE Charge(p)
  <2>1. PICK v \in ChargeState \ {"none"} :
           /\ ps' = [ps EXCEPT ![p].charge = v]
           /\ Goto(Request, p, IF v = "success" THEN "saveCharge" ELSE "fail")
    BY <1>1 DEF Charge
  <2>2. ps' \in [Payment -> Account]
    BY <2>1, AccountType
  <2>3. PcOK'
    BY <2>1, GotoType DEF Step
  <2>4. QED
    BY <1>1, <2>2, <2>3, FaultType DEF Charge
<1>2. CASE ChargeErrs(p)
  <2>1. ps' \in [Payment -> Account]
    BY <1>2, AccountType DEF ChargeErrs, ChargeState
  <2>2. PcOK'
    BY <1>2, GotoType DEF ChargeErrs, Step
  <2>3. QED
    BY <1>2, <2>1, <2>2, FaultType DEF ChargeErrs
<1>3. CASE SaveCharge(p)
  <2>1. RowsOK'
    BY <1>3, StatementType DEF SaveCharge
  <2>2. PcOK'
    BY <1>3, GotoType DEF SaveCharge, Step
  <2>3. QED
    BY <1>3, <2>1, <2>2, FaultType DEF SaveCharge
<1>4. CASE Hold(p)
  <2>1. RowsOK'
    BY <1>4, StatementType DEF Hold
  <2>2. PcOK'
    BY <1>4, GotoType, ReturnType DEF Hold, Step
  <2>3. QED
    BY <1>4, <2>1, <2>2, FaultType DEF Hold
<1>5. CASE Arm(p)
  BY <1>5, ReturnType, FaultType DEF Arm
<1>6. QED
  BY <1>1, <1>2, <1>3, <1>4, <1>5 DEF RequestStep

LEMMA SenderType ==
    ASSUME TypeOK, NEW t \in Sender, NEW p \in Payment, SenderStep(t, p)
    PROVE  TypeOK'
<1> USE ThreadFacts DEF TypeOK, RowsOK, PcOK, FaultsOK, db, local, recon
<1>1. CASE Release(t, p)
  <2>1. RowsOK'
    BY <1>1, StatementType DEF Release
  <2>2. PcOK'
    BY <1>1, GotoType, ReturnType DEF Release, Step
  <2>3. QED
    BY <1>1, <2>1, <2>2, FaultType DEF Release
<1>2. CASE Load(t, p)
  <2>1. PcOK'
    BY <1>2, GotoType, ReturnType DEF Load, Step
  <2>2. tokenless' \subseteq Thread \X Payment
    BY <1>2 DEF Load
  <2>3. QED
    BY <1>2, <2>1, <2>2, FaultType DEF Load
<1>3. CASE Transfer(t, p)
  <2>1. ps' \in [Payment -> Account]
    BY <1>3, AccountType DEF Transfer
  <2>2. PcOK'
    BY <1>3, GotoType, ReturnType DEF Transfer, Step
  <2>3. QED
    BY <1>3, <2>1, <2>2, FaultType DEF Transfer
<1>4. CASE TransferErrs(t, p)
  <2>1. ps' \in [Payment -> Account]
    BY <1>4, AccountType DEF TransferErrs
  <2>2. PcOK'
    BY <1>4, GotoType, ReturnType DEF TransferErrs, Step
  <2>3. QED
    BY <1>4, <2>1, <2>2, FaultType DEF TransferErrs
<1>5. CASE SaveTransfer(t, p)
  <2>1. RowsOK'
    BY <1>5, StatementType DEF SaveTransfer, Status
  <2>2. PcOK'
    BY <1>5, GotoType, ReturnType DEF SaveTransfer, Step
  <2>3. QED
    BY <1>5, <2>1, <2>2, FaultType DEF SaveTransfer
<1>6. QED
  BY <1>1, <1>2, <1>3, <1>4, <1>5 DEF SenderStep

LEMMA BookType ==
    ASSUME TypeOK, NEW t \in Thread, NEW p \in Payment, BookStep(t, p)
    PROVE  TypeOK'
<1> USE ThreadFacts DEF TypeOK, RowsOK, PcOK, FaultsOK, db, local, recon
<1>1. CASE Debit(t, p)
  <2>1. ledger' \in [Payment -> Pair]
    <3>1. [ledger[p] EXCEPT !.debit = @ + 1] \in Pair
      BY PairFields
    <3>2. QED
      BY <1>1, <3>1 DEF Debit, LedgerErrs
  <2>2. PcOK'
    BY <1>1, GotoType, ReturnType DEF Debit, LedgerErrs, Step
  <2>3. QED
    BY <1>1, <2>1, <2>2, FaultType DEF Debit, LedgerErrs
<1>2. CASE Credit(t, p)
  <2>1. ledger' \in [Payment -> Pair]
    <3>1. [ledger[p] EXCEPT !.credit = @ + 1] \in Pair
      BY PairFields
    <3>2. QED
      BY <1>2, <3>1 DEF Credit, LedgerErrs
  <2>2. PcOK'
    BY <1>2, GotoType, ReturnType DEF Credit, LedgerErrs, Step
  <2>3. QED
    BY <1>2, <2>1, <2>2, FaultType DEF Credit, LedgerErrs
<1>3. CASE Settle(t, p)
  <2>1. RowsOK'
    BY <1>3, StatementType DEF Settle
  <2>2. PcOK'
    BY <1>3, GotoType, ReturnType DEF Settle, Step
  <2>3. QED
    BY <1>3, <2>1, <2>2, FaultType DEF Settle
<1>4. CASE SettleToken(t, p)
  <2>1. token' \in [Payment -> TokenStatus]
    BY <1>4, TokenType DEF SettleToken, TokenStatus
  <2>2. PcOK'
    BY <1>4, ReturnType DEF SettleToken
  <2>3. QED
    BY <1>4, <2>1, <2>2, FaultType DEF SettleToken
<1>5. CASE Fail(t, p)
  <2>1. RowsOK'
    BY <1>5, StatementType DEF Fail
  <2>2. PcOK'
    BY <1>5, GotoType, ReturnType DEF Fail, Step
  <2>3. QED
    BY <1>5, <2>1, <2>2, FaultType DEF Fail
<1>6. CASE FailToken(t, p)
  <2>1. token' \in [Payment -> TokenStatus]
    BY <1>6, TokenType DEF FailToken, TokenStatus
  <2>2. PcOK'
    BY <1>6, ReturnType DEF FailToken
  <2>3. QED
    BY <1>6, <2>1, <2>2, FaultType DEF FailToken
<1>7. CASE Reject(t, p)
  <2>1. RowsOK'
    BY <1>7, StatementType DEF Reject
  <2>2. PcOK'
    BY <1>7, GotoType, ReturnType DEF Reject, Step
  <2>3. QED
    BY <1>7, <2>1, <2>2, FaultType DEF Reject
<1>8. CASE Close(t, p)
  <2>1. RowsOK'
    BY <1>8, StatementType DEF Close
  <2>2. PcOK'
    BY <1>8, GotoType, ReturnType DEF Close, Step
  <2>3. QED
    BY <1>8, <2>1, <2>2, FaultType DEF Close
<1>9. QED
  BY <1>1, <1>2, <1>3, <1>4, <1>5, <1>6, <1>7, <1>8 DEF BookStep

LEMMA UndoType ==
    ASSUME TypeOK, NEW u \in Undoer, NEW p \in Payment,
           Undo(u, p) \/ UndoStep(u, p)
    PROVE  TypeOK'
<1> USE ThreadFacts DEF TypeOK, RowsOK, PcOK, FaultsOK, db, local, recon
<1>1. CASE Undo(u, p)
  <2>1. PcOK'
    BY <1>1, GotoType, ReturnType DEF Undo, Step
  <2>2. QED
    BY <1>1, <2>1, FaultType DEF Undo
<1>2. CASE UndoRefund(u, p)
  <2>1. ps' \in [Payment -> Account]
    BY <1>2, AccountType DEF UndoRefund
  <2>2. PcOK'
    BY <1>2, GotoType, ReturnType DEF UndoRefund, Step
  <2>3. QED
    BY <1>2, <2>1, <2>2, FaultType DEF UndoRefund
<1>3. CASE MarkUndone(u, p)
  <2>1. RowsOK'
    BY <1>3, StatementType DEF MarkUndone
  <2>2. PcOK'
    BY <1>3, GotoType, ReturnType DEF MarkUndone, Step
  <2>3. QED
    BY <1>3, <2>1, <2>2, FaultType DEF MarkUndone
<1>4. CASE Disarm(u, p)
  <2>1. PcOK'
    BY <1>4, GotoType, ReturnType DEF Disarm, Step
  <2>2. QED
    BY <1>4, <2>1, FaultType DEF Disarm
<1>5. QED
  BY <1>1, <1>2, <1>3, <1>4 DEF UndoStep

LEMMA HookType ==
    ASSUME TypeOK, NEW h \in Hook, NEW p \in Payment,
           Delivery(h, p) \/ HookStep(h, p)
    PROVE  TypeOK'
<1> USE ThreadFacts DEF TypeOK, RowsOK, PcOK, FaultsOK, db, local, recon
<1>1. CASE ChargeFailedHook(h, p)
  <2>1. PcOK'
    BY <1>1, GotoType, ReturnType DEF ChargeFailedHook, Step
  <2>2. QED
    BY <1>1, <2>1, FaultType DEF ChargeFailedHook
<1>2. CASE TransferHook(h, p)
  <2>1. PcOK'
    BY <1>2, GotoType DEF TransferHook, Step
  <2>2. seen' \in [Hook -> Status]
    BY <1>2 DEF TransferHook, Row
  <2>3. QED
    BY <1>2, <2>1, <2>2, FaultType DEF TransferHook
<1>3. CASE LateHook(h, p)
  <2>1. PcOK'
    BY <1>3, GotoType, ReturnType DEF LateHook, Step
  <2>2. QED
    BY <1>3, <2>1, FaultType DEF LateHook
<1>4. CASE NoteTransfer(h, p)
  <2>1. RowsOK'
    BY <1>4, StatementType DEF NoteTransfer
  <2>2. PcOK'
    BY <1>4, GotoType, ReturnType DEF NoteTransfer, Step
  <2>3. seen' \in [Hook -> Status]
    BY <1>4 DEF NoteTransfer, Status
  <2>4. QED
    BY <1>4, <2>1, <2>2, <2>3, FaultType DEF NoteTransfer
<1>5. CASE CountLedger(h, p)
  <2>1. PcOK'
    BY <1>5, GotoType, ReturnType DEF CountLedger, Step
  <2>2. QED
    BY <1>5, <2>1, FaultType DEF CountLedger
<1>6. QED
  BY <1>1, <1>2, <1>3, <1>4, <1>5 DEF Delivery, HookStep

LEMMA ReconcilerType ==
    ASSUME TypeOK, NEW v \in Server,
           \/ ReleaseDueHolds(v) \/ Sweep(v) \/ AttemptAutoRefunds(v)
           \/ BatchDone(v)
           \/ \E p \in Payment : VisitStep(v, p) \/ VerifyStep(v, p)
    PROVE  TypeOK'
<1>1. CASE ReleaseDueHolds(v) \/ Sweep(v) \/ AttemptAutoRefunds(v)
  <2>1. BatchOK'
    BY <1>1, ListingType
       DEF ReleaseDueHolds, Sweep, AttemptAutoRefunds, ExpiredHolds,
           StuckPayments, PaymentsForAutoRefund
  <2>2. FaultsOK'
    BY <1>1, FaultType DEF ReleaseDueHolds, Sweep, AttemptAutoRefunds
  <2>3. job' \in [Server -> {"idle", "release", "stuck", "autoRefund"}]
    BY <1>1 DEF ReleaseDueHolds, Sweep, AttemptAutoRefunds, TypeOK
  <2>4. QED
    BY <1>1, <2>1, <2>2, <2>3
       DEF ReleaseDueHolds, Sweep, AttemptAutoRefunds, TypeOK, FaultsOK,
           BatchOK, Batch, db, local
<1>2. CASE BatchDone(v)
  BY <1>2, FaultType DEF BatchDone, TypeOK, FaultsOK, db, local
<1>3. ASSUME NEW p \in Payment, VisitStep(v, p)
      PROVE  TypeOK'
  <2>1. CASE ReleaseOne(v, p)
    BY <2>1, VisitType DEF ReleaseOne, Step
  <2>2. CASE ReconcileOne(v, p)
    <3>1. batch[v][p] \in Leg
      BY <2>2 DEF ReconcileOne, TypeOK
    <3>2. \E s \in Step : Visit(v, p, s)
      BY <2>2, <3>1 DEF ReconcileOne, Leg, Step
    <3>3. QED
      BY <3>2, VisitType
  <2>3. CASE AutoRefundOne(v, p)
    BY <2>3, VisitType DEF AutoRefundOne, Step
  <2>4. QED
    BY <1>3, <2>1, <2>2, <2>3 DEF VisitStep
<1>4. ASSUME NEW p \in Payment, VerifyStep(v, p)
      PROVE  TypeOK'
  <2> USE ThreadFacts DEF TypeOK, RowsOK, PcOK, FaultsOK, db, local, recon
  <2>1. CASE ReconcileTransfer(v, p)
    <3>1. PcOK'
      BY <2>1, GotoType, ReturnType DEF ReconcileTransfer, Step
    <3>2. QED
      BY <2>1, <3>1, FaultType DEF ReconcileTransfer
  <2>2. CASE ReconcileCharge(v, p)
    <3>1. PcOK'
      BY <2>2, GotoType, ReturnType DEF ReconcileCharge, Step
    <3>2. QED
      BY <2>2, <3>1, FaultType DEF ReconcileCharge
  <2>3. CASE Recheck(v, p)
    <3>1. PcOK'
      BY <2>3, GotoType, ReturnType DEF Recheck, Step
    <3>2. QED
      BY <2>3, <3>1, FaultType DEF Recheck
  <2>4. CASE GiveBack(v, p)
    <3>1. ps' \in [Payment -> Account]
      BY <2>4, AccountType DEF GiveBack
    <3>2. PcOK'
      BY <2>4, GotoType, ReturnType DEF GiveBack, Step
    <3>3. QED
      BY <2>4, <3>1, <3>2, FaultType DEF GiveBack
  <2>5. CASE MarkRefunded(v, p)
    <3>1. RowsOK'
      BY <2>5, StatementType DEF MarkRefunded
    <3>2. PcOK'
      BY <2>5, GotoType, ReturnType DEF MarkRefunded, Step
    <3>3. QED
      BY <2>5, <3>1, <3>2, FaultType DEF MarkRefunded
  <2>6. QED
    BY <1>4, <2>1, <2>2, <2>3, <2>4, <2>5 DEF VerifyStep
<1>5. QED
  BY <1>1, <1>2, <1>3, <1>4

LEMMA NewRow ==
    ASSUME NEW r \in Row, NEW kind \in Kind
    PROVE  [r EXCEPT !.status = "initiated", !.kind = kind] \in Row
BY DEF Row, Status

LEMMA EnvironmentType ==
    ASSUME TypeOK,
           \/ \E v \in Server : Crash(v)
           \/ \E p \in Payment :
                 \/ \E kind \in Kind : Create(p, kind)
                 \/ TimerFires(p)
                 \/ \E t \in Thread : Disconnect(t, p)
                 \/ PaystackStep(p) \/ ClockStep(p)
    PROVE  TypeOK'
<1> USE ThreadFacts DEF TypeOK, RowsOK, PcOK, FaultsOK, db, local, recon
<1>1. ASSUME NEW v \in Server, Crash(v)
      PROVE  TypeOK'
  <2>1. PcOK'
    BY <1>1 DEF Crash, Ended, Step
  <2>2. BatchOK'
    <3>1. Batch(NoRows)
      BY DEF NoRows, Batch
    <3>2. QED
      BY <1>1, <3>1, BatchType DEF Crash
  <2>3. job' \in [Server -> {"idle", "release", "stuck", "autoRefund"}]
    BY <1>1 DEF Crash
  <2>4. armed' \subseteq Payment /\ tokenless' \subseteq Thread \X Payment
    BY <1>1 DEF Crash
  <2>5. FaultsOK'
    BY <1>1, FaultType DEF Crash
  <2>6. QED
    BY <1>1, <2>1, <2>2, <2>3, <2>4, <2>5 DEF Crash, BatchOK, Batch
<1>2. ASSUME NEW p \in Payment, NEW kind \in Kind, Create(p, kind)
      PROVE  TypeOK'
  <2>1. row' \in [Payment -> Row]
    <3>1. row[p] \in Row
      OBVIOUS
    <3>2. [row[p] EXCEPT !.status = "initiated", !.kind = kind] \in Row
      BY <3>1, NewRow
    <3>3. QED
      BY <1>2, <3>2 DEF Create
  <2>2. PcOK'
    BY <1>2, GotoType DEF Create, Step
  <2>3. token' \in [Payment -> TokenStatus]
    <3>1. (IF kind = "refund" THEN "none" ELSE "claimed") \in TokenStatus
      BY DEF TokenStatus
    <3> HIDE DEF db, local, recon
    <3>2. token' = [token EXCEPT ![p] = IF kind = "refund" THEN "none"
                                                          ELSE "claimed"]
      BY <1>2 DEF Create
    <3>3. QED
      BY <3>1, <3>2
  <2>4. QED
    BY <1>2, <2>1, <2>2, <2>3, FaultType DEF Create
<1>3. ASSUME NEW p \in Payment, TimerFires(p)
      PROVE  TypeOK'
  <2>1. PcOK'
    BY <1>3, GotoType DEF TimerFires, Step
  <2>2. QED
    BY <1>3, <2>1, FaultType DEF TimerFires
<1>4. ASSUME NEW p \in Payment, NEW t \in Thread, Disconnect(t, p)
      PROVE  TypeOK'
  <2>1. PcOK'
    BY <1>4, ReturnType DEF Disconnect
  <2>2. QED
    BY <1>4, <2>1, FaultType DEF Disconnect
<1>5. ASSUME NEW p \in Payment, PaystackStep(p)
      PROVE  TypeOK'
  <2>1. ps' \in [Payment -> Account]
    BY <1>5, AccountType
       DEF PaystackStep, ChargeResolves, TransferResolves,
           ChargeTurns, TransferReverses, ChargeState,
           TransferState
  <2>2. QED
    BY <1>5, <2>1, FaultType
       DEF PaystackStep, ChargeResolves, TransferResolves,
           ChargeTurns, TransferReverses
<1>6. ASSUME NEW p \in Payment, ClockStep(p)
      PROVE  TypeOK'
  <2>1. clock' \in [Payment -> Age]
    <3>1. clock[p] \in Age
      OBVIOUS
    <3>2. CASE WindowCloses(p)
      BY <3>1, <3>2, AgeFields DEF WindowCloses
    <3>3. CASE TimePasses(p)
      <4>1. [clock[p] EXCEPT !.quiet = @ + 1,
                             !.aged = @ \/ clock[p].quiet = 1] \in Age
        BY <3>1, <3>3, AgeFields DEF TimePasses
      <4>2. QED
        BY <3>3, <4>1 DEF TimePasses
    <3>4. QED
      BY <1>6, <3>2, <3>3 DEF ClockStep
  <2>2. QED
    BY <1>6, <2>1, FaultType DEF ClockStep, WindowCloses, TimePasses
<1>7. QED
  BY <1>1, <1>2, <1>3, <1>4, <1>5, <1>6

LEMMA TypeStep ==
    ASSUME TypeOK, [Next]_vars
    PROVE  TypeOK'
<1>1. CASE UNCHANGED vars
  BY <1>1 DEF TypeOK, vars
<1>2. CASE Next
  BY <1>2, RequestType, SenderType, BookType, UndoType, HookType,
     ReconcilerType, EnvironmentType DEF Next
<1>3. QED
  BY <1>1, <1>2

\* Type correctness: no interleaving, fault or crash takes a column, a
\* counter or a program counter out of its range; in particular the faults
\* stay within their bound.
THEOREM TypeCorrect == Spec => []TypeOK
<1>1. Init => TypeOK
  BY PaymentsAssumption
     DEF Init, TypeOK, Row, Pair, Account, Age, Status, Kind, TokenStatus,
         ChargeState, TransferState, Step, NoRows
<1>2. QED
  BY <1>1, TypeStep, PTL DEF Spec

-----------------------------------------------------------------------------
(* Most steps cannot disturb the invariant of a payment: they start no     *)
(* thread on the way to Paystack, leave the transfers alone, and leave no  *)
(* new trace of one.  Keeps(p) says that of the current step.              *)

Careful == {"charge", "saveCharge", "hold", "load", "transfer", "markUndone"}

\* A right the thread already has.
Onward == {<<"charge", "saveCharge">>, <<"load", "transfer">>}

StepsKeep(p) ==
    \A t \in Thread :
        /\ pc'[t][p] \in Careful => \/ pc'[t][p] = pc[t][p]
                                   \/ <<pc[t][p], pc'[t][p]>> \in Onward
        /\ pc'[t][p] \in Sent => TransferEvidence(p)

RowKeeps(p) ==
    /\ row'[p].chargeRef = row[p].chargeRef
    /\ row'[p].transferRef = row[p].transferRef
    /\ \/ row'[p].status = row[p].status
       \/ row'[p].status = "failed"
       \/ row'[p].status = "settled" /\ TransferEvidence(p)

BooksKeep(p) ==
    /\ token'[p] = "settled" => TransferEvidence(p)
    /\ ledger'[p].debit > 0 => TransferEvidence(p)

MoneyKeeps(p) ==
    /\ ps'[p].sent = ps[p].sent
    /\ ps'[p].refunds >= ps[p].refunds

BatchKeeps(p) ==
    \A v \in Server :
        p \in DOMAIN batch'[v] /\ batch'[v][p] = "transfer" =>
            row[p].transferRef

Keeps(p) ==
    /\ StepsKeep(p)
    /\ RowKeeps(p)
    /\ BooksKeep(p)
    /\ MoneyKeeps(p)
    /\ BatchKeeps(p)
    /\ NotesAreSettling(p)'

LEMMA CarefulSteps == Careful \cap Sent = {}
BY DEF Careful, Sent

LEMMA KeepsInv ==
    ASSUME TypeOK, TypeOK', NEW p \in Payment, PaymentInv(p), Keeps(p)
    PROVE  PaymentInv(p)'
<1>1. TransferEvidence(p) => ps[p].sent = 1 /\ row[p].chargeRef
  BY DEF PaymentInv
<1>2. ps'[p].sent \in Nat /\ ps[p].sent \in Nat /\ ps[p].refunds \in Nat
      /\ ps'[p].refunds \in Nat
  BY DEF TypeOK, Account
<1>3. (ps[p].sent <= 1)'
  BY DEF PaymentInv, Keeps, MoneyKeeps
<1>4. ASSUME NEW t \in Thread, Sending(t, p)' PROVE Sending(t, p)
  BY <1>4, CarefulSteps DEF Sending, Keeps, StepsKeep, Careful, Onward
<1>5. SendersAreAlone(p)'
  <2> SUFFICES ASSUME NEW t \in Thread, Sending(t, p)'
               PROVE  /\ ps'[p].sent = 0
                      /\ row'[p].status \in {"initiated", "transferring", "failed"}
                      /\ \A u \in Thread : Sending(u, p)' => u = t
    BY DEF SendersAreAlone
  <2>1. /\ ps[p].sent = 0
        /\ row[p].status \in {"initiated", "transferring", "failed"}
        /\ \A u \in Thread : Sending(u, p) => u = t
    BY <1>4 DEF PaymentInv, SendersAreAlone
  <2>2. ps'[p].sent = 0 /\ ~ TransferEvidence(p)
    BY <2>1, <1>1 DEF Keeps, MoneyKeeps
  <2>3. QED
    BY <2>1, <2>2, <1>4 DEF Keeps, RowKeeps
<1>6. ChargedFirst(p)'
  BY DEF PaymentInv, ChargedFirst, Keeps, RowKeeps, StepsKeep, Careful, Onward
<1>7. TransferEvidence(p)' => TransferEvidence(p)
  <2>1. CASE row'[p].transferRef
    BY <2>1 DEF Keeps, RowKeeps, TransferEvidence
  <2>2. CASE row'[p].status = "settled"
    BY <2>2 DEF Keeps, RowKeeps, TransferEvidence
  <2>3. CASE token'[p] = "settled" \/ ledger'[p].debit > 0
    BY <2>3 DEF Keeps, BooksKeep
  <2>4. CASE \E t \in Thread : pc'[t][p] \in Sent
    BY <2>4 DEF Keeps, StepsKeep
  <2>5. QED
    BY <2>1, <2>2, <2>3, <2>4 DEF TransferEvidence
<1>8. (TransferEvidence(p) => ps[p].sent = 1 /\ row[p].chargeRef)'
  BY <1>1, <1>7 DEF Keeps, RowKeeps, MoneyKeeps
<1>9. (row[p].status \in {"none", "held", "refunded"} => ps[p].sent = 0)'
  BY DEF PaymentInv, Keeps, RowKeeps, MoneyKeeps
<1>10. (row[p].transferRef => row[p].status \in {"settling", "settled", "failed"})'
  BY DEF PaymentInv, Keeps, RowKeeps
<1>11. (\A v \in Server :
           p \in DOMAIN batch[v] /\ batch[v][p] = "transfer" =>
               row[p].transferRef)'
  BY DEF PaymentInv, Keeps, RowKeeps, BatchKeeps
<1>12. (\/ row[p].status = "refunded"
        \/ \E t \in Thread : pc[t][p] = "markUndone"
        => ps[p].refunds >= 1)'
  BY <1>2 DEF PaymentInv, Keeps, RowKeeps, MoneyKeeps, StepsKeep, Careful,
                Onward
<1>13. NotesAreSettling(p)'
  BY DEF Keeps
<1>14. QED
  BY <1>3, <1>5, <1>6, <1>8, <1>9, <1>10, <1>11, <1>12, <1>13 DEF PaymentInv

-----------------------------------------------------------------------------
(* What keeps the parts of Keeps.                                          *)

LEMMA GotoFacts ==
    ASSUME TypeOK, NEW t \in Thread, NEW p \in Payment, NEW s \in Step,
           Goto(t, p, s)
    PROVE  \A u \in Thread, q \in Payment :
              pc'[u][q] = IF u = t /\ q = p THEN s ELSE pc[u][q]
BY DEF TypeOK, Goto

LEMMA OtherStepsKeep ==
    ASSUME TypeOK, NEW t \in Thread, NEW p \in Payment, NEW s \in Step,
           Goto(t, p, s), NEW q \in Payment, q # p
    PROVE  StepsKeep(q)
BY GotoFacts DEF StepsKeep, TransferEvidence

LEMMA GotoKeeps ==
    ASSUME TypeOK, NEW t \in Thread, NEW p \in Payment, NEW s \in Step,
           Goto(t, p, s),
           s \in Careful => <<pc[t][p], s>> \in Onward,
           s \in Sent => TransferEvidence(p)
    PROVE  \A q \in Payment : StepsKeep(q)
BY GotoFacts DEF StepsKeep, TransferEvidence

LEMMA SameStepsKeep ==
    ASSUME UNCHANGED pc
    PROVE  \A q \in Payment : StepsKeep(q)
BY DEF StepsKeep, TransferEvidence

LEMMA NotesKeep ==
    ASSUME TypeOK, RightToSend, UNCHANGED seen,
           NEW t \in Thread, NEW p \in Payment, NEW s \in Step,
           Goto(t, p, s), s \notin Note,
           NEW q \in Payment, row'[q].transferRef = row[q].transferRef
    PROVE  NotesAreSettling(q)'
<1>1. NotesAreSettling(q)
  BY DEF RightToSend, PaymentInv
<1>2. \A h \in Hook, r \in Payment : pc'[h][r] \in Note => pc[h][r] \in Note
  BY GotoFacts, ThreadFacts
<1>3. QED
  BY <1>1, <1>2 DEF NotesAreSettling

LEMMA SameRowKeeps ==
    ASSUME NEW q \in Payment, row'[q] = row[q]
    PROVE  RowKeeps(q)
BY DEF RowKeeps

LEMMA WriteFacts ==
    ASSUME TypeOK, NEW p \in Payment
    PROVE  /\ MarkPaymentFailed(p) => \A q \in Payment : RowKeeps(q)
           /\ MarkPaymentAutoRefunded(p) => \A q \in Payment : RowKeeps(q)
           /\ MarkPaymentSettled(p) /\ TransferEvidence(p)
                => \A q \in Payment : RowKeeps(q)
<1>1. row[p] \in Row /\ row \in [Payment -> Row]
  BY DEF TypeOK
<1>2. ASSUME MarkPaymentFailed(p) PROVE \A q \in Payment : RowKeeps(q)
  BY <1>1, <1>2 DEF MarkPaymentFailed, WriteRow, RowKeeps, Row
<1>3. ASSUME MarkPaymentAutoRefunded(p)
      PROVE  \A q \in Payment : RowKeeps(q)
  BY <1>1, <1>3 DEF MarkPaymentAutoRefunded, WriteRow, RowKeeps, Row
<1>4. ASSUME MarkPaymentSettled(p), TransferEvidence(p)
      PROVE  \A q \in Payment : RowKeeps(q)
  BY <1>1, <1>4 DEF MarkPaymentSettled, WriteRow, RowKeeps, Row
<1>5. QED
  BY <1>2, <1>3, <1>4

LEMMA SameBooksKeep ==
    ASSUME UNCHANGED <<token, ledger>>
    PROVE  \A q \in Payment : BooksKeep(q)
BY DEF BooksKeep, TransferEvidence

LEMMA TokenBooksKeep ==
    ASSUME TypeOK, NEW t, NEW p \in Payment, NEW s \in TokenStatus,
           SetToken(t, p, s), s = "settled" => TransferEvidence(p),
           UNCHANGED ledger
    PROVE  \A q \in Payment : BooksKeep(q)
<1>1. token \in [Payment -> TokenStatus]
  BY DEF TypeOK
<1>2. \A q \in Payment : token'[q] = token[q] \/ (q = p /\ token'[q] = s)
  BY <1>1 DEF SetToken
<1>3. QED
  BY <1>2 DEF BooksKeep, TransferEvidence

LEMMA SameMoneyKeeps ==
    ASSUME TypeOK, NEW q \in Payment, ps'[q] = ps[q]
    PROVE  MoneyKeeps(q)
BY DEF MoneyKeeps, TypeOK, Account

LEMMA SameBatchKeeps ==
    ASSUME RightToSend, UNCHANGED batch
    PROVE  \A q \in Payment : BatchKeeps(q)
BY DEF BatchKeeps, RightToSend, PaymentInv

\* The shape of a step that disturbs nothing.
LEMMA CalmStep ==
    ASSUME TypeOK, TypeOK', RightToSend, UNCHANGED <<seen, batch>>,
           NEW t \in Thread, NEW p \in Payment, NEW s \in Step,
           Goto(t, p, s), s \notin Note,
           s \in Careful => <<pc[t][p], s>> \in Onward,
           s \in Sent => TransferEvidence(p),
           \A q \in Payment : RowKeeps(q) /\ BooksKeep(q) /\ MoneyKeeps(q)
    PROVE  RightToSend'
<1>1. \A q \in Payment : StepsKeep(q)
  BY GotoKeeps
<1>2. \A q \in Payment : BatchKeeps(q)
  BY SameBatchKeeps
<1>3. \A q \in Payment : NotesAreSettling(q)'
  BY NotesKeep DEF RowKeeps
<1>4. \A q \in Payment : Keeps(q)
  BY <1>1, <1>2, <1>3 DEF Keeps
<1>5. QED
  BY <1>4, KeepsInv DEF RightToSend

\* A step on p disturbs no other payment.
LEMMA OthersKeep ==
    ASSUME TypeOK, TypeOK', RightToSend, UNCHANGED <<seen, batch>>,
           NEW t \in Thread, NEW p \in Payment, NEW s \in Step,
           Goto(t, p, s), s \notin Note,
           \A q \in Payment \ {p} :
              row'[q] = row[q] /\ BooksKeep(q) /\ MoneyKeeps(q),
           PaymentInv(p)'
    PROVE  RightToSend'
<1> SUFFICES ASSUME NEW q \in Payment, q # p
             PROVE  PaymentInv(q)'
  BY DEF RightToSend
<1>1. StepsKeep(q)
  BY OtherStepsKeep
<1>2. RowKeeps(q)
  BY SameRowKeeps
<1>3. BatchKeeps(q)
  BY SameBatchKeeps
<1>4. NotesAreSettling(q)'
  BY NotesKeep
<1>5. Keeps(q)
  BY <1>1, <1>2, <1>3, <1>4 DEF Keeps
<1>6. QED
  BY <1>5, KeepsInv DEF RightToSend

-----------------------------------------------------------------------------
(* The steps of the code, group by group.                                  *)

LEMMA StepSets ==
    /\ {"fail", "failToken", "idle", "done", "disarm", "arm", "reject",
        "close", "refund", "giveBack", "markRefunded", "release",
        "verifyCharge"} \subseteq Step \ (Careful \cup Sent)
    /\ Sent \subseteq Step /\ Careful \subseteq Step
    /\ \A t : Ended(t) \in Step \ (Careful \cup Sent)
    /\ Note \subseteq Sent /\ Careful \cap Sent = {}
BY DEF Careful, Sent, Step, Ended, Note

\* Going to a step outside Careful and Sent, or to one of Sent from one of
\* Sent.
LEMMA CalmGoto ==
    ASSUME TypeOK, TypeOK', RightToSend, UNCHANGED <<seen, batch>>,
           NEW t \in Thread, NEW p \in Payment, NEW s \in Step \ Careful,
           Goto(t, p, s), s \notin Note,
           s \in Sent => TransferEvidence(p),
           \A q \in Payment : RowKeeps(q) /\ BooksKeep(q) /\ MoneyKeeps(q)
    PROVE  RightToSend'
BY CalmStep

LEMMA AtSent ==
    ASSUME NEW t \in Thread, NEW p \in Payment, pc[t][p] \in Sent
    PROVE  TransferEvidence(p)
BY DEF TransferEvidence

LEMMA SameKeeps ==
    ASSUME TypeOK
    PROVE  /\ UNCHANGED row => \A q \in Payment : RowKeeps(q)
           /\ UNCHANGED <<token, ledger>> => \A q \in Payment : BooksKeep(q)
           /\ UNCHANGED ps => \A q \in Payment : MoneyKeeps(q)
BY SameRowKeeps, SameBooksKeep, SameMoneyKeeps

LEMMA BookKeeps ==
    ASSUME TypeOK, TypeOK', RightToSend,
           NEW t \in Thread, NEW p \in Payment, BookStep(t, p)
    PROVE  RightToSend'
<1>1. UNCHANGED <<seen, batch, ps>>
  BY DEF BookStep, Debit, Credit, Settle, SettleToken, Fail, FailToken,
         Reject, Close, local, recon
<1>2. \A q \in Payment : MoneyKeeps(q)
  BY <1>1, SameKeeps
<1>3. CASE Debit(t, p) \/ Credit(t, p)
  <2>1. TransferEvidence(p)
    BY <1>3, AtSent DEF Debit, Credit, At, Sent
  <2>2. \A q \in Payment : RowKeeps(q)
    BY <1>3, SameKeeps DEF Debit, Credit
  <2>3. \A q \in Payment : BooksKeep(q)
    <3>1. token' = token /\ \A q \in Payment \ {p} : ledger'[q] = ledger[q]
      BY <1>3 DEF Debit, Credit, LedgerErrs, TypeOK
    <3>2. QED
      BY <2>1, <3>1 DEF BooksKeep, TransferEvidence
  <2>4. \E s \in {"credit", "settle", "fail", Ended(t)} : Goto(t, p, s)
    BY <1>3 DEF Debit, Credit, LedgerErrs, Return
  <2>5. \A s \in {"credit", "settle", "fail", Ended(t)} :
           s \in Step \ Careful /\ s \notin Note
    BY StepSets DEF Sent, Note, Careful
  <2>6. QED
    BY <1>1, <1>2, <2>1, <2>2, <2>3, <2>4, <2>5, CalmGoto
<1>4. CASE Settle(t, p)
  <2>1. TransferEvidence(p)
    BY <1>4, AtSent DEF Settle, At, Sent
  <2>2. \A q \in Payment : RowKeeps(q) /\ BooksKeep(q)
    BY <1>4, <2>1, WriteFacts, SameKeeps DEF Settle
  <2>3. \E s \in {"settleToken", Ended(t)} : Goto(t, p, s)
    BY <1>4 DEF Settle, Return
  <2>4. \A s \in {"settleToken", Ended(t)} :
           s \in Step \ Careful /\ s \notin Note
    BY StepSets DEF Sent, Note, Careful
  <2>5. QED
    BY <1>1, <1>2, <2>1, <2>2, <2>3, <2>4, CalmGoto
<1>5. CASE SettleToken(t, p) \/ FailToken(t, p)
  <2>1. SettleToken(t, p) => TransferEvidence(p)
    BY AtSent DEF SettleToken, At, Sent
  <2>2. \A q \in Payment : BooksKeep(q)
    BY <1>5, <2>1, TokenBooksKeep, SameKeeps
       DEF SettleToken, FailToken, TokenStatus
  <2>3. \A q \in Payment : RowKeeps(q)
    BY <1>5, SameKeeps DEF SettleToken, FailToken
  <2>4. Goto(t, p, Ended(t))
    BY <1>5 DEF SettleToken, FailToken, Return
  <2>5. QED
    BY <1>1, <1>2, <2>2, <2>3, <2>4, StepSets, CalmGoto
<1>6. CASE Fail(t, p) \/ Reject(t, p) \/ Close(t, p)
  <2>1. \A q \in Payment : RowKeeps(q) /\ BooksKeep(q)
    BY <1>6, WriteFacts, SameKeeps DEF Fail, Reject, Close
  <2>2. Goto(t, p, "failToken") \/ Goto(t, p, Ended(t))
    BY <1>6 DEF Fail, Reject, Close, Return
  <2>3. QED
    BY <1>1, <1>2, <2>1, <2>2, StepSets, CalmGoto
<1>7. QED
  BY <1>3, <1>4, <1>5, <1>6 DEF BookStep

\* A row that was written and the ones that were not.
LEMMA RowFacts ==
    ASSUME TypeOK, NEW p \in Payment
    PROVE  /\ UpdatePaymentCharge(p) =>
                /\ row'[p].status = "transferring" /\ row'[p].chargeRef
                /\ row'[p].transferRef = row[p].transferRef
                /\ \A q \in Payment \ {p} : row'[q] = row[q]
           /\ \A s \in Status : UpdatePaymentTransfer(p, s) =>
                /\ row'[p].status = s /\ row'[p].transferRef
                /\ row'[p].chargeRef = row[p].chargeRef
                /\ \A q \in Payment \ {p} : row'[q] = row[q]
           /\ HoldPayment(p) =>
                /\ row[p].status = "transferring"
                /\ row'[p].status = "held"
                /\ row'[p].chargeRef = row[p].chargeRef
                /\ row'[p].transferRef = row[p].transferRef
                /\ \A q \in Payment \ {p} : row'[q] = row[q]
           /\ ReleaseHeldPayment(p) =>
                /\ row[p].status = "held"
                /\ row'[p].status = "transferring"
                /\ row'[p].chargeRef = row[p].chargeRef
                /\ row'[p].transferRef = row[p].transferRef
                /\ \A q \in Payment \ {p} : row'[q] = row[q]
           /\ MarkPaymentRefunded(p) =>
                /\ row[p].status = "held"
                /\ row'[p].status = "refunded"
                /\ row'[p].chargeRef = row[p].chargeRef
                /\ row'[p].transferRef = row[p].transferRef
                /\ \A q \in Payment \ {p} : row'[q] = row[q]
<1>1. row[p] \in Row /\ row \in [Payment -> Row]
  BY DEF TypeOK
<1>2. ASSUME UpdatePaymentCharge(p)
      PROVE  /\ row'[p].status = "transferring" /\ row'[p].chargeRef
             /\ row'[p].transferRef = row[p].transferRef
             /\ \A q \in Payment \ {p} : row'[q] = row[q]
  BY <1>1, <1>2 DEF UpdatePaymentCharge, WriteRow, Row
<1>3. ASSUME NEW s \in Status, UpdatePaymentTransfer(p, s)
      PROVE  /\ row'[p].status = s /\ row'[p].transferRef
             /\ row'[p].chargeRef = row[p].chargeRef
             /\ \A q \in Payment \ {p} : row'[q] = row[q]
  BY <1>1, <1>3 DEF UpdatePaymentTransfer, WriteRow, Row
<1>4. ASSUME HoldPayment(p)
      PROVE  /\ row[p].status = "transferring"
             /\ row'[p].status = "held"
             /\ row'[p].chargeRef = row[p].chargeRef
             /\ row'[p].transferRef = row[p].transferRef
             /\ \A q \in Payment \ {p} : row'[q] = row[q]
  BY <1>1, <1>4 DEF HoldPayment, Row
<1>5. ASSUME ReleaseHeldPayment(p)
      PROVE  /\ row[p].status = "held"
             /\ row'[p].status = "transferring"
             /\ row'[p].chargeRef = row[p].chargeRef
             /\ row'[p].transferRef = row[p].transferRef
             /\ \A q \in Payment \ {p} : row'[q] = row[q]
  BY <1>1, <1>5 DEF ReleaseHeldPayment, WriteRow, Row
<1>6. ASSUME MarkPaymentRefunded(p)
      PROVE  /\ row[p].status = "held"
             /\ row'[p].status = "refunded"
             /\ row'[p].chargeRef = row[p].chargeRef
             /\ row'[p].transferRef = row[p].transferRef
             /\ \A q \in Payment \ {p} : row'[q] = row[q]
  BY <1>1, <1>6 DEF MarkPaymentRefunded, WriteRow, Row
<1>7. QED
  BY <1>2, <1>3, <1>4, <1>5, <1>6

\* The right to send is the request's until it holds or sends the payment.
LEMMA SaveChargeKeeps ==
    ASSUME TypeOK, TypeOK', RightToSend, NEW p \in Payment, SaveCharge(p)
    PROVE  RightToSend'
<1>1. UNCHANGED <<seen, batch, ps, token, ledger>>
  BY DEF SaveCharge, local, recon
<1>2. \A q \in Payment : MoneyKeeps(q) /\ BooksKeep(q)
  BY <1>1, SameKeeps
<1>3. CASE Goto(Request, p, "fail") /\ UNCHANGED row
  BY <1>1, <1>2, <1>3, SameKeeps, CalmGoto, StepSets, ThreadFacts
<1>4. ASSUME UpdatePaymentCharge(p), NEW s \in {"hold", "transfer"},
             Goto(Request, p, s)
      PROVE  RightToSend'
  <2>1. s \in Step /\ s \notin Note /\ s \notin Sent /\ s # "markUndone"
    BY DEF Step, Note, Sent
  <2>2. \A u \in Thread, q \in Payment :
           pc'[u][q] = IF u = Request /\ q = p THEN s ELSE pc[u][q]
    BY <1>4, <2>1, GotoFacts, ThreadFacts
  <2>3. /\ row'[p].status = "transferring" /\ row'[p].chargeRef
        /\ row'[p].transferRef = row[p].transferRef
        /\ \A q \in Payment \ {p} : row'[q] = row[q]
    BY <1>4, RowFacts
  <2>4. Sending(Request, p)
    BY DEF SaveCharge, At, Sending
  <2>5. /\ ps[p].sent = 0
        /\ \A u \in Thread : Sending(u, p) => u = Request
    BY <2>4, ThreadFacts DEF RightToSend, PaymentInv, SendersAreAlone
  <2>6. ~ TransferEvidence(p) /\ PaymentInv(p)
    BY <2>5 DEF RightToSend, PaymentInv
  <2>7. SendersAreAlone(p)'
    BY <1>1, <2>2, <2>3, <2>5 DEF SendersAreAlone, Sending
  <2>8. ChargedFirst(p)'
    BY <2>3 DEF ChargedFirst
  <2>9. ~ TransferEvidence(p)'
    BY <1>1, <2>1, <2>2, <2>3, <2>6 DEF TransferEvidence
  <2>10. NotesAreSettling(p)'
    BY <1>1, <1>4, <2>1, <2>3, NotesKeep, ThreadFacts
  <2>11. PaymentInv(p)'
    BY <1>1, <2>1, <2>2, <2>3, <2>5, <2>6, <2>7, <2>8, <2>9, <2>10
       DEF PaymentInv, TransferEvidence
  <2>12. QED
    BY <1>1, <1>2, <1>4, <2>1, <2>3, <2>11, OthersKeep, ThreadFacts
<1>5. QED
  BY <1>3, <1>4 DEF SaveCharge

LEMMA HoldKeeps ==
    ASSUME TypeOK, TypeOK', RightToSend, NEW p \in Payment, Hold(p)
    PROVE  RightToSend'
<1>1. UNCHANGED <<seen, batch, ps, token, ledger>>
  BY DEF Hold, local, recon
<1>2. \A q \in Payment : MoneyKeeps(q) /\ BooksKeep(q)
  BY <1>1, SameKeeps
<1>3. CASE Return(Request, p) /\ UNCHANGED row
  BY <1>1, <1>2, <1>3, SameKeeps, CalmGoto, StepSets, ThreadFacts DEF Return
<1>4. ASSUME HoldPayment(p), Goto(Request, p, "arm")
      PROVE  RightToSend'
  <2>1. \A u \in Thread, q \in Payment :
           pc'[u][q] = IF u = Request /\ q = p THEN "arm" ELSE pc[u][q]
    BY <1>4, StepSets, GotoFacts, ThreadFacts
  <2>2. /\ row'[p].status = "held"
        /\ row'[p].chargeRef = row[p].chargeRef
        /\ row'[p].transferRef = row[p].transferRef
        /\ \A q \in Payment \ {p} : row'[q] = row[q]
    BY <1>4, RowFacts
  <2>3. Sending(Request, p) /\ pc[Request][p] = "hold"
    BY DEF Hold, At, Sending
  <2>4. /\ ps[p].sent = 0
        /\ \A u \in Thread : Sending(u, p) => u = Request
    BY <2>3, ThreadFacts DEF RightToSend, PaymentInv, SendersAreAlone
  <2>5. ~ TransferEvidence(p) /\ PaymentInv(p) /\ row[p].chargeRef
    BY <2>3, <2>4, ThreadFacts DEF RightToSend, PaymentInv, ChargedFirst
  <2>6. \A u \in Thread : ~ Sending(u, p)'
    BY <2>1, <2>4 DEF Sending
  <2>7. SendersAreAlone(p)' /\ ChargedFirst(p)'
    BY <2>2, <2>5, <2>6 DEF SendersAreAlone, ChargedFirst
  <2>8. ~ TransferEvidence(p)'
    BY <1>1, <2>1, <2>2, <2>5 DEF TransferEvidence, Sent
  <2>9. NotesAreSettling(p)'
    BY <1>1, <1>4, <2>2, StepSets, NotesKeep, ThreadFacts
  <2>10. PaymentInv(p)'
    BY <1>1, <2>1, <2>2, <2>4, <2>5, <2>7, <2>8, <2>9
       DEF PaymentInv, TransferEvidence
  <2>11. QED
    BY <1>1, <1>2, <1>4, <2>2, <2>10, StepSets, OthersKeep, ThreadFacts
<1>5. QED
  BY <1>3, <1>4 DEF Hold

\* The only way to a right that a request has given up is through 'held'.
LEMMA ReleaseKeeps ==
    ASSUME TypeOK, TypeOK', RightToSend, NEW t \in Thread, NEW p \in Payment,
           Release(t, p)
    PROVE  RightToSend'
<1>1. UNCHANGED <<seen, batch, ps, token, ledger>>
  BY DEF Release, local, recon
<1>2. \A q \in Payment : MoneyKeeps(q) /\ BooksKeep(q)
  BY <1>1, SameKeeps
<1>3. CASE Return(t, p) /\ UNCHANGED row
  BY <1>1, <1>2, <1>3, SameKeeps, CalmGoto, StepSets DEF Return
<1>4. ASSUME ReleaseHeldPayment(p), Goto(t, p, "load")
      PROVE  RightToSend'
  <2>1. "load" \in Step /\ "load" \notin Note /\ "load" \notin Sent
    BY DEF Step, Note, Sent
  <2>2. \A u \in Thread, q \in Payment :
           pc'[u][q] = IF u = t /\ q = p THEN "load" ELSE pc[u][q]
    BY <1>4, <2>1, GotoFacts
  <2>3. /\ row[p].status = "held" /\ row'[p].status = "transferring"
        /\ row'[p].chargeRef = row[p].chargeRef
        /\ row'[p].transferRef = row[p].transferRef
        /\ \A q \in Payment \ {p} : row'[q] = row[q]
    BY <1>4, RowFacts
  <2>4. PaymentInv(p) /\ ps[p].sent = 0
    BY <2>3 DEF RightToSend, PaymentInv
  <2>5. ~ TransferEvidence(p) /\ row[p].chargeRef
    BY <2>3, <2>4 DEF PaymentInv, ChargedFirst
  <2>6. \A u \in Thread : ~ Sending(u, p)
    BY <2>3, <2>4 DEF PaymentInv, SendersAreAlone
  <2>7. SendersAreAlone(p)'
    BY <1>1, <2>2, <2>3, <2>4, <2>6 DEF SendersAreAlone, Sending
  <2>8. ChargedFirst(p)'
    BY <2>3, <2>5 DEF ChargedFirst
  <2>9. ~ TransferEvidence(p)'
    BY <1>1, <2>1, <2>2, <2>3, <2>5 DEF TransferEvidence
  <2>10. NotesAreSettling(p)'
    BY <1>1, <1>4, <2>1, <2>3, NotesKeep
  <2>11. PaymentInv(p)'
    BY <1>1, <2>2, <2>3, <2>4, <2>5, <2>7, <2>8, <2>9, <2>10
       DEF PaymentInv, TransferEvidence
  <2>12. QED
    BY <1>1, <1>2, <1>4, <2>1, <2>3, <2>11, OthersKeep
<1>5. QED
  BY <1>3, <1>4 DEF Release

\* InitiateTransfer uses the right up.
LEMMA SendFacts ==
    ASSUME TypeOK, NEW p \in Payment, InitiateTransfer(p)
    PROVE  /\ ps'[p].sent = ps[p].sent + 1 /\ ps'[p].refunds = ps[p].refunds
           /\ \A q \in Payment \ {p} : ps'[q] = ps[q]
<1>1. ps \in [Payment -> Account] /\ ps[p] \in Account
  BY DEF TypeOK
<1>2. ps' = [ps EXCEPT ![p] = [ps[p] EXCEPT !.transfer = "pending",
                                            !.sent = ps[p].sent + 1]]
  BY DEF InitiateTransfer
<1>3. ps'[p].sent = ps[p].sent + 1 /\ ps'[p].refunds = ps[p].refunds
  BY <1>1, <1>2 DEF Account
<1>4. \A q \in Payment \ {p} : ps'[q] = ps[q]
  BY <1>1, <1>2
<1>5. QED
  BY <1>3, <1>4

LEMMA TransferKeeps ==
    ASSUME TypeOK, TypeOK', RightToSend, NEW t \in Thread, NEW p \in Payment,
           Transfer(t, p) \/ TransferErrs(t, p)
    PROVE  RightToSend'
<1>1. UNCHANGED <<seen, batch, row, token, ledger>> /\ pc[t][p] = "transfer"
  BY DEF Transfer, TransferErrs, local, recon, db, At
<1>2. \A q \in Payment : RowKeeps(q) /\ BooksKeep(q)
  BY <1>1, SameKeeps
<1>3. CASE Goto(t, p, "fail") /\ UNCHANGED ps
  BY <1>1, <1>2, <1>3, SameKeeps, CalmGoto, StepSets
<1>4. ASSUME InitiateTransfer(p), NEW s \in {"saveTransfer", "fail"},
             Goto(t, p, s)
      PROVE  RightToSend'
  <2>1. s \in Step /\ s \notin Note /\ s \notin Careful
    BY DEF Step, Note, Careful
  <2>2. \A u \in Thread, q \in Payment :
           pc'[u][q] = IF u = t /\ q = p THEN s ELSE pc[u][q]
    BY <1>4, <2>1, GotoFacts
  <2>3. Sending(t, p)
    BY <1>1 DEF Sending
  <2>4. /\ ps[p].sent = 0 /\ PaymentInv(p)
        /\ row[p].status \in {"initiated", "transferring", "failed"}
        /\ \A u \in Thread : Sending(u, p) => u = t
    BY <2>3 DEF RightToSend, PaymentInv, SendersAreAlone
  <2>5. ps'[p].sent = 1 /\ ps'[p].refunds = ps[p].refunds
    BY <1>4, <2>4, SendFacts
  <2>6. row[p].chargeRef
    BY <1>1, <2>4 DEF PaymentInv, ChargedFirst
  <2>7. \A u \in Thread : ~ Sending(u, p)'
    BY <2>1, <2>2, <2>4 DEF Sending, Careful
  <2>8. SendersAreAlone(p)' /\ ChargedFirst(p)'
    BY <1>1, <2>6, <2>7 DEF SendersAreAlone, ChargedFirst
  <2>9. NotesAreSettling(p)'
    BY <1>1, <1>4, <2>1, NotesKeep
  <2>10. PaymentInv(p)'
    BY <1>1, <2>1, <2>2, <2>4, <2>5, <2>6, <2>8, <2>9
       DEF PaymentInv, Careful
  <2>11. \A q \in Payment \ {p} : MoneyKeeps(q)
    BY <1>4, SendFacts, SameMoneyKeeps
  <2>12. QED
    BY <1>1, <1>2, <1>4, <2>1, <2>10, <2>11, OthersKeep
<1>5. QED
  BY <1>3, <1>4 DEF Transfer, TransferErrs

LEMMA SaveTransferKeeps ==
    ASSUME TypeOK, TypeOK', RightToSend, NEW t \in Thread, NEW p \in Payment,
           SaveTransfer(t, p)
    PROVE  RightToSend'
<1>1. UNCHANGED <<seen, batch, ps, token, ledger>> /\ pc[t][p] = "saveTransfer"
  BY DEF SaveTransfer, local, recon, At
<1>2. \A q \in Payment : MoneyKeeps(q) /\ BooksKeep(q)
  BY <1>1, SameKeeps
<1>3. CASE Goto(t, p, "fail") /\ UNCHANGED row
  BY <1>1, <1>2, <1>3, SameKeeps, CalmGoto, StepSets
<1>4. ASSUME UpdatePaymentTransfer(p, "settling"), Goto(t, p, "debit")
      PROVE  RightToSend'
  <2>1. "debit" \in Step /\ "debit" \notin Note /\ "debit" \notin Careful
    BY DEF Step, Note, Careful
  <2>2. \A u \in Thread, q \in Payment :
           pc'[u][q] = IF u = t /\ q = p THEN "debit" ELSE pc[u][q]
    BY <1>4, <2>1, GotoFacts
  <2>3. /\ row'[p].status = "settling" /\ row'[p].transferRef
        /\ row'[p].chargeRef = row[p].chargeRef
        /\ \A q \in Payment \ {p} : row'[q] = row[q]
    BY <1>4, RowFacts DEF Status
  <2>4. PaymentInv(p) /\ ps[p].sent = 1 /\ row[p].chargeRef
    BY <1>1, AtSent DEF RightToSend, PaymentInv, Sent
  <2>5. \A u \in Thread : ~ Sending(u, p)
    BY <2>4 DEF PaymentInv, SendersAreAlone
  <2>6. \A u \in Thread : ~ Sending(u, p)'
    BY <2>2, <2>5 DEF Sending
  <2>7. SendersAreAlone(p)' /\ ChargedFirst(p)'
    BY <2>3, <2>4, <2>6 DEF SendersAreAlone, ChargedFirst
  <2>8. NotesAreSettling(p)'
    <3>1. NotesAreSettling(p)
      BY <2>4 DEF PaymentInv
    <3>2. \A h \in Hook, r \in Payment : pc'[h][r] \in Note => pc[h][r] \in Note
      BY <2>1, <2>2, ThreadFacts
    <3>3. QED
      BY <1>1, <2>3, <3>1, <3>2 DEF NotesAreSettling
  <2>9. PaymentInv(p)'
    BY <1>1, <2>2, <2>3, <2>4, <2>7, <2>8 DEF PaymentInv
  <2>10. QED
    BY <1>1, <1>2, <1>4, <2>1, <2>3, <2>9, OthersKeep
<1>5. QED
  BY <1>3, <1>4 DEF SaveTransfer

LEMMA LoadKeeps ==
    ASSUME TypeOK, TypeOK', RightToSend, NEW t \in Thread, NEW p \in Payment,
           Load(t, p)
    PROVE  RightToSend'
<1>1. UNCHANGED <<seen, batch, row, ps, token, ledger>> /\ pc[t][p] = "load"
  BY DEF Load, recon, db, At
<1>2. \A q \in Payment : RowKeeps(q) /\ BooksKeep(q) /\ MoneyKeeps(q)
  BY <1>1, SameKeeps
<1>3. \E s \in {"transfer", Ended(t)} : Goto(t, p, s)
  BY DEF Load, Return
<1>4. \A s \in {"transfer", Ended(t)} :
         /\ s \in Step /\ s \notin Sent /\ s \notin Note
         /\ s \in Careful => <<pc[t][p], s>> \in Onward
  BY <1>1, StepSets DEF Onward, Careful
<1>5. QED
  BY <1>1, <1>2, <1>3, <1>4, CalmStep

LEMMA CreateKeeps ==
    ASSUME TypeOK, TypeOK', RightToSend, NEW p \in Payment, NEW kind \in Kind,
           Create(p, kind)
    PROVE  RightToSend'
<1>1. /\ UNCHANGED <<seen, batch, ps, ledger>>
      /\ row[p].status = "none" /\ Goto(Request, p, "charge")
  BY DEF Create, local, recon
<1>2. "charge" \in Step /\ "charge" \notin Note /\ "charge" \notin Sent
  BY DEF Step, Note, Sent
<1>3. \A u \in Thread, q \in Payment :
         pc'[u][q] = IF u = Request /\ q = p THEN "charge" ELSE pc[u][q]
  BY <1>1, <1>2, GotoFacts, ThreadFacts
<1>4. /\ row'[p].status = "initiated"
      /\ row'[p].chargeRef = row[p].chargeRef
      /\ row'[p].transferRef = row[p].transferRef
      /\ \A q \in Payment \ {p} : row'[q] = row[q]
  <2>1. row \in [Payment -> Row] /\ row[p] \in Row
    BY DEF TypeOK
  <2>2. QED
    BY <2>1 DEF Create, Row
<1>5. /\ token'[p] # "settled"
      /\ \A q \in Payment \ {p} : token'[q] = token[q]
  BY DEF Create, TypeOK
<1>6. /\ PaymentInv(p) /\ ps[p].sent = 0 /\ ~ TransferEvidence(p)
      /\ \A u \in Thread : ~ Sending(u, p)
  BY <1>1 DEF RightToSend, PaymentInv, SendersAreAlone
<1>7. SendersAreAlone(p)'
  BY <1>1, <1>3, <1>4, <1>6 DEF SendersAreAlone, Sending
<1>8. ChargedFirst(p)'
  BY <1>3, <1>4, <1>6 DEF PaymentInv, ChargedFirst
<1>9. ~ TransferEvidence(p)'
  BY <1>1, <1>2, <1>3, <1>4, <1>5, <1>6 DEF TransferEvidence
<1>10. NotesAreSettling(p)'
  BY <1>1, <1>2, <1>4, NotesKeep, ThreadFacts
<1>11. PaymentInv(p)'
  BY <1>1, <1>3, <1>4, <1>6, <1>7, <1>8, <1>9, <1>10
     DEF PaymentInv, TransferEvidence
<1>12. \A q \in Payment \ {p} : BooksKeep(q) /\ MoneyKeeps(q)
  BY <1>1, <1>5, SameMoneyKeeps DEF BooksKeep, TransferEvidence
<1>13. QED
  BY <1>1, <1>2, <1>4, <1>11, <1>12, OthersKeep, ThreadFacts

\* A field of Paystack's account that no part of the invariant reads.
LEMMA ChargeFieldKeeps ==
    ASSUME TypeOK, NEW p \in Payment, NEW v,
           \/ ps' = [ps EXCEPT ![p].charge = v]
           \/ ps' = [ps EXCEPT ![p].transfer = v]
    PROVE  \A q \in Payment : MoneyKeeps(q)
<1>1. ps \in [Payment -> Account] /\ ps[p] \in Account
  BY DEF TypeOK
<1>2. \A q \in Payment : ps[q].refunds \in Nat
  BY <1>1 DEF Account
<1>3. QED
  BY <1>1, <1>2 DEF MoneyKeeps, Account

LEMMA RequestKeeps ==
    ASSUME TypeOK, TypeOK', RightToSend, NEW p \in Payment, RequestStep(p)
    PROVE  RightToSend'
<1>1. CASE Charge(p) \/ ChargeErrs(p)
  <2>1. UNCHANGED <<seen, batch, row, token, ledger>>
        /\ pc[Request][p] = "charge"
    BY <1>1 DEF Charge, ChargeErrs, local, recon, db, At
  <2>2. \E v : ps' = [ps EXCEPT ![p].charge = v]
    BY <1>1 DEF Charge, ChargeErrs
  <2>3. \A q \in Payment : RowKeeps(q) /\ BooksKeep(q) /\ MoneyKeeps(q)
    BY <2>1, <2>2, SameKeeps, ChargeFieldKeeps
  <2>4. \E s \in {"saveCharge", "fail"} : Goto(Request, p, s)
    BY <1>1 DEF Charge, ChargeErrs
  <2>5. \A s \in {"saveCharge", "fail"} :
           /\ s \in Step /\ s \notin Sent /\ s \notin Note
           /\ s \in Careful => <<pc[Request][p], s>> \in Onward
    BY <2>1, StepSets DEF Onward, Careful
  <2>6. QED
    BY <2>1, <2>3, <2>4, <2>5, CalmStep, ThreadFacts
<1>2. CASE Arm(p)
  <2>1. UNCHANGED <<seen, batch, row, ps, token, ledger>>
        /\ Goto(Request, p, Ended(Request))
    BY <1>2 DEF Arm, local, recon, db, Return
  <2>2. QED
    BY <2>1, SameKeeps, CalmGoto, StepSets, ThreadFacts
<1>3. QED
  BY <1>1, <1>2, SaveChargeKeeps, HoldKeeps DEF RequestStep

LEMMA SenderKeeps ==
    ASSUME TypeOK, TypeOK', RightToSend, NEW t \in Sender, NEW p \in Payment,
           SenderStep(t, p)
    PROVE  RightToSend'
BY ThreadFacts, ReleaseKeeps, LoadKeeps, TransferKeeps, SaveTransferKeeps
   DEF SenderStep

LEMMA TimerKeeps ==
    ASSUME TypeOK, TypeOK', RightToSend, NEW p \in Payment, TimerFires(p)
    PROVE  RightToSend'
<1>1. UNCHANGED <<seen, batch, row, ps, token, ledger>>
      /\ Goto(Timer, p, "release")
  BY DEF TimerFires, local, recon, db
<1>2. QED
  BY <1>1, SameKeeps, CalmGoto, StepSets, ThreadFacts

LEMMA RefundFacts ==
    ASSUME TypeOK, NEW p \in Payment, RefundCharge(p)
    PROVE  /\ \A q \in Payment : MoneyKeeps(q)
           /\ ps'[p].refunds >= 1
<1>1. ps \in [Payment -> Account] /\ ps[p] \in Account
  BY DEF TypeOK
<1>2. ps' = [ps EXCEPT ![p].refunds = ps[p].refunds + 1]
  BY DEF RefundCharge
<1>3. \A q \in Payment : ps[q].refunds \in Nat
  BY <1>1 DEF Account
<1>4. QED
  BY <1>1, <1>2, <1>3 DEF MoneyKeeps, Account

\* Undo writes 'refunded' only over 'held', and only after its refund.
LEMMA UndoRefundKeeps ==
    ASSUME TypeOK, TypeOK', RightToSend, NEW u \in Undoer, NEW p \in Payment,
           UndoRefund(u, p)
    PROVE  RightToSend'
<1>1. UNCHANGED <<seen, batch, row, token, ledger>>
  BY DEF UndoRefund, local, recon, db
<1>2. \A q \in Payment : RowKeeps(q) /\ BooksKeep(q) /\ MoneyKeeps(q)
  BY <1>1, SameKeeps, RefundFacts DEF UndoRefund
<1>3. CASE Return(u, p)
  BY <1>1, <1>2, <1>3, CalmGoto, StepSets, ThreadFacts DEF Return
<1>4. CASE RefundCharge(p) /\ Goto(u, p, "markUndone")
  <2>1. "markUndone" \in Step /\ "markUndone" \notin Note
        /\ "markUndone" \notin Sent
    BY DEF Step, Note, Sent
  <2>2. \A t \in Thread, q \in Payment :
           pc'[t][q] = IF t = u /\ q = p THEN "markUndone" ELSE pc[t][q]
    BY <1>4, <2>1, GotoFacts, ThreadFacts
  <2>3. ps'[p].sent = ps[p].sent /\ ps'[p].refunds >= 1
    BY <1>4, RefundFacts DEF MoneyKeeps
  <2>4. PaymentInv(p)
    BY DEF RightToSend
  <2>5. \A t \in Thread : Sending(t, p)' => Sending(t, p)
    BY <2>2 DEF Sending
  <2>6. SendersAreAlone(p)' /\ ChargedFirst(p)'
    BY <1>1, <2>2, <2>3, <2>4, <2>5
       DEF SendersAreAlone, ChargedFirst, PaymentInv
  <2>7. TransferEvidence(p)' => TransferEvidence(p)
    BY <1>1, <2>1, <2>2 DEF TransferEvidence
  <2>8. NotesAreSettling(p)'
    BY <1>1, <1>4, <2>1, NotesKeep, ThreadFacts
  <2>9. PaymentInv(p)'
    BY <1>1, <2>3, <2>4, <2>6, <2>7, <2>8 DEF PaymentInv
  <2>10. QED
    BY <1>1, <1>2, <1>4, <2>1, <2>9, OthersKeep, ThreadFacts
<1>5. QED
  BY <1>3, <1>4 DEF UndoRefund

LEMMA MarkUndoneKeeps ==
    ASSUME TypeOK, TypeOK', RightToSend, NEW u \in Undoer, NEW p \in Payment,
           MarkUndone(u, p)
    PROVE  RightToSend'
<1>1. UNCHANGED <<seen, batch, ps, token, ledger>>
      /\ pc[u][p] = "markUndone"
  BY DEF MarkUndone, local, recon, At
<1>2. \A q \in Payment : BooksKeep(q) /\ MoneyKeeps(q)
  BY <1>1, SameKeeps
<1>3. CASE Return(u, p) /\ UNCHANGED row
  BY <1>1, <1>2, <1>3, SameKeeps, CalmGoto, StepSets, ThreadFacts DEF Return
<1>4. ASSUME MarkPaymentRefunded(p), Goto(u, p, "disarm")
      PROVE  RightToSend'
  <2>1. /\ "disarm" \in Step /\ "disarm" \notin Note
        /\ "disarm" \notin Sent /\ "disarm" \notin Careful
    BY StepSets
  <2>2. \A t \in Thread, q \in Payment :
           pc'[t][q] = IF t = u /\ q = p THEN "disarm" ELSE pc[t][q]
    BY <1>4, <2>1, GotoFacts, ThreadFacts
  <2>3. /\ row[p].status = "held" /\ row'[p].status = "refunded"
        /\ row'[p].chargeRef = row[p].chargeRef
        /\ row'[p].transferRef = row[p].transferRef
        /\ \A q \in Payment \ {p} : row'[q] = row[q]
    BY <1>4, RowFacts
  <2>4. /\ PaymentInv(p) /\ ps[p].sent = 0 /\ ps[p].refunds >= 1
        /\ row[p].chargeRef /\ ~ TransferEvidence(p)
        /\ \A t \in Thread : ~ Sending(t, p)
    BY <1>1, <2>3, ThreadFacts
       DEF RightToSend, PaymentInv, SendersAreAlone, ChargedFirst
  <2>5. \A t \in Thread : ~ Sending(t, p)'
    BY <2>2, <2>4 DEF Sending
  <2>6. SendersAreAlone(p)' /\ ChargedFirst(p)'
    BY <2>3, <2>4, <2>5 DEF SendersAreAlone, ChargedFirst
  <2>7. ~ TransferEvidence(p)'
    BY <1>1, <2>1, <2>2, <2>3, <2>4 DEF TransferEvidence
  <2>8. NotesAreSettling(p)'
    BY <1>1, <1>4, <2>1, <2>3, NotesKeep, ThreadFacts
  <2>9. PaymentInv(p)'
    BY <1>1, <2>3, <2>4, <2>6, <2>7, <2>8 DEF PaymentInv, TransferEvidence
  <2>10. QED
    BY <1>1, <1>2, <1>4, <2>1, <2>3, <2>9, OthersKeep, ThreadFacts
<1>5. QED
  BY <1>3, <1>4 DEF MarkUndone

LEMMA UndoKeeps ==
    ASSUME TypeOK, TypeOK', RightToSend, NEW u \in Undoer, NEW p \in Payment,
           Undo(u, p) \/ UndoStep(u, p)
    PROVE  RightToSend'
<1>1. CASE Undo(u, p) \/ Disarm(u, p)
  <2>1. /\ UNCHANGED <<seen, batch, row, ps, token, ledger>>
        /\ Goto(u, p, "refund") \/ Goto(u, p, "failToken")
    BY <1>1 DEF Undo, Disarm, local, recon, db
  <2>2. QED
    BY <2>1, SameKeeps, CalmGoto, StepSets, ThreadFacts
<1>2. QED
  BY <1>1, UndoRefundKeeps, MarkUndoneKeeps DEF UndoStep

\* A webhook starts from a row that already names its transfer.
LEMMA TransferHookKeeps ==
    ASSUME TypeOK, TypeOK', RightToSend, NEW h \in Hook, NEW p \in Payment,
           TransferHook(h, p)
    PROVE  RightToSend'
<1>1. /\ UNCHANGED <<batch, row, ps, token, ledger>>
      /\ row[p].transferRef /\ row[p].status \notin {"settled", "failed"}
      /\ seen' = [seen EXCEPT ![h] = row[p].status]
  BY DEF TransferHook, recon, db
<1>2. PICK s \in Note : Goto(h, p, s)
  BY DEF TransferHook, Note
<1>3. s \in Step /\ s \in Sent /\ s \notin Careful
  BY StepSets
<1>4. \A u \in Thread, q \in Payment :
         pc'[u][q] = IF u = h /\ q = p THEN s ELSE pc[u][q]
  BY <1>2, <1>3, GotoFacts, ThreadFacts
<1>5. TransferEvidence(p) /\ PaymentInv(p) /\ row[p].status = "settling"
  BY <1>1 DEF RightToSend, PaymentInv, TransferEvidence
<1>6. \A q \in Payment : pc[h][q] = "idle"
  BY DEF TransferHook, Fresh, At
<1>7. \A q \in Payment : RowKeeps(q) /\ BooksKeep(q) /\ MoneyKeeps(q)
  BY <1>1, SameKeeps
<1>8. \A q \in Payment : StepsKeep(q) /\ BatchKeeps(q)
  BY <1>1, <1>2, <1>3, <1>5, GotoKeeps, SameBatchKeeps, ThreadFacts
<1>9. ASSUME NEW q \in Payment PROVE NotesAreSettling(q)'
  <2> SUFFICES ASSUME NEW g \in Hook, pc'[g][q] \in Note
               PROVE  /\ row'[q].transferRef /\ seen'[g] = "settling"
                      /\ \A r \in Payment : pc'[g][r] \in Note => r = q
    BY DEF NotesAreSettling
  <2>1. CASE g = h
    <3>1. q = p /\ \A r \in Payment : pc'[g][r] \in Note => r = p
      BY <1>4, <1>6, <2>1, ThreadFacts DEF Note
    <3>2. seen'[h] = "settling"
      BY <1>1, <1>5 DEF TypeOK
    <3>3. QED
      BY <1>1, <2>1, <3>1, <3>2
  <2>2. CASE g # h
    <3>1. seen'[g] = seen[g] /\ \A r \in Payment : pc'[g][r] = pc[g][r]
      BY <1>1, <1>4, <2>2, ThreadFacts DEF TypeOK
    <3>2. NotesAreSettling(q)
      BY DEF RightToSend, PaymentInv
    <3>3. QED
      BY <1>1, <3>1, <3>2 DEF NotesAreSettling
  <2>3. QED
    BY <2>1, <2>2
<1>10. \A q \in Payment : Keeps(q)
  BY <1>7, <1>8, <1>9 DEF Keeps
<1>11. QED
  BY <1>10, KeepsInv DEF RightToSend

\* What it writes back is 'settling', whatever the row says by then.
LEMMA NoteTransferKeeps ==
    ASSUME TypeOK, TypeOK', RightToSend, NEW h \in Hook, NEW p \in Payment,
           NoteTransfer(h, p)
    PROVE  RightToSend'
<1>1. /\ UNCHANGED <<batch, ps, token, ledger>> /\ pc[h][p] \in Note
      /\ seen' = [seen EXCEPT ![h] = "none"]
  BY DEF NoteTransfer, recon, Note
<1>2. \E s \in {"countLedger", "reject", Ended(h)} : Goto(h, p, s)
  BY DEF NoteTransfer, Return
<1>3. PICK s \in {"countLedger", "reject", Ended(h)} : Goto(h, p, s)
  BY <1>2
<1>4. s \in Step /\ s \notin Note /\ s \notin Careful
  BY StepSets DEF Step, Note, Careful
<1>5. \A u \in Thread, q \in Payment :
         pc'[u][q] = IF u = h /\ q = p THEN s ELSE pc[u][q]
  BY <1>3, <1>4, GotoFacts, ThreadFacts
<1>6. /\ PaymentInv(p) /\ NotesAreSettling(p)
      /\ row[p].transferRef /\ seen[h] = "settling"
      /\ \A q \in Payment : pc[h][q] \in Note => q = p
  BY <1>1 DEF RightToSend, PaymentInv, NotesAreSettling
<1>7. /\ TransferEvidence(p) /\ ps[p].sent = 1 /\ row[p].chargeRef
      /\ \A u \in Thread : ~ Sending(u, p)
  BY <1>6 DEF PaymentInv, TransferEvidence, SendersAreAlone
<1>8. /\ row'[p].status \in {row[p].status, "settling"}
      /\ row'[p].transferRef /\ row'[p].chargeRef
      /\ \A q \in Payment \ {p} : row'[q] = row[q]
  <2>1. UNCHANGED row \/ UpdatePaymentTransfer(p, "settling")
    BY <1>6 DEF NoteTransfer
  <2>2. QED
    BY <1>6, <1>7, <2>1, RowFacts DEF Status
<1>9. ASSUME NEW q \in Payment PROVE NotesAreSettling(q)'
  <2> SUFFICES ASSUME NEW g \in Hook, pc'[g][q] \in Note
               PROVE  /\ row'[q].transferRef /\ seen'[g] = "settling"
                      /\ \A r \in Payment : pc'[g][r] \in Note => r = q
    BY DEF NotesAreSettling
  <2>1. g # h
    BY <1>4, <1>5, <1>6, ThreadFacts
  <2>2. seen'[g] = seen[g] /\ \A r \in Payment : pc'[g][r] = pc[g][r]
    BY <1>1, <1>5, <2>1, ThreadFacts DEF TypeOK
  <2>3. NotesAreSettling(q)
    BY DEF RightToSend, PaymentInv
  <2>4. row[q].transferRef => row'[q].transferRef
    BY <1>8
  <2>5. QED
    BY <2>2, <2>3, <2>4 DEF NotesAreSettling
<1>10. PaymentInv(p)'
  <2>1. \A u \in Thread : ~ Sending(u, p)'
    BY <1>4, <1>5, <1>7 DEF Sending, Careful
  <2>2. SendersAreAlone(p)' /\ ChargedFirst(p)'
    BY <1>8, <2>1 DEF SendersAreAlone, ChargedFirst
  <2>3. row[p].status \in {"settling", "settled", "failed"}
    BY <1>6 DEF PaymentInv
  <2>4. QED
    BY <1>1, <1>4, <1>5, <1>6, <1>7, <1>8, <1>9, <2>2, <2>3
       DEF PaymentInv, Careful
<1>11. ASSUME NEW q \in Payment, q # p PROVE PaymentInv(q)'
  <2>1. StepsKeep(q)
    BY <1>3, <1>4, <1>11, OtherStepsKeep, ThreadFacts
  <2>2. RowKeeps(q) /\ BooksKeep(q) /\ MoneyKeeps(q) /\ BatchKeeps(q)
    BY <1>1, <1>8, <1>11, SameRowKeeps, SameKeeps, SameBatchKeeps
  <2>3. Keeps(q)
    BY <1>9, <2>1, <2>2 DEF Keeps
  <2>4. QED
    BY <2>3, KeepsInv DEF RightToSend
<1>12. QED
  BY <1>10, <1>11 DEF RightToSend

LEMMA HookKeeps ==
    ASSUME TypeOK, TypeOK', RightToSend, NEW h \in Hook, NEW p \in Payment,
           Delivery(h, p) \/ HookStep(h, p)
    PROVE  RightToSend'
<1>1. CASE ChargeFailedHook(h, p) \/ LateHook(h, p)
  <2>1. /\ UNCHANGED <<seen, batch, row, ps, token, ledger>>
        /\ Goto(h, p, "close") \/ Goto(h, p, Ended(h))
    BY <1>1 DEF ChargeFailedHook, LateHook, local, recon, db, Return
  <2>2. QED
    BY <2>1, SameKeeps, CalmGoto, StepSets, ThreadFacts
<1>2. CASE CountLedger(h, p)
  <2>1. /\ UNCHANGED <<seen, batch, row, ps, token, ledger>>
        /\ TransferEvidence(p)
    BY <1>2, AtSent, ThreadFacts DEF CountLedger, local, recon, db, At, Sent
  <2>2. \E s \in {"debit", "settle"} : Goto(h, p, s)
    BY <1>2 DEF CountLedger
  <2>3. \A s \in {"debit", "settle"} : s \in Step \ Careful /\ s \notin Note
    BY StepSets DEF Sent, Note, Careful
  <2>4. QED
    BY <2>1, <2>2, <2>3, SameKeeps, CalmGoto, ThreadFacts
<1>3. QED
  BY <1>1, <1>2, TransferHookKeeps, NoteTransferKeeps DEF Delivery, HookStep

\* A reconciler acts on old rows, but a transfer reference stays.
LEMMA VisitKeeps ==
    ASSUME TypeOK, TypeOK', RightToSend,
           NEW v \in Server, NEW p \in Payment, VisitStep(v, p)
    PROVE  RightToSend'
<1>1. PICK s : Visit(v, p, s) /\ s \in Step \ Careful /\ s \notin Note
               /\ (s \in Sent => p \in DOMAIN batch[v] /\ batch[v][p] = "transfer")
  <2>1. CASE ReleaseOne(v, p)
    BY <2>1, StepSets DEF ReleaseOne
  <2>2. CASE AutoRefundOne(v, p)
    BY <2>2, StepSets DEF AutoRefundOne, Step, Sent, Careful, Note
  <2>3. CASE ReconcileOne(v, p)
    <3>1. p \in DOMAIN batch[v] /\ batch[v][p] \in Leg
      BY <2>3 DEF ReconcileOne, TypeOK
    <3>2. CASE batch[v][p] = "transfer"
      BY <2>3, <3>1, <3>2 DEF ReconcileOne, Step, Sent, Careful, Note
    <3>3. CASE batch[v][p] = "charge"
      BY <2>3, <3>3, StepSets DEF ReconcileOne
    <3>4. CASE batch[v][p] = "aged"
      BY <2>3, <3>4, StepSets DEF ReconcileOne
    <3>5. CASE batch[v][p] = "none"
      BY <2>3, <3>5, StepSets DEF ReconcileOne
    <3>6. QED
      BY <3>1, <3>2, <3>3, <3>4, <3>5 DEF Leg
  <2>4. QED
    BY <2>1, <2>2, <2>3 DEF VisitStep
<1>2. /\ UNCHANGED <<seen, row, ps, token, ledger>>
      /\ Goto(v, p, s)
      /\ batch' = [batch EXCEPT ![v] =
                    [q \in DOMAIN batch[v] \ {p} |-> batch[v][q]]]
  BY <1>1 DEF Visit, db
<1>3. s \in Sent => TransferEvidence(p)
  BY <1>1 DEF RightToSend, PaymentInv, TransferEvidence
<1>4. \A q \in Payment : StepsKeep(q)
  BY <1>1, <1>2, <1>3, GotoKeeps, ThreadFacts
<1>5. \A q \in Payment : RowKeeps(q) /\ BooksKeep(q) /\ MoneyKeeps(q)
  BY <1>2, SameKeeps
<1>6. \A q \in Payment : BatchKeeps(q)
  BY <1>2 DEF BatchKeeps, RightToSend, PaymentInv, TypeOK
<1>7. \A q \in Payment : NotesAreSettling(q)'
  BY <1>1, <1>2, NotesKeep, ThreadFacts
<1>8. \A q \in Payment : Keeps(q)
  BY <1>4, <1>5, <1>6, <1>7 DEF Keeps
<1>9. QED
  BY <1>8, KeepsInv DEF RightToSend

LEMMA VerifyKeeps ==
    ASSUME TypeOK, TypeOK', RightToSend,
           NEW v \in Server, NEW p \in Payment, VerifyStep(v, p)
    PROVE  RightToSend'
<1>1. CASE ReconcileTransfer(v, p) \/ ReconcileCharge(v, p) \/ Recheck(v, p)
  <2>1. UNCHANGED <<seen, batch, row, ps, token, ledger>>
    BY <1>1 DEF ReconcileTransfer, ReconcileCharge, Recheck, local, recon, db
  <2>2. \/ Goto(v, p, "settle") /\ TransferEvidence(p)
        \/ \E s \in {"reject", "fail", "giveBack", Ended(v)} :
             Goto(v, p, s)
    BY <1>1, AtSent, ThreadFacts
       DEF ReconcileTransfer, ReconcileCharge, Recheck, Return, At, Sent
  <2>3. "settle" \in Step \ Careful /\ "settle" \notin Note
    BY DEF Step, Careful, Note
  <2>4. \A s \in {"reject", "fail", "giveBack", Ended(v)} :
           s \in Step \ Careful /\ s \notin Note /\ s \notin Sent
    BY StepSets
  <2>5. QED
    BY <2>1, <2>2, <2>3, <2>4, SameKeeps, CalmGoto, ThreadFacts
<1>2. CASE GiveBack(v, p)
  <2>1. UNCHANGED <<seen, batch, row, token, ledger>>
    BY <1>2 DEF GiveBack, local, recon, db
  <2>2. \A q \in Payment : MoneyKeeps(q)
    BY <1>2, SameKeeps, RefundFacts DEF GiveBack
  <2>3. Goto(v, p, "markRefunded")
        \/ Goto(v, p, Ended(v))
    BY <1>2 DEF GiveBack, Return
  <2>4. QED
    BY <2>1, <2>2, <2>3, SameKeeps, StepSets, CalmGoto, ThreadFacts
<1>3. CASE MarkRefunded(v, p)
  <2>1. UNCHANGED <<seen, batch, ps, token, ledger>>
    BY <1>3 DEF MarkRefunded, local, recon
  <2>2. \A q \in Payment : RowKeeps(q)
    BY <1>3, SameKeeps, WriteFacts DEF MarkRefunded
  <2>3. Goto(v, p, "failToken")
        \/ Goto(v, p, Ended(v))
    BY <1>3 DEF MarkRefunded, Return
  <2>4. QED
    BY <2>1, <2>2, <2>3, SameKeeps, StepSets, CalmGoto, ThreadFacts
<1>4. QED
  BY <1>1, <1>2, <1>3 DEF VerifyStep

\* Steps that move no thread.
LEMMA StillKeeps ==
    ASSUME TypeOK, TypeOK', RightToSend, UNCHANGED <<row, token, ledger, pc, seen>>,
           \A q \in Payment : MoneyKeeps(q) /\ BatchKeeps(q)
    PROVE  RightToSend'
<1>1. \A q \in Payment : NotesAreSettling(q)'
  BY DEF RightToSend, PaymentInv, NotesAreSettling
<1>2. \A q \in Payment : Keeps(q)
  BY <1>1, SameStepsKeep, SameKeeps DEF Keeps
<1>3. QED
  BY <1>2, KeepsInv DEF RightToSend

LEMMA ListingKeeps ==
    ASSUME TypeOK, TypeOK', RightToSend, NEW v \in Server,
           \/ ReleaseDueHolds(v) \/ Sweep(v) \/ AttemptAutoRefunds(v)
           \/ BatchDone(v)
    PROVE  RightToSend'
<1>1. UNCHANGED <<row, token, ledger, pc, seen, ps>>
  BY DEF ReleaseDueHolds, Sweep, AttemptAutoRefunds, BatchDone, db, local
<1>2. UNCHANGED batch \/ \E rows : Listing(v, rows)
  BY DEF ReleaseDueHolds, Sweep, AttemptAutoRefunds, BatchDone
<1>3. \A q \in Payment : BatchKeeps(q)
  <2>1. ASSUME NEW rows, Listing(v, rows), NEW q \in Payment
        PROVE  BatchKeeps(q)
    <3>1. /\ batch'[v] = [p \in rows |-> LegOf(p)]
          /\ \A w \in Server \ {v} : batch'[w] = batch[w]
      BY <2>1 DEF Listing, TypeOK
    <3>2. q \in DOMAIN batch'[v] /\ batch'[v][q] = "transfer" =>
              row[q].transferRef
      BY <3>1 DEF LegOf
    <3>3. QED
      BY <3>1, <3>2 DEF BatchKeeps, RightToSend, PaymentInv
  <2>2. QED
    BY <1>2, <2>1, SameBatchKeeps
<1>4. QED
  BY <1>1, <1>3, StillKeeps, SameKeeps

LEMMA EnvironmentKeeps ==
    ASSUME TypeOK, TypeOK', RightToSend, NEW p \in Payment,
           PaystackStep(p) \/ ClockStep(p)
    PROVE  RightToSend'
<1>1. UNCHANGED <<row, token, ledger, pc, seen, batch>>
  BY DEF PaystackStep, ClockStep, ChargeResolves, TransferResolves,
         ChargeTurns, TransferReverses,
         WindowCloses, TimePasses, db, local, recon
<1>2. \/ UNCHANGED ps
      \/ \E v : ps' = [ps EXCEPT ![p].charge = v]
      \/ \E v : ps' = [ps EXCEPT ![p].transfer = v]
  BY DEF PaystackStep, ClockStep, ChargeResolves, TransferResolves,
         ChargeTurns, TransferReverses,
         WindowCloses, TimePasses
<1>3. \A q \in Payment : MoneyKeeps(q)
  BY <1>2, SameKeeps, ChargeFieldKeeps
<1>4. QED
  BY <1>1, <1>3, SameBatchKeeps, StillKeeps

LEMMA CrashKeeps ==
    ASSUME TypeOK, TypeOK', RightToSend, NEW v \in Server, Crash(v)
    PROVE  RightToSend'
<1>1. UNCHANGED <<row, token, ledger, seen, ps>>
  BY DEF Crash, db
<1>2. \A t \in Thread, q \in Payment :
         pc'[t][q] = pc[t][q] \/ pc'[t][q] \in {"idle", "done"}
  BY DEF Crash, Ended
<1>3. \A q \in Payment : StepsKeep(q) /\ NotesAreSettling(q)'
  <2>1. \A q \in Payment : StepsKeep(q)
    BY <1>2 DEF StepsKeep, TransferEvidence, Careful, Sent
  <2>2. \A h \in Hook, q \in Payment : pc'[h][q] \in Note => pc[h][q] \in Note
    BY <1>2, ThreadFacts DEF Note
  <2>3. QED
    BY <1>1, <2>1, <2>2 DEF NotesAreSettling, RightToSend, PaymentInv
<1>4. \A q \in Payment : BatchKeeps(q)
  <2>1. /\ DOMAIN batch'[v] = {}
        /\ \A w \in Server \ {v} : batch'[w] = batch[w]
    BY DEF Crash, NoRows, TypeOK
  <2>2. QED
    BY <2>1 DEF BatchKeeps, RightToSend, PaymentInv
<1>5. \A q \in Payment : Keeps(q)
  BY <1>1, <1>3, <1>4, SameKeeps DEF Keeps
<1>6. QED
  BY <1>5, KeepsInv DEF RightToSend

LEMMA DisconnectKeeps ==
    ASSUME TypeOK, TypeOK', RightToSend, NEW t \in Thread, NEW p \in Payment,
           Disconnect(t, p)
    PROVE  RightToSend'
<1>1. /\ UNCHANGED <<seen, batch, row, ps, token, ledger>>
      /\ Goto(t, p, Ended(t))
  BY DEF Disconnect, local, recon, db, Return
<1>2. QED
  BY <1>1, SameKeeps, CalmGoto, StepSets

-----------------------------------------------------------------------------
(* The theorems.                                                           *)

LEMMA RightToSendInit == Init => RightToSend
<1> SUFFICES ASSUME Init, NEW p \in Payment
             PROVE  PaymentInv(p)
  BY DEF RightToSend
<1>1. \A t \in Thread : pc[t][p] = "idle"
  BY DEF Init
<1>2. \A t \in Thread : ~ Sending(t, p)
  BY <1>1 DEF Sending
<1>3. SendersAreAlone(p) /\ ChargedFirst(p) /\ NotesAreSettling(p)
  BY <1>1, <1>2, ThreadFacts
     DEF SendersAreAlone, ChargedFirst, NotesAreSettling, Note, Init
<1>4. ~ TransferEvidence(p)
  BY <1>1 DEF TransferEvidence, Sent, Init
<1>5. QED
  BY <1>1, <1>3, <1>4 DEF PaymentInv, Init, NoRows

LEMMA RightToSendStep ==
    ASSUME TypeOK, RightToSend, [Next]_vars
    PROVE  RightToSend'
<1>1. TypeOK'
  BY TypeStep
<1>2. CASE UNCHANGED vars
  BY <1>1, <1>2, StillKeeps, SameKeeps, SameBatchKeeps DEF vars
<1>3. CASE Next
  BY <1>1, <1>3, CreateKeeps, RequestKeeps, TimerKeeps, SenderKeeps,
     BookKeeps, DisconnectKeeps, UndoKeeps, HookKeeps, VisitKeeps,
     VerifyKeeps, EnvironmentKeeps, ListingKeeps, CrashKeeps DEF Next
<1>4. QED
  BY <1>2, <1>3

\* The right to send a payment belongs to one goroutine at a time, before
\* anything was sent, and every trace of a transfer (a reference, a ledger
\* entry, 'settled') is of one that was made for a charged payment.
THEOREM SenderIsAlone == Spec => []RightToSend
<1>1. QED
  BY RightToSendInit, RightToSendStep, TypeCorrect, PTL DEF Spec

\* InitiateTransfer is called at most once for a payment, whatever the
\* timer, the fast tick, the request, crashes and dropped connections do.
THEOREM NeverSentTwice == Spec => []TransferOnce
<1>1. RightToSend => TransferOnce
  BY DEF RightToSend, PaymentInv, TransferOnce
<1>2. QED
  BY <1>1, SenderIsAlone, PTL

\* A payment that Undo marked refunded was refunded by Paystack and had not
\* been sent.
THEOREM UndoneWasNotSent == Spec => []UndoneIsUnsent
<1>1. RightToSend => UndoneIsUnsent
  BY DEF RightToSend, PaymentInv, UndoneIsUnsent
<1>2. QED
  BY <1>1, SenderIsAlone, PTL

\* While a payment is held nothing was sent and no thread is about to.
THEOREM HeldStaysPut == Spec => []HeldIsUntouched
<1>1. RightToSend => HeldIsUntouched
  BY ThreadFacts
     DEF RightToSend, PaymentInv, SendersAreAlone, Sending, HeldIsUntouched
<1>2. QED
  BY <1>1, SenderIsAlone, PTL

\* 'settled', on a payment or on its token, is never written for money that
\* was not charged and sent.
THEOREM SettledMeansSent == Spec => []SettledWasSent
<1>1. RightToSend => SettledWasSent
  BY DEF RightToSend, PaymentInv, TransferEvidence, SettledWasSent
<1>2. QED
  BY <1>1, SenderIsAlone, PTL

\* What a step can do to an undone payment.
LEMMA UndoneStep ==
    ASSUME TypeOK, RightToSend, [Next]_vars, NEW p \in Payment,
           row[p].status = "refunded"
    PROVE  /\ row'[p].status \in {"refunded", "failed"}
           /\ ps'[p].sent = ps[p].sent
<1>1. /\ PaymentInv(p) /\ NotesAreSettling(p) /\ ~ TransferEvidence(p)
      /\ \A t \in Thread : ~ Sending(t, p)
  BY DEF RightToSend, PaymentInv, SendersAreAlone
<1>2. \A t \in Thread : pc[t][p] \notin Sent
  BY <1>1 DEF TransferEvidence
<1>3. /\ row \in [Payment -> Row] /\ row[p] \in Row
      /\ ps \in [Payment -> Account] /\ ps[p] \in Account
  BY DEF TypeOK
<1> DEFINE Fine == /\ row'[p].status \in {"refunded", "failed"}
                   /\ ps'[p].sent = ps[p].sent
<1>4. UNCHANGED <<row, ps>> => Fine
  OBVIOUS
<1>5. ASSUME NEW q \in Payment,
             \/ MarkPaymentFailed(q) \/ MarkPaymentAutoRefunded(q)
             \/ q # p /\ (\/ MarkPaymentSettled(q) \/ MarkPaymentRefunded(q)
                          \/ UpdatePaymentCharge(q) \/ HoldPayment(q)
                          \/ ReleaseHeldPayment(q)
                          \/ \E s : UpdatePaymentTransfer(q, s)),
             UNCHANGED ps
      PROVE  Fine
  <2>1. \E r : row' = [row EXCEPT ![q] = r]
    BY <1>3, <1>5
       DEF MarkPaymentFailed, MarkPaymentAutoRefunded, MarkPaymentSettled,
           MarkPaymentRefunded, UpdatePaymentCharge, HoldPayment,
           ReleaseHeldPayment, UpdatePaymentTransfer, WriteRow
  <2>2. CASE q # p
    BY <1>3, <1>5, <2>1, <2>2
  <2>3. CASE q = p
    <3>1. RowKeeps(p)
      BY <1>5, <2>3, WriteFacts
    <3>2. QED
      BY <1>1, <1>5, <3>1 DEF RowKeeps
  <2>4. QED
    BY <2>2, <2>3
<1>6. ASSUME NEW q \in Payment,
             \/ q # p /\ InitiateTransfer(q)
             \/ RefundCharge(q)
             \/ \E v : ps' = [ps EXCEPT ![q].charge = v]
             \/ \E v : ps' = [ps EXCEPT ![q].transfer = v],
             UNCHANGED row
      PROVE  Fine
  BY <1>3, <1>6 DEF InitiateTransfer, RefundCharge, Account
<1>7. ASSUME NEW q \in Payment, NEW kind \in Kind, Create(q, kind)
      PROVE  Fine
  BY <1>3, <1>7 DEF Create, Row
<1>8. ASSUME NEW q \in Payment, RequestStep(q)
      PROVE  Fine
  <2>1. CASE SaveCharge(q)
    <3>1. q # p
      BY <1>1, <2>1, ThreadFacts DEF SaveCharge, At, Sending
    <3>2. QED
      BY <1>4, <1>5, <2>1, <3>1 DEF SaveCharge
  <2>2. CASE Hold(q)
    <3>1. q # p \/ UNCHANGED row
      BY <2>2 DEF Hold, HoldPayment
    <3>2. QED
      BY <1>4, <1>5, <2>2, <3>1 DEF Hold
  <2>3. CASE Charge(q) \/ ChargeErrs(q) \/ Arm(q)
    BY <1>4, <1>6, <2>3 DEF Charge, ChargeErrs, Arm, db
  <2>4. QED
    BY <1>8, <2>1, <2>2, <2>3 DEF RequestStep
<1>9. ASSUME NEW q \in Payment, NEW t \in Sender, SenderStep(t, q)
      PROVE  Fine
  <2>1. CASE Release(t, q)
    <3>1. q # p \/ UNCHANGED row
      BY <2>1 DEF Release, ReleaseHeldPayment
    <3>2. QED
      BY <1>4, <1>5, <2>1, <3>1 DEF Release
  <2>2. CASE Load(t, q)
    BY <1>4, <2>2 DEF Load, db
  <2>3. CASE Transfer(t, q) \/ TransferErrs(t, q)
    <3>1. q # p
      BY <1>1, <2>3, ThreadFacts DEF Transfer, TransferErrs, At, Sending
    <3>2. QED
      BY <1>4, <1>6, <2>3, <3>1 DEF Transfer, TransferErrs, db
  <2>4. CASE SaveTransfer(t, q)
    <3>1. q # p
      BY <1>2, <2>4, ThreadFacts DEF SaveTransfer, At, Sent
    <3>2. QED
      BY <1>4, <1>5, <2>4, <3>1 DEF SaveTransfer
  <2>5. QED
    BY <1>9, <2>1, <2>2, <2>3, <2>4 DEF SenderStep
<1>10. ASSUME NEW q \in Payment, NEW t \in Thread, BookStep(t, q)
       PROVE  Fine
  <2>1. CASE Settle(t, q)
    <3>1. q # p
      BY <1>2, <2>1 DEF Settle, At, Sent
    <3>2. QED
      BY <1>4, <1>5, <2>1, <3>1 DEF Settle
  <2>2. CASE Fail(t, q) \/ Reject(t, q) \/ Close(t, q)
    BY <1>4, <1>5, <2>2 DEF Fail, Reject, Close
  <2>3. CASE Debit(t, q) \/ Credit(t, q) \/ SettleToken(t, q) \/ FailToken(t, q)
    BY <1>4, <2>3 DEF Debit, Credit, SettleToken, FailToken
  <2>4. QED
    BY <1>10, <2>1, <2>2, <2>3 DEF BookStep
<1>11. ASSUME NEW q \in Payment, NEW u \in Undoer, Undo(u, q) \/ UndoStep(u, q)
       PROVE  Fine
  <2>1. CASE MarkUndone(u, q)
    <3>1. q # p \/ UNCHANGED row
      BY <2>1 DEF MarkUndone, MarkPaymentRefunded
    <3>2. QED
      BY <1>4, <1>5, <2>1, <3>1 DEF MarkUndone
  <2>2. CASE Undo(u, q) \/ UndoRefund(u, q) \/ Disarm(u, q)
    BY <1>4, <1>6, <2>2 DEF Undo, UndoRefund, Disarm, db
  <2>3. QED
    BY <1>11, <2>1, <2>2 DEF UndoStep
<1>12. ASSUME NEW q \in Payment, NEW h \in Hook, Delivery(h, q) \/ HookStep(h, q)
       PROVE  Fine
  <2>1. CASE NoteTransfer(h, q)
    <3>1. q # p
      BY <1>2, <2>1, ThreadFacts DEF NoteTransfer, Sent
    <3>2. QED
      BY <1>4, <1>5, <2>1, <3>1 DEF NoteTransfer
  <2>2. CASE Delivery(h, q) \/ CountLedger(h, q)
    BY <1>4, <2>2
       DEF Delivery, ChargeFailedHook, TransferHook, LateHook, CountLedger, db
  <2>3. QED
    BY <1>12, <2>1, <2>2 DEF HookStep
<1>13. ASSUME NEW q \in Payment, NEW v \in Server,
              VisitStep(v, q) \/ VerifyStep(v, q)
       PROVE  Fine
  <2>1. CASE VisitStep(v, q)
    BY <1>4, <2>1
       DEF VisitStep, ReleaseOne, ReconcileOne, AutoRefundOne, Visit, db
  <2>2. CASE VerifyStep(v, q)
    BY <1>4, <1>5, <1>6, <2>2
       DEF VerifyStep, ReconcileTransfer, ReconcileCharge, Recheck, GiveBack,
           MarkRefunded, db
  <2>3. QED
    BY <1>13, <2>1, <2>2
<1>14. ASSUME NEW q \in Payment,
              \/ TimerFires(q) \/ PaystackStep(q) \/ ClockStep(q)
              \/ \E t \in Thread : Disconnect(t, q)
       PROVE  Fine
  BY <1>4, <1>6, <1>14
     DEF TimerFires, PaystackStep, ClockStep, ChargeResolves,
         TransferResolves,
         ChargeTurns, TransferReverses, WindowCloses, TimePasses, Disconnect, db
<1>15. ASSUME \/ UNCHANGED vars
              \/ \E v \in Server :
                    \/ ReleaseDueHolds(v) \/ Sweep(v)
                    \/ AttemptAutoRefunds(v) \/ BatchDone(v) \/ Crash(v)
       PROVE  Fine
  BY <1>4, <1>15
     DEF ReleaseDueHolds, Sweep, AttemptAutoRefunds, BatchDone, Crash, db, vars
<1>16. QED
  BY <1>7, <1>8, <1>9, <1>10, <1>11, <1>12, <1>13, <1>14, <1>15 DEF Next

\* Nothing brings an undone payment back, and nothing sends it.
THEOREM UndoneStaysUndone == Spec => UndoIsKept
<1>1. TypeOK /\ RightToSend /\ [Next]_vars =>
        [\A p \in Payment : row[p].status = "refunded" =>
            /\ row'[p].status \in {"refunded", "failed"}
            /\ ps'[p].sent = ps[p].sent]_vars
  BY UndoneStep
<1>2. QED
  BY <1>1, TypeCorrect, SenderIsAlone, PTL DEF Spec, UndoIsKept
=============================================================================
