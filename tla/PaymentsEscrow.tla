--------------------------- MODULE PaymentsEscrow ---------------------------
(***************************************************************************)
(* Money that went back stays back: Payments implements Escrow, and once a *)
(* row names a refund Paystack neither refunds nor sends it again.  Both   *)
(* are for one server whose handlers are done within the day, the second   *)
(* for one undo as well; BugTwoInstances and BugUndoTwice show why.        *)
(***************************************************************************)
EXTENDS PaymentsLife

-----------------------------------------------------------------------------
(* Refunds, for one server.                                                *)

\* One instance of the server, and no ten minutes between two steps of a
\* request, an undo or a timer: see BugTwoInstances for why the first, and
\* HandlersAreIdle for the second.
OneServer ==
    /\ ~SlowHandlers
    /\ \A v, w \in Server : v = w

OneUndo == \A u, w \in Undoer : u = w

Handlers == {Request, Timer} \cup Undoer

Charging == {"charge", "saveCharge", "hold"}

Refunding == {"recheck", "giveBack", "markRefunded"}

\* Somebody but a reconciler or a webhook works on p, or is about to.
Alert(p) ==
    \/ \E t \in Handlers : pc[t][p] \notin Off
    \/ p \in armed
    \/ clock[p].window = "open"
    \/ row[p].status = "none"

\* Handlers are done long before a payment is a day old.
Prompt(p) == Alert(p) => ~clock[p].aged

\* The window of p is opened once, by its request.
HeldOnce(p) ==
    /\ row[p].status = "held" => clock[p].window # "unset"
    /\ row[p].status = "none" \/ pc[Request][p] \in Charging =>
          clock[p].window = "unset"

\* What the reconciler is refunding, or has listed for that, has not been
\* refunded, and it takes a payment from its listing only once.
GivingBack(p) ==
    \A v \in Server :
        /\ pc[v][p] \in Refunding =>
              job[v] = "autoRefund" /\ p \notin DOMAIN batch[v]
        /\ \/ pc[v][p] \in Refunding
           \/ job[v] = "autoRefund" /\ p \in DOMAIN batch[v]
           => clock[p].aged /\ ~row[p].refundRef

\* A payment that was given back is on nobody's way to the receiver; a
\* webhook never takes one there.
GivenBack(p) ==
    /\ row[p].refundRef =>
          /\ row[p].status \notin {"none", "held"}
          /\ \A t \in Thread : ~Sending(t, p)
    /\ \A h \in Hook : ~Sending(h, p)

BackInv(p) == Prompt(p) /\ HeldOnce(p) /\ GivingBack(p) /\ GivenBack(p)

Returns == \A p \in Payment : BackInv(p)

LEMMA KindsOfThreads ==
    /\ Handlers \subseteq Thread
    /\ Handlers \cap Server = {} /\ Handlers \cap Hook = {}
    /\ Request \notin Undoer /\ Request \notin Hook /\ Request \notin Server
    /\ Request # Timer /\ Server \cap Hook = {} /\ Server \cap Undoer = {}
BY PaymentsAssumption, ThreadFacts DEF Handlers, Sender, Thread, Request, Timer

\* No payment gets older, and no window opens or closes.
SameAges == \A q \in Payment : /\ clock'[q].aged = clock[q].aged
                               /\ clock'[q].window = clock[q].window

SameRefs == \A q \in Payment : row'[q].refundRef = row[q].refundRef

\* The status of p may change, but not to 'held'.
StatusOf(p) ==
    \A q \in Payment :
        \/ row'[q].status = row[q].status
        \/ q = p /\ row'[q].status \notin {"none", "held"}

\* What is sent is sent by somebody with the right to.
MoneyOf(p) ==
    \A q \in Payment :
        \/ ps'[q].sent = ps[q].sent
        \/ /\ q = p /\ ps[q].sent = 0 /\ ps'[q].sent = 1
           /\ ~row[q].refundRef /\ row[q].status # "held"

\* What Paystack refunds it refunds for an undo or for a reconciler.
RefundsOf(t, p) ==
    \A q \in Payment :
        \/ ps'[q].refunds = ps[q].refunds
        \/ /\ q = p
           /\ \/ t \in Undoer /\ pc[t][p] = "refund"
              \/ t \in Server /\ pc[t][p] = "giveBack"

\* Thread t goes on to step s of p, and refunds nothing.
Steady(t, p, s) ==
    /\ t \in Thread /\ s \in Step /\ Goto(t, p, s)
    /\ SameAges /\ SameRefs /\ StatusOf(p) /\ MoneyOf(p) /\ RefundsOf(t, p)
    /\ armed' \subseteq armed \cup {p}
    /\ p \in armed' => p \in armed \/ Alert(p)
    /\ UNCHANGED job
    /\ \A v \in Server : DOMAIN batch'[v] \subseteq DOMAIN batch[v]
    /\ t \in Handlers => Alert(p) \/ s \in Off
    /\ s \in Refunding /\ t \in Server => pc[t][p] \in Refunding
    /\ t = Request /\ s \in Charging =>
          pc[t][p] \in Charging \/ row[p].status = "none"
    /\ \/ s \in {"load", "transfer", "refund"}
       \/ t = Request /\ s \in Charging
       => ~row[p].refundRef
    /\ t \in Hook => s \notin {"load", "transfer"}

LEMMA SteadyKeepsInv ==
    ASSUME TypeOK, Returns, NEW t, NEW p \in Payment, NEW s, Steady(t, p, s)
    PROVE  Returns'
<1> SUFFICES ASSUME NEW q \in Payment PROVE BackInv(q)'
  BY DEF Returns
<1>1. BackInv(q) /\ BackInv(p)
  BY DEF Returns
<1>2. \A u \in Thread, r \in Payment :
         pc'[u][r] = IF u = t /\ r = p THEN s ELSE pc[u][r]
  BY GotoFacts DEF Steady
<1>3. clock'[q].aged = clock[q].aged /\ clock'[q].window = clock[q].window
  BY DEF Steady, SameAges
<1>4. row'[q].refundRef = row[q].refundRef
  BY DEF Steady, SameRefs
<1>5. \/ row'[q].status = row[q].status
      \/ q = p /\ row'[q].status \notin {"none", "held"}
  BY DEF Steady, StatusOf
<1>6. Prompt(q)'
  <2>1. Alert(q)' => Alert(q)
    <3>1. ASSUME NEW u \in Handlers, pc'[u][q] \notin Off
          PROVE  Alert(q)
      <4>1. CASE u = t /\ q = p
        BY <1>2, <3>1, <4>1, KindsOfThreads DEF Steady
      <4>2. CASE ~ (u = t /\ q = p)
        BY <1>2, <3>1, <4>2, KindsOfThreads DEF Alert
      <4>3. QED
        BY <4>1, <4>2
    <3>2. ASSUME q \in armed'
          PROVE  Alert(q)
      BY <3>2 DEF Steady, Alert
    <3>3. QED
      BY <1>3, <1>5, <3>1, <3>2 DEF Alert
  <2>2. QED
    BY <1>1, <1>3, <2>1 DEF BackInv, Prompt
<1>7. HeldOnce(q)'
  <2>1. pc'[Request][q] \in Charging =>
           pc[Request][q] \in Charging \/ row[q].status = "none"
    BY <1>2, ThreadFacts DEF Steady
  <2>2. QED
    BY <1>1, <1>3, <1>5, <2>1 DEF BackInv, HeldOnce
<1>8. GivingBack(q)'
  <2> SUFFICES ASSUME NEW v \in Server
               PROVE  /\ pc'[v][q] \in Refunding =>
                            job'[v] = "autoRefund" /\ q \notin DOMAIN batch'[v]
                      /\ \/ pc'[v][q] \in Refunding
                         \/ job'[v] = "autoRefund" /\ q \in DOMAIN batch'[v]
                         => clock'[q].aged /\ ~row'[q].refundRef
    BY DEF GivingBack
  <2>1. pc'[v][q] \in Refunding => pc[v][q] \in Refunding
    BY <1>2, ThreadFacts DEF Steady
  <2>2. job' = job /\ DOMAIN batch'[v] \subseteq DOMAIN batch[v]
    BY DEF Steady
  <2>3. QED
    BY <1>1, <1>3, <1>4, <2>1, <2>2 DEF BackInv, GivingBack
<1>9. GivenBack(q)'
  <2>1. ASSUME NEW u \in Thread, Sending(u, q)', row[q].refundRef
        PROVE  Sending(u, q)
    <3>1. CASE u = t /\ q = p
      <4>1. pc'[u][q] = s
        BY <1>2, <3>1
      <4>2. s \in {"load", "transfer"} \/ (t = Request /\ s \in Charging)
        BY <2>1, <3>1, <4>1 DEF Sending, Charging
      <4>3. QED
        BY <2>1, <3>1, <4>2 DEF Steady
    <3>2. CASE ~ (u = t /\ q = p)
      <4>1. pc'[u][q] = pc[u][q]
        BY <1>2, <3>2
      <4>2. QED
        BY <2>1, <4>1 DEF Sending
    <3>3. QED
      BY <3>1, <3>2
  <2>2. ASSUME NEW h \in Hook
        PROVE  ~Sending(h, q)'
    <3>1. h \in Thread /\ h # Request /\ ~Sending(h, q)
      BY <1>1, ThreadFacts, KindsOfThreads DEF BackInv, GivenBack
    <3>2. QED
      BY <1>2, <3>1 DEF Sending, Steady
  <2>3. QED
    BY <1>1, <1>4, <1>5, <2>1, <2>2 DEF BackInv, GivenBack
<1>10. QED
  BY <1>6, <1>7, <1>8, <1>9 DEF BackInv

-----------------------------------------------------------------------------
(* The statements of payments.sql that are no special case here.           *)

LEMMA SameFacts ==
    ASSUME NEW p, NEW t
    PROVE  /\ UNCHANGED clock => SameAges
           /\ UNCHANGED row => SameRefs /\ StatusOf(p)
           /\ UNCHANGED ps => MoneyOf(p) /\ RefundsOf(t, p)
BY DEF SameAges, SameRefs, StatusOf, MoneyOf, RefundsOf

LEMMA RowKept ==
    ASSUME NEW r \in Row, NEW s \in Status
    PROVE  /\ [r EXCEPT !.status = s].refundRef = r.refundRef
           /\ [r EXCEPT !.chargeRef = TRUE, !.status = s].refundRef
                = r.refundRef
           /\ [r EXCEPT !.transferRef = TRUE, !.status = s].refundRef
                = r.refundRef
           /\ [r EXCEPT !.refundRef = TRUE, !.status = s].refundRef
BY DEF Row

LEMMA ClockKept ==
    ASSUME TypeOK, NEW p \in Payment,
           clock' = [clock EXCEPT ![p].quiet = 0]
    PROVE  SameAges
<1>1. clock \in [Payment -> Age] /\ clock[p] \in Age
  BY DEF TypeOK
<1>2. QED
  BY <1>1 DEF SameAges, Age

LEMMA RowWritten ==
    ASSUME TypeOK, NEW p \in Payment, NEW r, WriteRow(p, r),
           r.refundRef = row[p].refundRef, r.status \notin {"none", "held"}
    PROVE  SameAges /\ SameRefs /\ StatusOf(p)
<1>1. row'[p] = r /\ \A q \in Payment : q # p => row'[q] = row[q]
  BY DEF TypeOK, WriteRow
<1>2. SameAges
  BY ClockKept DEF WriteRow
<1>3. QED
  BY <1>1, <1>2 DEF SameRefs, StatusOf

LEMMA StatementSteady ==
    ASSUME TypeOK, NEW p \in Payment,
           \/ UpdatePaymentCharge(p) \/ UpdatePaymentTransfer(p, "settling")
           \/ MarkPaymentSettled(p) \/ MarkPaymentFailed(p)
           \/ ReleaseHeldPayment(p) \/ UNCHANGED <<row, clock>>
    PROVE  SameAges /\ SameRefs /\ StatusOf(p)
<1>1. row[p] \in Row
  BY DEF TypeOK
<1>2. {"transferring", "settling", "settled", "failed"} \subseteq Status
  BY DEF Status
<1>3. CASE UpdatePaymentCharge(p)
  BY <1>1, <1>2, <1>3, RowKept, RowAmended, RowWritten
     DEF UpdatePaymentCharge
<1>4. CASE UpdatePaymentTransfer(p, "settling")
  BY <1>1, <1>2, <1>4, RowKept, RowAmended, RowWritten
     DEF UpdatePaymentTransfer
<1>5. CASE MarkPaymentSettled(p)
  BY <1>1, <1>2, <1>5, RowKept, RowAmended, RowWritten DEF MarkPaymentSettled
<1>6. CASE MarkPaymentFailed(p)
  BY <1>1, <1>2, <1>6, RowKept, RowAmended, RowWritten DEF MarkPaymentFailed
<1>7. CASE ReleaseHeldPayment(p)
  BY <1>1, <1>2, <1>7, RowKept, RowAmended, RowWritten DEF ReleaseHeldPayment
<1>8. QED
  BY <1>3, <1>4, <1>5, <1>6, <1>7, SameFacts

\* The steps one may go to from any other.
Easy == Step \ (Refunding \cup Charging \cup {"load", "transfer", "refund"})

LEMMA EasySteps ==
    /\ Easy = {"idle", "done", "arm", "release", "saveTransfer", "debit",
               "credit", "settle", "settleToken", "fail", "reject", "close",
               "failToken", "markUndone", "disarm", "noteSuccess",
               "noteFailure", "countLedger", "verifyTransfer", "verifyCharge"}
    /\ \A t : Ended(t) \in Easy
    /\ Charging \cup {"load", "transfer", "refund"} \subseteq Step \ Refunding
    /\ Off \subseteq Easy
    /\ Easy \cap (Charging \cup {"load", "transfer", "refund"}) = {}
BY DEF Easy, Step, Refunding, Charging, Off, Ended

\* The conditions of Steady that every step of a thread meets which leaves
\* the timers and the listings alone.
LEMMA MakeSteady ==
    ASSUME NEW t \in Thread, NEW p \in Payment, NEW s \in Easy,
           Goto(t, p, s), SameAges, SameRefs, StatusOf(p), MoneyOf(p),
           RefundsOf(t, p), UNCHANGED <<armed, job, batch>>,
           t \in Handlers => Alert(p) \/ s \in Off
    PROVE  Steady(t, p, s)
BY EasySteps DEF Steady, Easy

LEMMA AtWork ==
    ASSUME NEW t \in Handlers, NEW p, pc[t][p] \notin Off
    PROVE  Alert(p)
BY DEF Alert

-----------------------------------------------------------------------------
(* The steps of the code that are steady, group by group, and the few that *)
(* are not.                                                                *)

LEMMA VerdictFacts ==
    ASSUME TypeOK, NEW p \in Payment, NEW t, NEW v,
           \/ ps' = [ps EXCEPT ![p].charge = v]
           \/ ps' = [ps EXCEPT ![p].transfer = v]
    PROVE  /\ MoneyOf(p) /\ RefundsOf(t, p)
           /\ \A q \in Payment : /\ ps'[q].sent = ps[q].sent
                                 /\ ps'[q].refunds = ps[q].refunds
<1>1. ps \in [Payment -> Account] /\ ps[p] \in Account
  BY DEF TypeOK
<1>2. \A q \in Payment : /\ ps'[q].sent = ps[q].sent
                         /\ ps'[q].refunds = ps[q].refunds
  BY <1>1 DEF Account
<1>3. QED
  BY <1>2 DEF MoneyOf, RefundsOf

\* HoldPayment found its row.
Holds(p) ==
    /\ At(Request, p, "hold")
    /\ HoldPayment(p)
    /\ Goto(Request, p, "arm")
    /\ UNCHANGED <<ps, armed, job, batch>>

\* MarkPaymentRefunded found its row.
Undoes(u, p) ==
    /\ At(u, p, "markUndone")
    /\ MarkPaymentRefunded(p)
    /\ Goto(u, p, "disarm")
    /\ UNCHANGED <<ps, armed, job, batch>>

\* The reconciler of v records the refund it made.
GaveBack(v, p) ==
    /\ At(v, p, "markRefunded")
    /\ MarkPaymentAutoRefunded(p)
    /\ Goto(v, p, "failToken")
    /\ UNCHANGED <<ps, armed, job, batch>>

LEMMA OnTheWay ==
    ASSUME Returns, NEW t \in Thread, NEW p \in Payment, Sending(t, p)
    PROVE  ~row[p].refundRef
BY DEF Returns, BackInv, GivenBack

LEMMA SendersFacts ==
    ASSUME Returns
    PROVE  \A p \in Payment, t \in Thread :
              pc[t][p] \in {"load", "transfer"} => t \notin Hook
BY DEF Returns, BackInv, GivenBack, Sending

LEMMA CreateSteady ==
    ASSUME TypeOK, Returns, NEW p \in Payment, NEW kind \in Kind,
           Create(p, kind)
    PROVE  Steady(Request, p, "charge")
<1>1. /\ row[p].status = "none" /\ Goto(Request, p, "charge")
      /\ UNCHANGED <<ps, clock, armed, job, batch>>
  BY DEF Create, recon
<1>2. Request \in Handlers /\ Request \notin Hook /\ Request \notin Server
      /\ Request \in Thread
  BY ThreadFacts, KindsOfThreads DEF Handlers
<1>3. row[p] \in Row /\ row \in [Payment -> Row]
  BY DEF TypeOK
<1>4. SameRefs
  BY <1>3 DEF Create, SameRefs, Row
<1>5. StatusOf(p)
  <2>1. row'[p].status = "initiated" /\ \A q \in Payment : q # p => row'[q] = row[q]
    BY <1>3 DEF Create, Row
  <2>2. QED
    BY <2>1 DEF StatusOf
<1>6. Alert(p) /\ ~row[p].refundRef
  BY <1>1 DEF Alert, Returns, BackInv, GivenBack
<1>7. "charge" \in Charging /\ "charge" \in Step \ Refunding
  BY EasySteps DEF Charging
<1>8. QED
  BY <1>1, <1>2, <1>4, <1>5, <1>6, <1>7, SameFacts DEF Steady

LEMMA RequestSteady ==
    ASSUME TypeOK, Returns, NEW p \in Payment, RequestStep(p)
    PROVE  Holds(p) \/ \E s \in Step : Steady(Request, p, s)
<1>1. /\ Request \in Handlers /\ Request \notin Hook /\ Request \notin Server
      /\ Request \in Thread
  BY ThreadFacts, KindsOfThreads DEF Handlers
<1>2. pc[Request][p] \in Charging \cup {"arm"} /\ UNCHANGED <<job, batch>>
  BY DEF RequestStep, Charge, ChargeErrs, SaveCharge, Hold, Arm, At, Charging,
         recon
<1>3. Alert(p)
  BY <1>1, <1>2, AtWork DEF Off, Charging
<1>4. CASE Charge(p) \/ ChargeErrs(p)
  <2>1. /\ UNCHANGED <<row, clock, armed>> /\ pc[Request][p] = "charge"
    BY <1>4 DEF Charge, ChargeErrs, db, At
  <2>2. PICK s \in {"saveCharge", "fail"} : Goto(Request, p, s)
    BY <1>4 DEF Charge, ChargeErrs
  <2>3. \E v : ps' = [ps EXCEPT ![p].charge = v]
    BY <1>4 DEF Charge, ChargeErrs
  <2>4. MoneyOf(p) /\ RefundsOf(Request, p)
    BY <2>3, VerdictFacts
  <2>5. ~row[p].refundRef
    BY <1>1, <2>1, OnTheWay DEF Sending
  <2>6. s \in Step \ Refunding /\ pc[Request][p] \in Charging
    BY <2>1, EasySteps DEF Charging, Refunding, Step
  <2>7. SameAges /\ SameRefs /\ StatusOf(p)
    BY <2>1, SameFacts
  <2>8. Steady(Request, p, s)
    BY <1>1, <1>2, <1>3, <2>1, <2>2, <2>4, <2>5, <2>6, <2>7 DEF Steady
  <2>9. QED
    BY <2>6, <2>8
<1>5. CASE SaveCharge(p)
  <2>1. /\ UNCHANGED <<ps, armed>> /\ pc[Request][p] = "saveCharge"
    BY <1>5 DEF SaveCharge, At
  <2>2. PICK s \in {"hold", "transfer", "fail"} : Goto(Request, p, s)
    BY <1>5 DEF SaveCharge
  <2>3. SameAges /\ SameRefs /\ StatusOf(p)
    BY <1>5, StatementSteady DEF SaveCharge
  <2>4. ~row[p].refundRef
    BY <1>1, <2>1, OnTheWay DEF Sending
  <2>5. s \in Step \ Refunding /\ pc[Request][p] \in Charging
    BY <2>1, EasySteps DEF Charging, Refunding, Step
  <2>6. Steady(Request, p, s)
    BY <1>1, <1>2, <1>3, <2>1, <2>2, <2>3, <2>4, <2>5, SameFacts DEF Steady
  <2>7. QED
    BY <2>5, <2>6
<1>6. CASE Hold(p)
  <2>1. CASE HoldPayment(p) /\ Goto(Request, p, "arm")
    BY <1>2, <1>6, <2>1 DEF Hold, Holds
  <2>2. CASE Return(Request, p) /\ UNCHANGED <<row, clock>>
    <3>1. Steady(Request, p, Ended(Request))
      BY <1>1, <1>2, <1>3, <1>6, <2>2, SameFacts, EasySteps, MakeSteady
         DEF Hold, Return
    <3>2. QED
      BY <3>1, EasySteps DEF Easy
  <2>3. QED
    BY <1>6, <2>1, <2>2 DEF Hold
<1>7. CASE Arm(p)
  <2>1. /\ UNCHANGED <<row, clock, ps>> /\ armed' = armed \cup {p}
        /\ Goto(Request, p, Ended(Request))
    BY <1>7 DEF Arm, Return, db
  <2>2. Ended(Request) \in Easy
    BY EasySteps
  <2>3. Steady(Request, p, Ended(Request))
    BY <1>1, <1>2, <1>3, <2>1, <2>2, SameFacts, EasySteps DEF Steady, Easy
  <2>4. QED
    BY <2>2, <2>3 DEF Easy
<1>8. QED
  BY <1>4, <1>5, <1>6, <1>7 DEF RequestStep

LEMMA TimerSteady ==
    ASSUME TypeOK, NEW p \in Payment, TimerFires(p)
    PROVE  Steady(Timer, p, "release")
<1>1. /\ p \in armed /\ armed' \subseteq armed /\ Goto(Timer, p, "release")
      /\ UNCHANGED <<row, clock, ps, job, batch>>
  BY DEF TimerFires, db, recon
<1>2. /\ Timer \in Thread /\ Timer # Request /\ "release" \in Easy
  BY ThreadFacts, KindsOfThreads, EasySteps
<1>3. Alert(p)
  BY <1>1 DEF Alert
<1>4. QED
  BY <1>1, <1>2, <1>3, SameFacts, EasySteps DEF Steady, Easy

LEMMA SendSteady ==
    ASSUME TypeOK, RightToSend, Returns, NEW t \in Thread, NEW p \in Payment,
           Transfer(t, p) \/ TransferErrs(t, p)
    PROVE  \E s \in Step : Steady(t, p, s)
<1>1. /\ pc[t][p] = "transfer" /\ UNCHANGED <<row, clock, armed, job, batch>>
  BY DEF Transfer, TransferErrs, At, db, recon
<1>2. PICK s \in {"saveTransfer", "fail"} : Goto(t, p, s)
  BY DEF Transfer, TransferErrs
<1>3. /\ ps[p].sent = 0 /\ row[p].status # "held" /\ ~row[p].refundRef
  BY <1>1, OnTheWay DEF RightToSend, PaymentInv, SendersAreAlone, Sending
<1>4. MoneyOf(p) /\ RefundsOf(t, p)
  <2>1. CASE UNCHANGED ps
    BY <2>1, SameFacts
  <2>2. CASE InitiateTransfer(p)
    <3>1. ps'[p].sent = 1 /\ ps'[p].refunds = ps[p].refunds
          /\ \A q \in Payment \ {p} : ps'[q] = ps[q]
      BY <1>3, <2>2, SendFacts
    <3>2. QED
      BY <1>3, <3>1 DEF MoneyOf, RefundsOf
  <2>3. QED
    BY <2>1, <2>2 DEF Transfer, TransferErrs
<1>5. t \in Handlers => Alert(p)
  BY <1>1, AtWork DEF Off
<1>6. s \in Easy
  BY EasySteps
<1>7. Steady(t, p, s)
  BY <1>1, <1>2, <1>4, <1>5, <1>6, SameFacts, MakeSteady
<1>8. QED
  BY <1>6, <1>7 DEF Easy

LEMMA SenderSteady ==
    ASSUME TypeOK, RightToSend, Returns, NEW t \in Sender, NEW p \in Payment,
           SenderStep(t, p)
    PROVE  \E s \in Step : Steady(t, p, s)
<1>1. t \in Thread /\ t \notin Hook
  BY ThreadFacts, KindsOfThreads, PaymentsAssumption DEF Sender
<1>2. /\ pc[t][p] \in {"release", "load", "transfer", "saveTransfer"}
      /\ UNCHANGED <<armed, job, batch>>
  BY DEF SenderStep, Release, Load, Transfer, TransferErrs, SaveTransfer, At,
         recon
<1>3. t \in Handlers => Alert(p)
  BY <1>2, AtWork DEF Off
<1>4. CASE Release(t, p)
  <2>1. UNCHANGED ps
    BY <1>4 DEF Release
  <2>2. SameAges /\ SameRefs /\ StatusOf(p)
    BY <1>4, StatementSteady DEF Release
  <2>3. CASE Return(t, p)
    <3>1. Steady(t, p, Ended(t))
      BY <1>1, <1>2, <1>3, <2>1, <2>2, <2>3, SameFacts, EasySteps, MakeSteady
         DEF Return
    <3>2. QED
      BY <3>1, EasySteps DEF Easy
  <2>4. CASE ReleaseHeldPayment(p) /\ Goto(t, p, "load")
    <3>1. ~row[p].refundRef
      BY <2>4 DEF ReleaseHeldPayment, Returns, BackInv, GivenBack
    <3>2. "load" \in Step \ Refunding /\ "load" \notin Charging
      BY EasySteps DEF Charging
    <3>3. Steady(t, p, "load")
      BY <1>1, <1>2, <1>3, <2>1, <2>2, <2>4, <3>1, <3>2, SameFacts DEF Steady
    <3>4. QED
      BY <3>2, <3>3
  <2>5. QED
    BY <1>4, <2>3, <2>4 DEF Release
<1>5. CASE Load(t, p)
  <2>1. UNCHANGED <<row, clock, ps>> /\ pc[t][p] = "load"
    BY <1>5 DEF Load, db, At
  <2>2. CASE Return(t, p)
    <3>1. Steady(t, p, Ended(t))
      BY <1>1, <1>2, <1>3, <2>1, <2>2, SameFacts, EasySteps, MakeSteady
         DEF Return
    <3>2. QED
      BY <3>1, EasySteps DEF Easy
  <2>3. CASE Goto(t, p, "transfer")
    <3>1. ~row[p].refundRef
      BY <1>1, <2>1, OnTheWay DEF Sending
    <3>2. "transfer" \in Step \ Refunding /\ "transfer" \notin Charging
      BY EasySteps DEF Charging
    <3>3. Steady(t, p, "transfer")
      BY <1>1, <1>2, <1>3, <2>1, <2>3, <3>1, <3>2, SameFacts DEF Steady
    <3>4. QED
      BY <3>2, <3>3
  <2>4. QED
    BY <1>5, <2>2, <2>3 DEF Load
<1>6. CASE Transfer(t, p) \/ TransferErrs(t, p)
  BY <1>1, <1>6, SendSteady
<1>7. CASE SaveTransfer(t, p)
  <2>1. UNCHANGED ps /\ SameAges /\ SameRefs /\ StatusOf(p)
    BY <1>7, StatementSteady DEF SaveTransfer
  <2>2. PICK s \in {"debit", "fail"} : Goto(t, p, s)
    BY <1>7 DEF SaveTransfer
  <2>3. s \in Easy
    BY EasySteps
  <2>4. Steady(t, p, s)
    BY <1>1, <1>2, <1>3, <2>1, <2>2, <2>3, SameFacts, MakeSteady
  <2>5. QED
    BY <2>3, <2>4 DEF Easy
<1>8. QED
  BY <1>4, <1>5, <1>6, <1>7 DEF SenderStep

LEMMA BookSteady ==
    ASSUME TypeOK, NEW t \in Thread, NEW p \in Payment, BookStep(t, p)
    PROVE  \E s \in Step : Steady(t, p, s)
<1>1. UNCHANGED <<ps, armed, job, batch>>
  BY DEF BookStep, Debit, Credit, Settle, SettleToken, Fail, FailToken, Reject,
         Close, recon
<1>2. t \in Handlers => Alert(p)
  BY AtWork DEF Off, BookStep, Debit, Credit, Settle, SettleToken, Fail,
                FailToken, Reject, Close, At
<1>3. MarkPaymentSettled(p) \/ MarkPaymentFailed(p) \/ UNCHANGED <<row, clock>>
  BY DEF BookStep, Debit, Credit, Settle, SettleToken, Fail, FailToken, Reject,
         Close
<1>4. SameAges /\ SameRefs /\ StatusOf(p)
  BY <1>3, StatementSteady
<1>5. PICK s \in {"credit", "settle", "settleToken", "fail", "failToken",
                  Ended(t)} : Goto(t, p, s)
  BY DEF BookStep, Debit, Credit, LedgerErrs, Settle, SettleToken, Fail,
         FailToken, Reject, Close, Return
<1>6. s \in Easy
  BY EasySteps
<1>7. Steady(t, p, s)
  BY <1>1, <1>2, <1>4, <1>5, <1>6, SameFacts, MakeSteady
<1>8. QED
  BY <1>6, <1>7 DEF Easy

LEMMA RefundChargeFacts ==
    ASSUME TypeOK, NEW p \in Payment, RefundCharge(p)
    PROVE  \A q \in Payment : /\ ps'[q].sent = ps[q].sent
                              /\ q # p => ps'[q].refunds = ps[q].refunds
<1>1. ps \in [Payment -> Account] /\ ps[p] \in Account
  BY DEF TypeOK
<1>2. ps' = [ps EXCEPT ![p].refunds = ps[p].refunds + 1]
  BY DEF RefundCharge
<1>3. QED
  BY <1>1, <1>2 DEF Account

LEMMA UndoSteady ==
    ASSUME TypeOK, Returns, NEW u \in Undoer, NEW p \in Payment,
           Undo(u, p) \/ UndoStep(u, p)
    PROVE  Undoes(u, p) \/ \E s \in Step : Steady(u, p, s)
<1>1. /\ u \in Thread /\ u \in Handlers /\ u # Request /\ u \notin Hook
      /\ u \notin Server
  BY ThreadFacts, KindsOfThreads, PaymentsAssumption DEF Handlers
<1>2. UNCHANGED <<job, batch>>
  BY DEF Undo, UndoStep, UndoRefund, MarkUndone, Disarm, recon
<1>3. Alert(p)
  <2>1. clock[p].window = "open" \/ pc[u][p] \notin Off
    BY DEF Undo, UndoChecks, UndoStep, UndoRefund, MarkUndone, Disarm, At, Off
  <2>2. QED
    BY <1>1, <2>1 DEF Alert
<1>4. CASE Undo(u, p)
  <2>1. /\ UNCHANGED <<row, clock, ps, armed>> /\ Goto(u, p, "refund")
        /\ row[p].status = "held"
    BY <1>4 DEF Undo, UndoChecks, db
  <2>2. ~row[p].refundRef
    BY <2>1 DEF Returns, BackInv, GivenBack
  <2>3. "refund" \in Step \ Refunding
    BY EasySteps
  <2>4. Steady(u, p, "refund")
    BY <1>1, <1>2, <1>3, <2>1, <2>2, <2>3, SameFacts DEF Steady
  <2>5. QED
    BY <2>3, <2>4
<1>5. CASE UndoRefund(u, p)
  <2>1. /\ UNCHANGED <<row, clock, armed>> /\ pc[u][p] = "refund"
    BY <1>5 DEF UndoRefund, db, At
  <2>2. MoneyOf(p) /\ RefundsOf(u, p)
    <3>1. UNCHANGED ps \/ RefundCharge(p)
      BY <1>5 DEF UndoRefund
    <3>2. CASE RefundCharge(p)
      BY <2>1, <3>2, RefundChargeFacts DEF MoneyOf, RefundsOf
    <3>3. QED
      BY <3>1, <3>2, SameFacts
  <2>3. PICK s \in {"markUndone", Ended(u)} : Goto(u, p, s)
    BY <1>5 DEF UndoRefund, Return
  <2>4. s \in Easy
    BY EasySteps
  <2>5. Steady(u, p, s)
    BY <1>1, <1>2, <1>3, <2>1, <2>2, <2>3, <2>4, SameFacts, MakeSteady
  <2>6. QED
    BY <2>4, <2>5 DEF Easy
<1>6. CASE MarkUndone(u, p)
  <2>1. CASE MarkPaymentRefunded(p) /\ Goto(u, p, "disarm")
    BY <1>2, <1>6, <2>1 DEF MarkUndone, Undoes
  <2>2. CASE Return(u, p) /\ UNCHANGED <<row, clock>>
    <3>1. Steady(u, p, Ended(u))
      BY <1>1, <1>2, <1>3, <1>6, <2>2, SameFacts, EasySteps, MakeSteady
         DEF MarkUndone, Return
    <3>2. QED
      BY <3>1, EasySteps DEF Easy
  <2>3. QED
    BY <1>6, <2>1, <2>2 DEF MarkUndone
<1>7. CASE Disarm(u, p)
  <2>1. /\ UNCHANGED <<row, clock, ps>> /\ armed' \subseteq armed
        /\ Goto(u, p, "failToken")
    BY <1>7 DEF Disarm, db
  <2>2. "failToken" \in Easy
    BY EasySteps
  <2>3. Steady(u, p, "failToken")
    BY <1>1, <1>2, <1>3, <2>1, <2>2, SameFacts, EasySteps DEF Steady, Easy
  <2>4. QED
    BY <2>2, <2>3 DEF Easy
<1>8. QED
  BY <1>4, <1>5, <1>6, <1>7 DEF UndoStep

LEMMA HookSteady ==
    ASSUME TypeOK, RightToSend, NEW h \in Hook, NEW p \in Payment,
           Delivery(h, p) \/ HookStep(h, p)
    PROVE  \E s \in Step : Steady(h, p, s)
<1>1. h \in Thread /\ h \notin Handlers
  BY ThreadFacts, KindsOfThreads
<1>2. UNCHANGED <<ps, armed, job, batch>>
  BY DEF Delivery, ChargeFailedHook, TransferHook, LateHook, HookStep,
         NoteTransfer, CountLedger, recon
<1>3. UpdatePaymentTransfer(p, "settling") \/ UNCHANGED <<row, clock>>
  <2>1. CASE NoteTransfer(h, p)
    <3>1. seen[h] = "settling"
      BY <2>1 DEF NoteTransfer, RightToSend, PaymentInv, NotesAreSettling, Note
    <3>2. QED
      BY <2>1, <3>1 DEF NoteTransfer
  <2>2. CASE Delivery(h, p) \/ CountLedger(h, p)
    BY <2>2 DEF Delivery, ChargeFailedHook, TransferHook, LateHook,
                CountLedger, db
  <2>3. QED
    BY <2>1, <2>2 DEF HookStep
<1>4. SameAges /\ SameRefs /\ StatusOf(p)
  BY <1>3, StatementSteady
<1>5. PICK s \in {"close", "noteSuccess", "noteFailure", "countLedger",
                  "reject", "debit", "settle", Ended(h)} : Goto(h, p, s)
  BY DEF Delivery, ChargeFailedHook, TransferHook, LateHook, HookStep,
         NoteTransfer, CountLedger, Return
<1>6. s \in Easy
  BY EasySteps
<1>7. Steady(h, p, s)
  BY <1>1, <1>2, <1>4, <1>5, <1>6, SameFacts, MakeSteady
<1>8. QED
  BY <1>6, <1>7 DEF Easy

LEMMA VisitSteady ==
    ASSUME TypeOK, NEW v \in Server, NEW p \in Payment,
           ReleaseOne(v, p) \/ ReconcileOne(v, p)
    PROVE  \E s \in Step : Steady(v, p, s)
<1>1. PICK s \in {"release", "verifyTransfer", "verifyCharge", "close", "idle"} :
         Visit(v, p, s)
  <2>1. p \in DOMAIN batch[v] => batch[v][p] \in Leg
    BY DEF TypeOK
  <2>2. QED
    BY <2>1 DEF ReleaseOne, ReconcileOne, Leg
<1>2. /\ Goto(v, p, s) /\ UNCHANGED <<row, clock, ps, armed, job>>
      /\ \A w \in Server : DOMAIN batch'[w] \subseteq DOMAIN batch[w]
  BY <1>1 DEF Visit, TypeOK, db
<1>3. v \in Thread /\ v \notin Handlers /\ v \notin Hook /\ v # Request
  BY ThreadFacts, KindsOfThreads
<1>4. s \in Easy
  BY EasySteps
<1>5. Steady(v, p, s)
  BY <1>2, <1>3, <1>4, SameFacts, EasySteps DEF Steady, Easy
<1>6. QED
  BY <1>4, <1>5 DEF Easy

LEMMA VerifySteady ==
    ASSUME TypeOK, NEW v \in Server, NEW p \in Payment, VerifyStep(v, p)
    PROVE  GaveBack(v, p) \/ \E s \in Step : Steady(v, p, s)
<1>1. v \in Thread /\ v \notin Handlers /\ v \notin Hook /\ v # Request
  BY ThreadFacts, KindsOfThreads
<1>2. UNCHANGED <<armed, job, batch>>
  BY DEF VerifyStep, ReconcileTransfer, ReconcileCharge, Recheck, GiveBack,
         MarkRefunded, recon
<1>3. CASE ReconcileTransfer(v, p) \/ ReconcileCharge(v, p)
  <2>1. UNCHANGED <<row, clock, ps>>
    BY <1>3 DEF ReconcileTransfer, ReconcileCharge, db
  <2>2. PICK s \in {"settle", "reject", "fail", Ended(v)} : Goto(v, p, s)
    BY <1>3 DEF ReconcileTransfer, ReconcileCharge, Return
  <2>3. s \in Easy
    BY EasySteps
  <2>4. Steady(v, p, s)
    BY <1>1, <1>2, <2>1, <2>2, <2>3, SameFacts, MakeSteady
  <2>5. QED
    BY <2>3, <2>4 DEF Easy
<1>4. CASE Recheck(v, p) \/ GiveBack(v, p)
  <2>1. /\ UNCHANGED <<row, clock>> /\ pc[v][p] \in {"recheck", "giveBack"}
    BY <1>4 DEF Recheck, GiveBack, db, At
  <2>2. MoneyOf(p) /\ RefundsOf(v, p)
    <3>1. \/ UNCHANGED ps
          \/ RefundCharge(p) /\ pc[v][p] = "giveBack"
      BY <1>4 DEF Recheck, GiveBack, At
    <3>2. CASE RefundCharge(p) /\ pc[v][p] = "giveBack"
      BY <3>2, RefundChargeFacts DEF MoneyOf, RefundsOf
    <3>3. QED
      BY <3>1, <3>2, SameFacts
  <2>3. PICK s \in {"settle", "giveBack", "markRefunded", Ended(v)} :
           Goto(v, p, s)
    BY <1>4 DEF Recheck, GiveBack, Return
  <2>4. /\ s \in Step /\ pc[v][p] \in Refunding
        /\ s \notin {"load", "transfer", "refund"}
    BY <2>1, EasySteps DEF Refunding, Step, Easy
  <2>5. Steady(v, p, s)
    BY <1>1, <1>2, <2>1, <2>2, <2>3, <2>4, SameFacts DEF Steady
  <2>6. QED
    BY <2>4, <2>5
<1>5. CASE MarkRefunded(v, p)
  <2>1. CASE MarkPaymentAutoRefunded(p) /\ Goto(v, p, "failToken")
    BY <1>2, <1>5, <2>1 DEF MarkRefunded, GaveBack
  <2>2. CASE Return(v, p) /\ UNCHANGED <<row, clock>>
    <3>1. Steady(v, p, Ended(v))
      BY <1>1, <1>2, <1>5, <2>2, SameFacts, EasySteps, MakeSteady
         DEF MarkRefunded, Return
    <3>2. QED
      BY <3>1, EasySteps DEF Easy
  <2>3. QED
    BY <1>5, <2>1, <2>2 DEF MarkRefunded
<1>6. QED
  BY <1>3, <1>4, <1>5 DEF VerifyStep

LEMMA DisconnectSteady ==
    ASSUME TypeOK, NEW t \in Thread, NEW p \in Payment, Disconnect(t, p)
    PROVE  \E s \in Step : Steady(t, p, s)
<1>1. /\ UNCHANGED <<row, clock, ps, armed, job, batch>>
      /\ Goto(t, p, Ended(t)) /\ pc[t][p] \notin Off
  BY DEF Disconnect, db, recon, Return, Off
<1>2. t \in Handlers => Alert(p)
  BY <1>1, AtWork
<1>3. Ended(t) \in Easy
  BY EasySteps
<1>4. Steady(t, p, Ended(t))
  BY <1>1, <1>2, <1>3, SameFacts, MakeSteady
<1>5. QED
  BY <1>3, <1>4 DEF Easy

-----------------------------------------------------------------------------
(* The steps that are not steady keep the invariant as well.               *)

LEMMA RefWritten ==
    ASSUME TypeOK, NEW p \in Payment
    PROVE  /\ MarkPaymentRefunded(p) => row'[p].status = "refunded"
           /\ MarkPaymentAutoRefunded(p) => row'[p].status = "failed"
           /\ MarkPaymentRefunded(p) \/ MarkPaymentAutoRefunded(p) =>
                /\ row'[p].refundRef
                /\ \A q \in Payment : q # p => row'[q] = row[q]
                /\ SameAges
<1>1. row[p] \in Row /\ row \in [Payment -> Row]
      /\ {"refunded", "failed"} \subseteq Status
  BY DEF TypeOK, Status
<1>2. \A s \in Status :
         /\ [row[p] EXCEPT !.refundRef = TRUE, !.status = s].refundRef
         /\ [row[p] EXCEPT !.refundRef = TRUE, !.status = s].status = s
  BY <1>1 DEF Row
<1>3. ASSUME NEW s \in Status,
             WriteRow(p, [row[p] EXCEPT !.refundRef = TRUE, !.status = s])
      PROVE  /\ row'[p].status = s /\ row'[p].refundRef
             /\ \A q \in Payment : q # p => row'[q] = row[q]
             /\ SameAges
  BY <1>1, <1>2, <1>3, ClockKept DEF WriteRow
<1>4. QED
  BY <1>1, <1>3 DEF MarkPaymentRefunded, MarkPaymentAutoRefunded

LEMMA HeldFacts ==
    ASSUME TypeOK, NEW p \in Payment, HoldPayment(p)
    PROVE  /\ row'[p].status = "held" /\ clock'[p].window = "open"
           /\ SameRefs
           /\ \A q \in Payment : clock'[q].aged = clock[q].aged
           /\ \A q \in Payment : q # p => /\ row'[q] = row[q]
                                          /\ clock'[q] = clock[q]
<1>1. /\ row[p] \in Row /\ row \in [Payment -> Row]
      /\ clock[p] \in Age /\ clock \in [Payment -> Age]
  BY DEF TypeOK
<1>2. QED
  BY <1>1 DEF HoldPayment, Row, Age, SameRefs

\* A payment that a step passes by.
LEMMA Untouched ==
    ASSUME NEW q \in Payment, BackInv(q), row'[q] = row[q],
           clock'[q].aged = clock[q].aged,
           clock'[q].window = clock[q].window,
           \A u \in Thread : pc'[u][q] = pc[u][q],
           UNCHANGED <<armed, job, batch>>
    PROVE  BackInv(q)'
<1>1. Alert(q)' => Alert(q)
  BY KindsOfThreads DEF Alert
<1>2. Prompt(q)'
  BY <1>1 DEF BackInv, Prompt
<1>3. HeldOnce(q)'
  BY ThreadFacts DEF BackInv, HeldOnce
<1>4. GivingBack(q)'
  BY ThreadFacts DEF BackInv, GivingBack
<1>5. GivenBack(q)'
  BY ThreadFacts DEF BackInv, GivenBack, Sending
<1>6. QED
  BY <1>2, <1>3, <1>4, <1>5 DEF BackInv

LEMMA HoldsKeepsInv ==
    ASSUME TypeOK, RightToSend, Returns, NEW p \in Payment, Holds(p)
    PROVE  Returns'
<1>1. \A u \in Thread, r \in Payment :
         pc'[u][r] = IF u = Request /\ r = p THEN "arm" ELSE pc[u][r]
  BY GotoFacts, ThreadFacts DEF Holds, Step
<1>2. /\ row'[p].status = "held" /\ clock'[p].window = "open"
      /\ row'[p].refundRef = row[p].refundRef
      /\ clock'[p].aged = clock[p].aged
      /\ \A q \in Payment : q # p => row'[q] = row[q] /\ clock'[q] = clock[q]
  BY HeldFacts DEF Holds, SameRefs
<1>3. UNCHANGED <<armed, job, batch>> /\ pc[Request][p] = "hold"
  BY DEF Holds, At
<1>4. Alert(p)
  BY <1>3, AtWork, KindsOfThreads DEF Off, Handlers
<1>5. ~row[p].refundRef
  BY <1>3, OnTheWay, ThreadFacts DEF Sending
<1>6. BackInv(p)
  BY DEF Returns
<1>7. BackInv(p)'
  <2>1. Prompt(p)'
    BY <1>2, <1>4, <1>6 DEF BackInv, Prompt
  <2>2. HeldOnce(p)'
    BY <1>1, <1>2, ThreadFacts DEF HeldOnce, Charging
  <2>3. GivingBack(p)'
    BY <1>1, <1>2, <1>3, <1>6, ThreadFacts, KindsOfThreads
       DEF BackInv, GivingBack
  <2>4. \A h \in Hook : ~Sending(h, p)'
    BY <1>1, <1>6, ThreadFacts, KindsOfThreads
       DEF BackInv, GivenBack, Sending
  <2>5. QED
    BY <1>2, <1>5, <2>1, <2>2, <2>3, <2>4 DEF BackInv, GivenBack
<1>8. ASSUME NEW q \in Payment, q # p
      PROVE  BackInv(q)'
  <2>1. BackInv(q) /\ row'[q] = row[q] /\ clock'[q] = clock[q]
        /\ \A u \in Thread : pc'[u][q] = pc[u][q]
    BY <1>1, <1>2, <1>8 DEF Returns
  <2>2. QED
    BY <1>3, <2>1, Untouched
<1>9. QED
  BY <1>7, <1>8 DEF Returns

\* The undo finds the payment held, when no reconciler refunds it yet.
LEMMA UndoesKeepsInv ==
    ASSUME TypeOK, RightToSend, Returns, NEW u \in Undoer, NEW p \in Payment,
           Undoes(u, p)
    PROVE  Returns'
<1>1. \A w \in Thread, r \in Payment :
         pc'[w][r] = IF w = u /\ r = p THEN "disarm" ELSE pc[w][r]
  BY GotoFacts, ThreadFacts DEF Undoes, Step
<1>2. /\ row'[p].status = "refunded" /\ row'[p].refundRef
      /\ \A q \in Payment : q # p => row'[q] = row[q]
      /\ \A q \in Payment : /\ clock'[q].aged = clock[q].aged
                            /\ clock'[q].window = clock[q].window
  BY RefWritten DEF Undoes, SameAges
<1>3. /\ UNCHANGED <<armed, job, batch>> /\ pc[u][p] = "markUndone"
      /\ row[p].status = "held"
  BY DEF Undoes, At, MarkPaymentRefunded
<1>4. Alert(p) /\ BackInv(p)
  BY <1>3, AtWork, KindsOfThreads DEF Off, Handlers, Returns
<1>5. ~clock[p].aged
  BY <1>4 DEF BackInv, Prompt
<1>6. u \in Thread /\ u # Request /\ u \notin Hook /\ u \notin Server
  BY ThreadFacts, KindsOfThreads, PaymentsAssumption
<1>7. \A t \in Thread : ~Sending(t, p)
  BY <1>3 DEF RightToSend, PaymentInv, SendersAreAlone
<1>8. BackInv(p)'
  <2>1. Prompt(p)'
    BY <1>2, <1>5 DEF Prompt
  <2>2. HeldOnce(p)'
    BY <1>1, <1>2, <1>3, <1>4, <1>6, <1>7, ThreadFacts
       DEF BackInv, HeldOnce, Charging, Sending
  <2>3. GivingBack(p)'
    BY <1>1, <1>2, <1>3, <1>4, <1>5, <1>6, ThreadFacts
       DEF BackInv, GivingBack
  <2>4. \A t \in Thread : ~Sending(t, p)'
    BY <1>1, <1>6, <1>7 DEF Sending
  <2>5. QED
    BY <1>2, <2>1, <2>2, <2>3, <2>4, ThreadFacts DEF BackInv, GivenBack
<1>9. ASSUME NEW q \in Payment, q # p
      PROVE  BackInv(q)'
  <2>1. BackInv(q) /\ row'[q] = row[q]
        /\ \A w \in Thread : pc'[w][q] = pc[w][q]
    BY <1>1, <1>2, <1>9 DEF Returns
  <2>2. QED
    BY <1>2, <1>3, <2>1, Untouched
<1>10. QED
  BY <1>8, <1>9 DEF Returns

\* The reconciler refunds a payment that is a day old: every handler is
\* done with it, and no other server has a reconciler to refund it again.
LEMMA GaveBackKeepsInv ==
    ASSUME OneServer, TypeOK, Returns, NEW v \in Server, NEW p \in Payment,
           GaveBack(v, p)
    PROVE  Returns'
<1>1. \A w \in Thread, r \in Payment :
         pc'[w][r] = IF w = v /\ r = p THEN "failToken" ELSE pc[w][r]
  BY GotoFacts, ThreadFacts DEF GaveBack, Step
<1>2. /\ row'[p].status = "failed" /\ row'[p].refundRef
      /\ \A q \in Payment : q # p => row'[q] = row[q]
      /\ \A q \in Payment : /\ clock'[q].aged = clock[q].aged
                            /\ clock'[q].window = clock[q].window
  BY RefWritten DEF GaveBack, SameAges
<1>3. UNCHANGED <<armed, job, batch>> /\ pc[v][p] \in Refunding
  BY DEF GaveBack, At, Refunding
<1>4. BackInv(p) /\ clock[p].aged /\ p \notin DOMAIN batch[v]
  BY <1>3 DEF Returns, BackInv, GivingBack
<1>5. ~Alert(p)
  BY <1>4 DEF BackInv, Prompt
<1>6. v \in Thread /\ v \notin Handlers /\ v # Request /\ v \notin Hook
  BY ThreadFacts, KindsOfThreads
<1>7. \A w \in Server : w = v
  BY DEF OneServer
<1>8. \A t \in Handlers : t \in Thread /\ pc[t][p] \in Off
  BY <1>5, KindsOfThreads DEF Alert
<1>9. BackInv(p)'
  <2>1. ~Alert(p)'
    BY <1>1, <1>2, <1>3, <1>5, <1>6, <1>8 DEF Alert
  <2>2. HeldOnce(p)'
    <3>1. pc[Request][p] \in Off
      BY <1>8, KindsOfThreads DEF Handlers
    <3>2. QED
      BY <1>1, <1>2, <1>6, <3>1, ThreadFacts DEF HeldOnce, Off, Charging
  <2>3. GivingBack(p)'
    <3>1. pc'[v][p] \notin Refunding /\ p \notin DOMAIN batch'[v]
      BY <1>1, <1>3, <1>4, <1>6 DEF Refunding
    <3>2. QED
      BY <1>7, <3>1 DEF GivingBack
  <2>4. ASSUME NEW t \in Thread
        PROVE  ~Sending(t, p)'
    <3>1. CASE t = v
      BY <1>1, <1>6, <3>1 DEF Sending
    <3>2. CASE t \in Handlers
      BY <1>1, <1>6, <1>8, <3>2 DEF Sending, Off
    <3>3. CASE t \in Hook
      BY <1>1, <1>4, <1>6, <2>4, <3>3 DEF BackInv, GivenBack, Sending
    <3>4. QED
      BY <1>7, <3>1, <3>2, <3>3 DEF Thread, Sender, Handlers
  <2>5. QED
    BY <1>2, <2>1, <2>2, <2>3, <2>4, ThreadFacts
       DEF BackInv, Prompt, GivenBack
<1>10. ASSUME NEW q \in Payment, q # p
      PROVE  BackInv(q)'
  <2>1. BackInv(q) /\ row'[q] = row[q]
        /\ \A w \in Thread : pc'[w][q] = pc[w][q]
    BY <1>1, <1>2, <1>10 DEF Returns
  <2>2. QED
    BY <1>2, <1>3, <2>1, Untouched
<1>11. QED
  BY <1>9, <1>10 DEF Returns

LEMMA AutoRefundKeepsInv ==
    ASSUME TypeOK, Returns, NEW v \in Server, NEW p \in Payment,
           AutoRefundOne(v, p)
    PROVE  Returns'
<1>1. PICK s \in {"recheck", "giveBack"} : Visit(v, p, s)
  BY DEF AutoRefundOne
<1>2. \A w \in Thread, r \in Payment :
         pc'[w][r] = IF w = v /\ r = p THEN s ELSE pc[w][r]
  BY <1>1, GotoFacts, ThreadFacts DEF Visit, Step
<1>3. /\ UNCHANGED <<row, clock, armed, job>>
      /\ job[v] = "autoRefund" /\ p \in DOMAIN batch[v]
  BY <1>1 DEF Visit, AutoRefundOne, db
<1>4. /\ \A w \in Server : DOMAIN batch'[w] \subseteq DOMAIN batch[w]
      /\ p \notin DOMAIN batch'[v]
  BY <1>1 DEF Visit, TypeOK
<1>5. v \in Thread /\ v \notin Handlers /\ v # Request /\ v \notin Hook
  BY ThreadFacts, KindsOfThreads
<1> SUFFICES ASSUME NEW q \in Payment PROVE BackInv(q)'
  BY DEF Returns
<1>6. BackInv(q) /\ BackInv(p)
  BY DEF Returns
<1>7. Alert(q)' => Alert(q)
  BY <1>2, <1>3, <1>5, KindsOfThreads DEF Alert
<1>8. HeldOnce(q)'
  BY <1>2, <1>3, <1>5, <1>6, ThreadFacts DEF BackInv, HeldOnce
<1>9. GivingBack(q)'
  <2> SUFFICES ASSUME NEW w \in Server
               PROVE  /\ pc'[w][q] \in Refunding =>
                            job'[w] = "autoRefund" /\ q \notin DOMAIN batch'[w]
                      /\ \/ pc'[w][q] \in Refunding
                         \/ job'[w] = "autoRefund" /\ q \in DOMAIN batch'[w]
                         => clock'[q].aged /\ ~row'[q].refundRef
    BY DEF GivingBack
  <2>1. CASE w = v /\ q = p
    <3>1. clock[p].aged /\ ~row[p].refundRef
      BY <1>3, <1>6 DEF BackInv, GivingBack
    <3>2. QED
      BY <1>3, <1>4, <2>1, <3>1
  <2>2. CASE ~ (w = v /\ q = p)
    <3>1. pc'[w][q] = pc[w][q]
      BY <1>2, <2>2, ThreadFacts
    <3>2. QED
      BY <1>3, <1>4, <1>6, <3>1 DEF BackInv, GivingBack
  <2>3. QED
    BY <2>1, <2>2
<1>10. GivenBack(q)'
  <2>1. \A t \in Thread : Sending(t, q)' => Sending(t, q)
    BY <1>2, <1>5 DEF Sending
  <2>2. QED
    BY <1>3, <1>6, <2>1, ThreadFacts DEF BackInv, GivenBack
<1>11. QED
  BY <1>3, <1>6, <1>7, <1>8, <1>9, <1>10 DEF BackInv, Prompt

\* A listing never names, for a refund, a payment that was refunded.
LEMMA ListingKeepsInv ==
    ASSUME TypeOK, Returns, NEW v \in Server,
           \/ ReleaseDueHolds(v) \/ Sweep(v)
           \/ AttemptAutoRefunds(v) \/ BatchDone(v)
    PROVE  Returns'
<1>1. UNCHANGED <<row, clock, pc, armed>>
  BY DEF ReleaseDueHolds, Sweep, AttemptAutoRefunds, BatchDone, db
<1>2. \A w \in Server : w # v => job'[w] = job[w] /\ batch'[w] = batch[w]
  BY DEF ReleaseDueHolds, Sweep, AttemptAutoRefunds, BatchDone, Listing, TypeOK
<1>3. job[v] \in {"idle", "stuck"} \/ Resting(v)
  BY DEF ReleaseDueHolds, Sweep, AttemptAutoRefunds, BatchDone
<1>4. \A q \in Payment : pc[v][q] \notin Refunding
  BY <1>3 DEF Resting, At, Refunding, Returns, BackInv, GivingBack
<1>5. \A q \in Payment :
         job'[v] = "autoRefund" /\ q \in DOMAIN batch'[v] =>
             clock[q].aged /\ ~row[q].refundRef
  <2>1. CASE AttemptAutoRefunds(v)
    <3>1. DOMAIN batch'[v] = PaymentsForAutoRefund
      BY <2>1 DEF AttemptAutoRefunds, Listing, TypeOK
    <3>2. QED
      BY <3>1 DEF PaymentsForAutoRefund
  <2>2. CASE ReleaseDueHolds(v) \/ Sweep(v) \/ BatchDone(v)
    BY <2>2 DEF ReleaseDueHolds, Sweep, BatchDone, TypeOK
  <2>3. QED
    BY <2>1, <2>2
<1> SUFFICES ASSUME NEW q \in Payment PROVE BackInv(q)'
  BY DEF Returns
<1>6. BackInv(q)
  BY DEF Returns
<1>7. GivingBack(q)'
  BY <1>1, <1>2, <1>4, <1>5, <1>6 DEF BackInv, GivingBack
<1>8. QED
  BY <1>1, <1>6, <1>7
     DEF BackInv, Prompt, Alert, HeldOnce, GivenBack, Sending

LEMMA CrashKeepsInv ==
    ASSUME TypeOK, Returns, NEW v \in Server, Crash(v)
    PROVE  Returns'
<1>1. UNCHANGED <<row, clock, ps>> /\ armed' \subseteq armed
  BY DEF Crash, db
<1>2. \A t \in Thread, q \in Payment : pc'[t][q] \in {pc[t][q]} \cup Off
  BY DEF Crash, Ended, Off
<1>3. \A w \in Server : w # v => job'[w] = job[w] /\ batch'[w] = batch[w]
  BY DEF Crash, TypeOK
<1>4. job'[v] = "idle"
  BY DEF Crash, TypeOK
<1>5. \A q \in Payment : pc'[v][q] \in Off
  BY ThreadFacts DEF Crash, HostOf, At, Ended, Off
<1>6. Off \cap (Refunding \cup Charging \cup {"load", "transfer"}) = {}
  BY DEF Off, Refunding, Charging
<1> SUFFICES ASSUME NEW q \in Payment PROVE BackInv(q)'
  BY DEF Returns
<1>7. BackInv(q)
  BY DEF Returns
<1>8. Alert(q)' => Alert(q)
  BY <1>1, <1>2, KindsOfThreads DEF Alert
<1>9. HeldOnce(q)'
  BY <1>1, <1>2, <1>6, <1>7, ThreadFacts DEF BackInv, HeldOnce
<1>10. GivingBack(q)'
  BY <1>1, <1>2, <1>3, <1>4, <1>5, <1>6, <1>7, ThreadFacts
     DEF BackInv, GivingBack
<1>11. \A t \in Thread : Sending(t, q)' => Sending(t, q)
  BY <1>2, <1>6 DEF Sending, Charging
<1>12. GivenBack(q)'
  BY <1>1, <1>7, <1>11, ThreadFacts DEF BackInv, GivenBack
<1>13. QED
  BY <1>1, <1>7, <1>8, <1>9, <1>10, <1>12 DEF BackInv, Prompt

\* A payment gets a day old only when no handler is left that works on it.
LEMMA ClockKeepsInv ==
    ASSUME OneServer, TypeOK, Returns, NEW p \in Payment, ClockStep(p)
    PROVE  Returns'
<1>1. UNCHANGED <<row, pc, armed, job, batch>>
  BY DEF ClockStep, WindowCloses, TimePasses, db, recon
<1>2. clock \in [Payment -> Age] /\ clock[p] \in Age
  BY DEF TypeOK
<1>3. \A q \in Payment : q # p => clock'[q] = clock[q]
  BY <1>2 DEF ClockStep, WindowCloses, TimePasses
<1>4. CASE WindowCloses(p)
  <2>1. /\ clock'[p].aged = clock[p].aged /\ clock'[p].window = "over"
        /\ clock[p].window = "open"
    BY <1>2, <1>4 DEF WindowCloses, Age
  <2> SUFFICES ASSUME NEW q \in Payment PROVE BackInv(q)'
    BY DEF Returns
  <2>2. BackInv(q)
    BY DEF Returns
  <2>3. \/ clock'[q] = clock[q]
        \/ /\ clock'[q].aged = clock[q].aged /\ clock'[q].window = "over"
           /\ clock[q].window = "open"
    BY <1>3, <2>1
  <2>4. Prompt(q)'
    BY <1>1, <2>2, <2>3 DEF BackInv, Prompt, Alert
  <2>5. HeldOnce(q)'
    BY <1>1, <2>2, <2>3 DEF BackInv, HeldOnce
  <2>6. GivingBack(q)' /\ GivenBack(q)'
    BY <1>1, <2>2, <2>3 DEF BackInv, GivingBack, GivenBack, Sending
  <2>7. QED
    BY <2>4, <2>5, <2>6 DEF BackInv
<1>5. CASE TimePasses(p)
  <2>1. clock'[p].window = clock[p].window /\ (clock[p].aged => clock'[p].aged)
    BY <1>2, <1>5 DEF TimePasses, Age
  <2>2. HandlersAreIdle(p)
    BY <1>5 DEF TimePasses, OneServer
  <2>3. ~Alert(p)
    BY <1>5, <2>2, KindsOfThreads
       DEF TimePasses, HandlersAreIdle, Alert, Off
  <2>4. ~Alert(p)'
    BY <1>1, <2>1, <2>3 DEF Alert
  <2> SUFFICES ASSUME NEW q \in Payment PROVE BackInv(q)'
    BY DEF Returns
  <2>5. BackInv(q)
    BY DEF Returns
  <2>6. clock'[q].window = clock[q].window /\ (clock[q].aged => clock'[q].aged)
    BY <1>3, <2>1
  <2>7. Prompt(q)'
    BY <1>1, <1>3, <2>4, <2>5 DEF BackInv, Prompt, Alert
  <2>8. HeldOnce(q)' /\ GivingBack(q)' /\ GivenBack(q)'
    BY <1>1, <2>5, <2>6 DEF BackInv, HeldOnce, GivingBack, GivenBack, Sending
  <2>9. QED
    BY <2>7, <2>8 DEF BackInv
<1>6. QED
  BY <1>4, <1>5 DEF ClockStep

LEMMA StillKeepsInv ==
    ASSUME Returns, UNCHANGED <<row, clock, pc, armed, job, batch>>
    PROVE  Returns'
BY DEF Returns, BackInv, Prompt, Alert, HeldOnce, GivingBack, GivenBack,
       Sending

-----------------------------------------------------------------------------
(* The invariant.                                                          *)

\* Each step is steady or one of the following.
LEMMA BackShapes ==
    ASSUME TypeOK, RightToSend, Returns, [Next]_vars
    PROVE  \/ \E t \in Thread, p \in Payment, s \in Step : Steady(t, p, s)
           \/ \E p \in Payment : Holds(p)
           \/ \E u \in Undoer, p \in Payment : Undoes(u, p)
           \/ \E v \in Server, p \in Payment : GaveBack(v, p)
           \/ \E v \in Server, p \in Payment : AutoRefundOne(v, p)
           \/ \E v \in Server : \/ ReleaseDueHolds(v) \/ Sweep(v)
                               \/ AttemptAutoRefunds(v) \/ BatchDone(v)
           \/ \E v \in Server : Crash(v)
           \/ \E p \in Payment : ClockStep(p)
           \/ \E p \in Payment : PaystackStep(p)
           \/ UNCHANGED vars
<1>1. {"charge", "release"} \subseteq Step
  BY DEF Step
<1>2. QED
  BY <1>1, ThreadFacts, CreateSteady, RequestSteady, TimerSteady, SenderSteady,
     BookSteady, UndoSteady, HookSteady, VisitSteady, VerifySteady,
     DisconnectSteady DEF Next, VisitStep

LEMMA ReturnsInit == Init => Returns
<1> SUFFICES ASSUME Init, NEW p \in Payment PROVE BackInv(p)
  BY DEF Returns
<1>1. /\ \A t \in Thread : pc[t][p] = "idle"
      /\ row[p].status = "none" /\ ~row[p].refundRef
      /\ clock[p].window = "unset" /\ ~clock[p].aged
      /\ \A v \in Server : job[v] = "idle"
  BY DEF Init
<1>2. QED
  BY <1>1, ThreadFacts, KindsOfThreads
     DEF BackInv, Prompt, HeldOnce, GivingBack, GivenBack, Sending, Refunding,
         Charging

LEMMA ReturnsStep ==
    ASSUME OneServer, TypeOK, RightToSend, Returns, [Next]_vars
    PROVE  Returns'
<1>1. ASSUME \/ \E p \in Payment : PaystackStep(p)
             \/ UNCHANGED vars
      PROVE  Returns'
  BY <1>1, StillKeepsInv
     DEF PaystackStep, ChargeResolves, TransferResolves,
         ChargeTurns, TransferReverses, vars, db, recon
<1>2. QED
  BY <1>1, BackShapes, SteadyKeepsInv, HoldsKeepsInv, UndoesKeepsInv,
     GaveBackKeepsInv, AutoRefundKeepsInv, ListingKeepsInv, CrashKeepsInv,
     ClockKeepsInv

LEMMA ReturnsHold ==
    ASSUME OneServer
    PROVE  Spec => []Returns
<1>1. TypeOK /\ RightToSend /\ Returns /\ [Next]_vars => Returns'
  BY ReturnsStep
<1>2. QED
  BY <1>1, ReturnsInit, TypeCorrect, SenderIsAlone, PTL DEF Spec

-----------------------------------------------------------------------------
(* What a step does to the abstract state of a payment.                    *)

EscrowMoves ==
    {<<"open", "held">>, <<"held", "lapsed">>, <<"open", "sent">>,
     <<"lapsed", "sent">>, <<"open", "returned">>, <<"held", "returned">>,
     <<"lapsed", "returned">>}

\* The abstract state of p makes a move, or stays, and no other does.
Moves(p) ==
    /\ \A q \in Payment : q # p => EscrowOf(q)' = EscrowOf(q)
    /\ \/ EscrowOf(p)' = EscrowOf(p)
       \/ <<EscrowOf(p), EscrowOf(p)'>> \in EscrowMoves

Escrows == [p \in Payment |-> EscrowOf(p)]

LEMMA MovesAreSteps ==
    ASSUME NEW p \in Payment, Moves(p)
    PROVE  [Abstract!Next]_Escrows
<1> DEFINE next == EscrowOf(p)'
<1>1. Escrows' = [Escrows EXCEPT ![p] = next]
  BY DEF Moves, Escrows
<1>2. Escrows[p] = EscrowOf(p)
  BY DEF Escrows
<1>3. CASE next = EscrowOf(p)
  BY <1>1, <1>2, <1>3 DEF Escrows
<1>4. CASE <<EscrowOf(p), next>> \in EscrowMoves
  <2> HIDE DEF next
  <2>1. \/ EscrowOf(p) = "open" /\ next = "held"
        \/ EscrowOf(p) = "held" /\ next = "lapsed"
        \/ EscrowOf(p) \in {"open", "lapsed"} /\ next = "sent"
        \/ EscrowOf(p) \in {"open", "held", "lapsed"} /\ next = "returned"
    BY <1>4 DEF EscrowMoves
  <2>2. \/ Abstract!Hold(p) \/ Abstract!Lapse(p) \/ Abstract!Send(p)
        \/ Abstract!GiveBack(p)
    BY <1>1, <1>2, <2>1
       DEF Abstract!Hold, Abstract!Lapse, Abstract!Send, Abstract!GiveBack,
           Abstract!Move, Escrows
  <2>3. QED
    BY <2>2 DEF Abstract!Next, Escrows
<1>5. QED
  BY <1>3, <1>4 DEF Moves

\* The abstract state depends on four things.
LEMMA SameEscrow ==
    ASSUME NEW q, ps'[q].sent = ps[q].sent,
           row'[q].refundRef = row[q].refundRef,
           row'[q].status = "held" <=> row[q].status = "held",
           clock'[q].window = "unset" <=> clock[q].window = "unset"
    PROVE  EscrowOf(q)' = EscrowOf(q)
BY DEF EscrowOf

LEMMA SteadyMoves ==
    ASSUME TypeOK, Returns, NEW t, NEW p \in Payment, NEW s, Steady(t, p, s)
    PROVE  Moves(p)
<1>1. SameAges /\ SameRefs /\ StatusOf(p) /\ MoneyOf(p)
  BY DEF Steady
<1>2. ASSUME NEW q \in Payment, q # p
      PROVE  EscrowOf(q)' = EscrowOf(q)
  BY <1>1, <1>2, SameEscrow DEF SameAges, SameRefs, StatusOf, MoneyOf
<1>3. HeldOnce(p)
  BY DEF Returns, BackInv
<1>4. CASE ps'[p].sent = ps[p].sent /\ row'[p].status = row[p].status
  BY <1>1, <1>2, <1>4, SameEscrow DEF SameAges, SameRefs, Moves
<1>5. CASE ps'[p].sent = ps[p].sent /\ row'[p].status # "held"
  <2>1. \/ EscrowOf(p)' = EscrowOf(p)
        \/ EscrowOf(p) = "held" /\ EscrowOf(p)' = "lapsed"
    BY <1>1, <1>3, <1>5 DEF SameAges, SameRefs, HeldOnce, EscrowOf
  <2>2. QED
    BY <1>2, <2>1 DEF Moves, EscrowMoves
<1>6. CASE /\ ps[p].sent = 0 /\ ps'[p].sent = 1
           /\ ~row[p].refundRef /\ row[p].status # "held"
  <2>1. EscrowOf(p) \in {"open", "lapsed"} /\ EscrowOf(p)' = "sent"
    BY <1>6 DEF EscrowOf
  <2>2. QED
    BY <1>2, <2>1 DEF Moves, EscrowMoves
<1>7. QED
  BY <1>1, <1>4, <1>5, <1>6 DEF StatusOf, MoneyOf

LEMMA HoldsMoves ==
    ASSUME TypeOK, RightToSend, Returns, NEW p \in Payment, Holds(p)
    PROVE  Moves(p)
<1>1. /\ row'[p].status = "held" /\ clock'[p].window = "open"
      /\ row'[p].refundRef = row[p].refundRef
      /\ \A q \in Payment : q # p => row'[q] = row[q] /\ clock'[q] = clock[q]
  BY HeldFacts DEF Holds, SameRefs
<1>2. pc[Request][p] = "hold" /\ UNCHANGED ps
  BY DEF Holds, At
<1>3. ps[p].sent = 0 /\ row[p].status # "held"
  BY <1>2, ThreadFacts DEF RightToSend, PaymentInv, SendersAreAlone, Sending
<1>4. ~row[p].refundRef /\ clock[p].window = "unset"
  BY <1>2, OnTheWay, ThreadFacts
     DEF Sending, Returns, BackInv, HeldOnce, Charging
<1>5. EscrowOf(p) = "open" /\ EscrowOf(p)' = "held"
  BY <1>1, <1>2, <1>3, <1>4 DEF EscrowOf
<1>6. \A q \in Payment : q # p => EscrowOf(q)' = EscrowOf(q)
  BY <1>1, <1>2 DEF EscrowOf
<1>7. QED
  BY <1>5, <1>6 DEF Moves, EscrowMoves

LEMMA UndoesMoves ==
    ASSUME TypeOK, RightToSend, Returns, NEW u, NEW p \in Payment,
           Undoes(u, p)
    PROVE  Moves(p)
<1>1. /\ row'[p].refundRef /\ row[p].status = "held" /\ UNCHANGED ps
      /\ \A q \in Payment : q # p => row'[q] = row[q]
      /\ \A q \in Payment : clock'[q].window = clock[q].window
  BY RefWritten DEF Undoes, SameAges, MarkPaymentRefunded
<1>2. ps[p].sent = 0 /\ ~row[p].refundRef
  BY <1>1 DEF RightToSend, PaymentInv, Returns, BackInv, GivenBack
<1>3. EscrowOf(p) = "held" /\ EscrowOf(p)' = "returned"
  BY <1>1, <1>2 DEF EscrowOf
<1>4. \A q \in Payment : q # p => EscrowOf(q)' = EscrowOf(q)
  BY <1>1 DEF EscrowOf
<1>5. QED
  BY <1>3, <1>4 DEF Moves, EscrowMoves

LEMMA GaveBackMoves ==
    ASSUME TypeOK, Returns, NEW v \in Server, NEW p \in Payment,
           GaveBack(v, p)
    PROVE  Moves(p)
<1>1. /\ row'[p].refundRef /\ UNCHANGED ps /\ pc[v][p] \in Refunding
      /\ \A q \in Payment : q # p => row'[q] = row[q]
      /\ \A q \in Payment : clock'[q].window = clock[q].window
  BY RefWritten DEF GaveBack, SameAges, At, Refunding
<1>2. ~row[p].refundRef
  BY <1>1 DEF Returns, BackInv, GivingBack
<1>3. \/ EscrowOf(p) = "sent" /\ EscrowOf(p)' = "sent"
      \/ EscrowOf(p) \in {"held", "lapsed", "open"} /\ EscrowOf(p)' = "returned"
  BY <1>1, <1>2 DEF EscrowOf
<1>4. \A q \in Payment : q # p => EscrowOf(q)' = EscrowOf(q)
  BY <1>1 DEF EscrowOf
<1>5. QED
  BY <1>3, <1>4 DEF Moves, EscrowMoves

\* The steps that move no money and write no row.
LEMMA OthersStay ==
    ASSUME TypeOK,
           \/ \E v \in Server, p \in Payment : AutoRefundOne(v, p)
           \/ \E v \in Server : \/ ReleaseDueHolds(v) \/ Sweep(v)
                               \/ AttemptAutoRefunds(v) \/ BatchDone(v)
           \/ \E v \in Server : Crash(v)
           \/ \E p \in Payment : ClockStep(p) \/ PaystackStep(p)
           \/ UNCHANGED vars
    PROVE  /\ UNCHANGED <<row, ledger>>
           /\ \A q \in Payment :
                 /\ ps'[q].sent = ps[q].sent /\ ps'[q].refunds = ps[q].refunds
                 /\ clock'[q].window = "unset" <=> clock[q].window = "unset"
<1>1. CASE \/ \E v \in Server, p \in Payment : AutoRefundOne(v, p)
           \/ \E v \in Server : \/ ReleaseDueHolds(v) \/ Sweep(v)
                               \/ AttemptAutoRefunds(v) \/ BatchDone(v)
           \/ \E v \in Server : Crash(v)
           \/ UNCHANGED vars
  BY <1>1 DEF AutoRefundOne, Visit, ReleaseDueHolds, Sweep,
              AttemptAutoRefunds, BatchDone, Crash, vars, db
<1>2. ASSUME NEW p \in Payment, PaystackStep(p)
      PROVE  /\ UNCHANGED <<row, ledger, clock>>
             /\ \A q \in Payment : /\ ps'[q].sent = ps[q].sent
                                   /\ ps'[q].refunds = ps[q].refunds
  <2>1. \E v : \/ ps' = [ps EXCEPT ![p].charge = v]
               \/ ps' = [ps EXCEPT ![p].transfer = v]
    BY <1>2 DEF PaystackStep, ChargeResolves, TransferResolves,
                ChargeTurns, TransferReverses
  <2>2. QED
    BY <1>2, <2>1, VerdictFacts
       DEF PaystackStep, ChargeResolves, TransferResolves,
           ChargeTurns, TransferReverses, db
<1>3. ASSUME NEW p \in Payment, ClockStep(p)
      PROVE  /\ UNCHANGED <<row, ledger, ps>>
             /\ \A q \in Payment :
                   clock'[q].window = "unset" <=> clock[q].window = "unset"
  <2>1. clock \in [Payment -> Age] /\ clock[p] \in Age
    BY DEF TypeOK
  <2>2. QED
    BY <1>3, <2>1 DEF ClockStep, WindowCloses, TimePasses, Age, db
<1>4. QED
  BY <1>1, <1>2, <1>3

LEMMA EscrowStep ==
    ASSUME TypeOK, RightToSend, Returns, [Next]_vars
    PROVE  [Abstract!Next]_Escrows
<1>1. CASE \E p \in Payment : Moves(p)
  BY <1>1, MovesAreSteps
<1>2. CASE \A q \in Payment : EscrowOf(q)' = EscrowOf(q)
  BY <1>2 DEF Escrows
<1>3. QED
  BY <1>1, <1>2, BackShapes, SteadyMoves, HoldsMoves, UndoesMoves,
     GaveBackMoves, OthersStay, SameEscrow

\* Payments implements Escrow: no payment is sent after its row says that
\* the money went back, nor held twice.  For one server, whose handlers are
\* done within the day, and for any number of payments, undo requests,
\* webhooks, crashes and faults.
THEOREM EscrowIsKept ==
    ASSUME OneServer
    PROVE  Spec => ImplementsEscrow
<1>1. Init => Abstract!Init
  BY DEF Init, Abstract!Init, EscrowOf
<1>2. TypeOK /\ RightToSend /\ Returns /\ [Next]_vars =>
        [Abstract!Next]_([p \in Payment |-> EscrowOf(p)])
  BY EscrowStep DEF Escrows
<1>3. QED
  BY <1>1, <1>2, ReturnsHold, TypeCorrect, SenderIsAlone, PTL
     DEF Spec, ImplementsEscrow, Abstract!Spec

-----------------------------------------------------------------------------
(* Refunds are final.                                                      *)

\* An undo about to ask for a refund works on a payment not given back.
UndoInv == \A u \in Undoer, p \in Payment :
              pc[u][p] = "refund" => ~row[p].refundRef

LEMMA UndoInvStep ==
    ASSUME OneServer, OneUndo, TypeOK, RightToSend, Returns, UndoInv,
           [Next]_vars
    PROVE  UndoInv'
<1> SUFFICES ASSUME NEW u \in Undoer, NEW q \in Payment,
                    pc'[u][q] = "refund", row'[q].refundRef
             PROVE  FALSE
  BY DEF UndoInv
<1>1. /\ u \in Thread /\ u \in Handlers /\ u \notin Server /\ u # Request
  BY ThreadFacts, KindsOfThreads DEF Handlers
<1>2. ASSUME NEW t \in Thread, NEW p \in Payment, NEW s \in Step,
             Steady(t, p, s)
      PROVE  FALSE
  <2>1. row[q].refundRef
    BY <1>2 DEF Steady, SameRefs
  <2>2. pc'[u][q] = IF u = t /\ q = p THEN s ELSE pc[u][q]
    BY <1>1, <1>2, GotoFacts DEF Steady
  <2>3. QED
    BY <1>2, <2>1, <2>2 DEF Steady, UndoInv
<1>3. ASSUME NEW p \in Payment, Holds(p)
      PROVE  FALSE
  <2>1. row'[q].refundRef = row[q].refundRef
    BY <1>3, HeldFacts DEF Holds, SameRefs
  <2>2. pc'[u][q] = pc[u][q]
    BY <1>1, <1>3, GotoFacts, ThreadFacts DEF Holds, Step
  <2>3. QED
    BY <2>1, <2>2 DEF UndoInv
<1>4. ASSUME NEW w \in Undoer, NEW p \in Payment, Undoes(w, p)
      PROVE  FALSE
  <2>1. pc'[u][q] = IF q = p THEN "disarm" ELSE pc[u][q]
    BY <1>1, <1>4, GotoFacts DEF Undoes, Step, OneUndo
  <2>2. q # p => row'[q] = row[q]
    BY <1>4, RefWritten DEF Undoes
  <2>3. QED
    BY <2>1, <2>2 DEF UndoInv
<1>5. ASSUME NEW v \in Server, NEW p \in Payment, GaveBack(v, p)
      PROVE  FALSE
  <2>1. q # p => row'[q] = row[q]
    BY <1>5, RefWritten DEF GaveBack
  <2>2. pc'[u][q] = pc[u][q]
    BY <1>1, <1>5, GotoFacts, ThreadFacts DEF GaveBack, Step
  <2>3. ~Alert(p)
    BY <1>5 DEF GaveBack, At, Refunding, Returns, BackInv, GivingBack, Prompt
  <2>4. pc[u][p] # "refund"
    BY <1>1, <2>3 DEF Alert, Off
  <2>5. QED
    BY <2>1, <2>2, <2>4 DEF UndoInv
<1>6. ASSUME UNCHANGED row, pc'[u][q] \in {pc[u][q]} \cup Off
      PROVE  FALSE
  BY <1>6 DEF UndoInv, Off
<1>7. ASSUME NEW v \in Server, NEW p \in Payment, AutoRefundOne(v, p)
      PROVE  FALSE
  <2>1. UNCHANGED row /\ \E s \in Step : Goto(v, p, s)
    BY <1>7 DEF AutoRefundOne, Visit, db, Step
  <2>2. pc'[u][q] = pc[u][q]
    BY <1>1, <2>1, GotoFacts, ThreadFacts
  <2>3. QED
    BY <1>6, <2>1, <2>2
<1>8. ASSUME NEW v \in Server, Crash(v)
      PROVE  FALSE
  BY <1>1, <1>6, <1>8 DEF Crash, Ended, Off, db
<1>9. ASSUME \/ \E v \in Server : \/ ReleaseDueHolds(v) \/ Sweep(v)
                                 \/ AttemptAutoRefunds(v) \/ BatchDone(v)
             \/ \E p \in Payment : ClockStep(p) \/ PaystackStep(p)
             \/ UNCHANGED vars
      PROVE  FALSE
  <2>1. UNCHANGED <<row, pc>>
    BY <1>9 DEF ReleaseDueHolds, Sweep, AttemptAutoRefunds, BatchDone,
                ClockStep, WindowCloses, TimePasses, PaystackStep,
                ChargeResolves, TransferResolves,
                ChargeTurns, TransferReverses, vars, db
  <2>2. QED
    BY <1>6, <2>1
<1>10. QED
  BY <1>2, <1>3, <1>4, <1>5, <1>7, <1>8, <1>9, BackShapes

LEMMA RefundStep ==
    ASSUME TypeOK, RightToSend, Returns, UndoInv, [Next]_vars,
           NEW p \in Payment, row[p].refundRef
    PROVE  ps'[p].refunds = ps[p].refunds /\ ps'[p].sent = ps[p].sent
<1>1. ASSUME NEW t \in Thread, NEW x \in Payment, NEW s \in Step,
             Steady(t, x, s)
      PROVE  ps'[p].refunds = ps[p].refunds /\ ps'[p].sent = ps[p].sent
  <2>1. ~ (t \in Undoer /\ pc[t][p] = "refund")
    BY DEF UndoInv
  <2>2. ~ (t \in Server /\ pc[t][p] = "giveBack")
    BY DEF Returns, BackInv, GivingBack, Refunding
  <2>3. QED
    BY <1>1, <2>1, <2>2 DEF Steady, MoneyOf, RefundsOf
<1>2. ASSUME \/ \E x \in Payment : Holds(x)
             \/ \E u \in Undoer, x \in Payment : Undoes(u, x)
             \/ \E v \in Server, x \in Payment : GaveBack(v, x)
      PROVE  UNCHANGED ps
  BY <1>2 DEF Holds, Undoes, GaveBack
<1>3. QED
  BY <1>1, <1>2, BackShapes, OthersStay

\* Once a row names a refund, no further refund and no transfer is made of
\* it: for one server, whose handlers are done within the day, and one undo
\* at a time, whatever crashes, webhooks and faults there are.
THEOREM RefundsAreFinal ==
    ASSUME OneServer, OneUndo
    PROVE  Spec => RefundIsFinal
<1>1. Init => UndoInv
  BY ThreadFacts DEF Init, UndoInv
<1>2. TypeOK /\ RightToSend /\ Returns /\ UndoInv /\ [Next]_vars => UndoInv'
  BY UndoInvStep
<1>3. TypeOK /\ RightToSend /\ Returns /\ UndoInv /\ [Next]_vars =>
        [\A p \in Payment : row[p].refundRef =>
            ps'[p].refunds = ps[p].refunds /\ ps'[p].sent = ps[p].sent]_vars
  BY RefundStep
<1>4. QED
  BY <1>1, <1>2, <1>3, ReturnsHold, TypeCorrect, SenderIsAlone, PTL
     DEF Spec, RefundIsFinal
=============================================================================
