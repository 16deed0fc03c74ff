------------------------------ MODULE Payments ------------------------------
(***************************************************************************)
(* The life of a payment after its row has been inserted: the charge of    *)
(* the sender, the optional undo window, the transfer to the receiver, the *)
(* ledger pair, and the four parties that may touch the same row while     *)
(* that happens: the undo request, the release timer, the Paystack         *)
(* webhooks and the reconciler.  Several instances of the server may run   *)
(* side by side on one database, each with a reconciler and timers of its  *)
(* own.                                                                    *)
(*                                                                         *)
(* The database is the only state that survives a restart.  Nothing in the *)
(* code runs in a transaction, so one step of a goroutine is one SQL       *)
(* statement or one call to Paystack, and any other goroutine may run      *)
(* between two of them.  Where the steps before the INSERT live (the       *)
(* idempotency key, the claim of the token, the limits), see Intake.       *)
(***************************************************************************)
EXTENDS Naturals

CONSTANTS
    Server,        \* instances of the server process
    Payment,       \* payment rows
    Undoer,        \* POST /v1/payments/:id/undo requests
    Hook,          \* deliveries of Paystack webhooks
    Host,          \* the instance each payment, undo and webhook came in at
    MaxFaults,     \* bound on errors, crashes and dropped connections
    SlowHandlers   \* may ten minutes pass while a handler is running?

Request == "request"  \* the goroutine of Create or Refund
Timer   == "timer"    \* the goroutine of the hold's time.AfterFunc

\* A server as a thread is the one goroutine of its Reconciler.Run.
Sender == {Request, Timer} \cup Server
Thread == Sender \cup Undoer \cup Hook

ASSUME PaymentsAssumption ==
    /\ MaxFaults \in Nat
    /\ SlowHandlers \in BOOLEAN
    /\ Undoer \cap Hook = {}
    /\ {Request, Timer} \cap Server = {}
    /\ Sender \cap (Undoer \cup Hook) = {}
    /\ Host \in [Payment \cup Undoer \cup Hook -> Server]

(***************************************************************************)
(* 'debiting' is listed by three queries but no statement writes it.       *)
(***************************************************************************)
Status == {"none", "initiated", "transferring", "held", "settling",
           "settled", "failed", "refunded"}

Terminal == {"settled", "failed", "refunded"}

TokenStatus == {"none", "claimed", "settled", "failed"}

Kind == {"plain", "held", "refund"}    \* Create, Create with a window, Refund

\* charge_status is 'success' whenever charge_reference is set, and
\* transfer_status is never read: neither needs a field.
Row == [status : Status, kind : Kind, chargeRef : BOOLEAN,
        transferRef : BOOLEAN, refundRef : BOOLEAN]

\* What a row's latest external reference says, as the reconciler reads it.
Leg == {"transfer", "charge", "aged", "none"}

ChargeState   == {"none", "pending", "success", "failed"}
TransferState == {"none", "pending", "success", "failed", "reversed"}

Account == [charge : ChargeState, transfer : TransferState,
            sent : Nat, refunds : Nat]

Pair == [debit : Nat, credit : Nat]

Age == [window : {"unset", "open", "over"}, quiet : 0..2, aged : BOOLEAN]

Step == {"idle", "done",
         "charge", "saveCharge", "hold", "arm",
         "release", "load", "transfer", "saveTransfer",
         "debit", "credit", "settle", "settleToken",
         "fail", "reject", "close", "failToken",
         "refund", "markUndone", "disarm",
         "noteSuccess", "noteFailure", "countLedger",
         "verifyTransfer", "verifyCharge", "recheck", "giveBack",
         "markRefunded"}

VARIABLES
    \* Postgres
    row,        \* row[p]: the columns of payments that decide anything
    token,      \* token[p]: status of the token behind p, "none" for refunds
    ledger,     \* ledger[p]: how many debit and credit entries name p
    \* Paystack
    ps,         \* ps[p]: its charge, its transfer, transfers and refunds made
    \* time
    clock,      \* clock[p]: the hold window, time since updated_at, created_at
    \* memory of the server processes
    pc,         \* pc[t][p]: the next step of thread t for payment p
    tokenless,  \* <<t, p>> such that t runs with tok == nil
    seen,       \* seen[h]: the status webhook h read before it writes it back
    armed,      \* holdTimers of all servers: the timer of p is at Host[p]
    job,        \* job[s]: what the loop of the reconciler of s is doing
    batch,      \* batch[s]: the rows its listing returned, yet to be visited
    faults      \* faults so far

db    == <<row, token, ledger>>
local == <<tokenless, seen>>
recon == <<job, batch>>
vars  == <<row, token, ledger, ps, clock, pc, tokenless, seen, armed, job,
           batch, faults>>

TypeOK ==
    /\ row \in [Payment -> Row]
    /\ token \in [Payment -> TokenStatus]
    /\ ledger \in [Payment -> Pair]
    /\ ps \in [Payment -> Account]
    /\ clock \in [Payment -> Age]
    /\ pc \in [Thread -> [Payment -> Step]]
    /\ tokenless \subseteq Thread \X Payment
    /\ seen \in [Hook -> Status]
    /\ armed \subseteq Payment
    /\ job \in [Server -> {"idle", "release", "stuck", "autoRefund"}]
    /\ DOMAIN batch = Server
    /\ \A s \in Server :
          /\ DOMAIN batch[s] \subseteq Payment
          /\ \A p \in DOMAIN batch[s] : batch[s][p] \in Leg
    /\ faults \in 0..MaxFaults

NoRows == [p \in {} |-> "none"]

Init ==
    /\ row = [p \in Payment |-> [status |-> "none", kind |-> "plain",
                                 chargeRef |-> FALSE, transferRef |-> FALSE,
                                 refundRef |-> FALSE]]
    /\ token = [p \in Payment |-> "none"]
    /\ ledger = [p \in Payment |-> [debit |-> 0, credit |-> 0]]
    /\ ps = [p \in Payment |-> [charge |-> "none", transfer |-> "none",
                                sent |-> 0, refunds |-> 0]]
    /\ clock = [p \in Payment |-> [window |-> "unset", quiet |-> 0,
                                   aged |-> FALSE]]
    /\ pc = [t \in Thread |-> [p \in Payment |-> "idle"]]
    /\ tokenless = {}
    /\ seen = [h \in Hook |-> "none"]
    /\ armed = {}
    /\ job = [s \in Server |-> "idle"]
    /\ batch = [s \in Server |-> NoRows]
    /\ faults = 0

-----------------------------------------------------------------------------
(* Threads.  A thread that returns is done for good, except a reconciler,  *)
(* which goes back to its loop.                                            *)

At(t, p, step) == pc[t][p] = step

Goto(t, p, step) == pc' = [pc EXCEPT ![t][p] = step]

Ended(t) == IF t \in Server THEN "idle" ELSE "done"

\* The server that thread t runs on when it works on p.
HostOf(t, p) == IF t \in Server THEN t
                ELSE IF t \in {Request, Timer} THEN Host[p] ELSE Host[t]

Return(t, p) == Goto(t, p, Ended(t))

\* A fault the environment may inject: a statement or a call that errs.
Fault == faults < MaxFaults /\ faults' = faults + 1

NoFault == faults' = faults

-----------------------------------------------------------------------------
(* The statements of sqlc/queries/payments.sql and tokens.sql.  Each of    *)
(* those on payments sets updated_at; only the ones whose WHERE names a    *)
(* status are conditional.                                                 *)

WriteRow(p, r) ==
    /\ row' = [row EXCEPT ![p] = r]
    /\ clock' = [clock EXCEPT ![p].quiet = 0]

UpdatePaymentCharge(p) ==
    WriteRow(p, [row[p] EXCEPT !.chargeRef = TRUE, !.status = "transferring"])

UpdatePaymentTransfer(p, status) ==
    WriteRow(p, [row[p] EXCEPT !.transferRef = TRUE, !.status = status])

MarkPaymentSettled(p) == WriteRow(p, [row[p] EXCEPT !.status = "settled"])

MarkPaymentFailed(p) == WriteRow(p, [row[p] EXCEPT !.status = "failed"])

\* Mutant: a status of its own, which no other query knows.
MarkPaymentAutoRefundedNewStatus(p) ==
    WriteRow(p, [row[p] EXCEPT !.refundRef = TRUE,
                               !.status = "auto_refunded"])

MarkPaymentAutoRefunded(p) ==
    WriteRow(p, [row[p] EXCEPT !.refundRef = TRUE, !.status = "failed"])

HoldPayment(p) ==
    /\ row[p].status = "transferring"
    /\ row' = [row EXCEPT ![p].status = "held"]
    /\ clock' = [clock EXCEPT ![p].quiet = 0, ![p].window = "open"]

\* Mutant: the UPDATE loses its "AND status = 'held'".
ReleaseHeldPaymentUnguarded(p) ==
    WriteRow(p, [row[p] EXCEPT !.status = "transferring"])

\* Mutant: any payment whose window is over may be released.
ReleaseHeldPaymentAfterUndo(p) ==
    /\ row[p].status \in {"held", "refunded"}
    /\ WriteRow(p, [row[p] EXCEPT !.status = "transferring"])

ReleaseHeldPayment(p) ==
    /\ row[p].status = "held"
    /\ WriteRow(p, [row[p] EXCEPT !.status = "transferring"])

\* Mutant: the UPDATE loses its "AND status = 'held'".
MarkPaymentRefundedUnguarded(p) ==
    WriteRow(p, [row[p] EXCEPT !.refundRef = TRUE, !.status = "refunded"])

MarkPaymentRefunded(p) ==
    /\ row[p].status = "held"
    /\ WriteRow(p, [row[p] EXCEPT !.refundRef = TRUE, !.status = "refunded"])

\* Neither token statement looks at the status it replaces.
SetToken(t, p, status) ==
    token' = IF token[p] = "none" \/ <<t, p>> \in tokenless
             THEN token
             ELSE [token EXCEPT ![p] = status]

\* Mutant: hold_expires_at compared the wrong way round.
ExpiredHoldsReversed ==
    {p \in Payment : row[p].status = "held" /\ clock[p].window = "open"}

ExpiredHolds ==
    {p \in Payment : row[p].status = "held" /\ clock[p].window = "over"}

\* Mutant: a payment that never got past its INSERT is not listed.
StuckPaymentsCharged ==
    {p \in Payment : /\ row[p].status \in {"transferring", "settling"}
                     /\ clock[p].quiet >= 1}

StuckPayments ==
    {p \in Payment : /\ row[p].status \in {"transferring", "settling",
                                           "initiated"}
                     /\ clock[p].quiet >= 1}

\* Mutant: the listing forgets auto_refund_reference.
PaymentsForAutoRefundAgain ==
    {p \in Payment : /\ row[p].status \in {"transferring", "settling"}
                     /\ row[p].chargeRef
                     /\ clock[p].aged}

\* Mutant: a charged payment that was never sent is not listed.
PaymentsForAutoRefundSettling ==
    {p \in Payment : /\ row[p].status = "settling"
                     /\ row[p].chargeRef
                     /\ ~row[p].refundRef
                     /\ clock[p].aged}

PaymentsForAutoRefund ==
    {p \in Payment : /\ row[p].status \in {"transferring", "settling"}
                     /\ row[p].chargeRef
                     /\ ~row[p].refundRef
                     /\ clock[p].aged}

-----------------------------------------------------------------------------
(* Create and Refund, from the INSERT on.                                  *)

Create(p, kind) ==
    /\ row[p].status = "none"
    /\ row' = [row EXCEPT ![p].status = "initiated", ![p].kind = kind]
    /\ token' = [token EXCEPT ![p] = IF kind = "refund" THEN "none"
                                                        ELSE "claimed"]
    /\ Goto(Request, p, "charge")
    /\ NoFault
    /\ UNCHANGED <<ledger, ps, clock, local, armed, recon>>

\* ChargeAuthorization answers: anything but "success" is a failure to the
\* code, also a charge that is only pending and may still go through.
Charge(p) ==
    /\ At(Request, p, "charge")
    /\ \E verdict \in ChargeState \ {"none"} :
         /\ ps' = [ps EXCEPT ![p].charge = verdict]
         /\ Goto(Request, p, IF verdict = "success" THEN "saveCharge"
                                                    ELSE "fail")
    /\ NoFault
    /\ UNCHANGED <<db, clock, local, armed, recon>>

\* No answer: the call may or may not have reached Paystack.
ChargeErrs(p) ==
    /\ At(Request, p, "charge")
    /\ Fault
    /\ \E verdict \in {"none", "pending"} :
         ps' = [ps EXCEPT ![p].charge = verdict]
    /\ Goto(Request, p, "fail")
    /\ UNCHANGED <<db, clock, local, armed, recon>>

SaveCharge(p) ==
    /\ At(Request, p, "saveCharge")
    /\ \/ /\ UpdatePaymentCharge(p)
          /\ Goto(Request, p, IF row[p].kind = "held" THEN "hold"
                                                      ELSE "transfer")
          /\ NoFault
       \/ /\ Fault
          /\ Goto(Request, p, "fail")
          /\ UNCHANGED <<row, clock>>
    /\ UNCHANGED <<token, ledger, ps, local, armed, recon>>

\* orchestrateHeld returns without fail() when HoldPayment finds no row.
Hold(p) ==
    /\ At(Request, p, "hold")
    /\ \/ /\ HoldPayment(p)
          /\ Goto(Request, p, "arm")
          /\ NoFault
       \/ /\ \/ row[p].status # "transferring" /\ NoFault
             \/ Fault
          /\ Return(Request, p)
          /\ UNCHANGED <<row, clock>>
    /\ UNCHANGED <<token, ledger, ps, local, armed, recon>>

\* Mutant: orchestrateHeld falls through to the transfer.
ArmAndTransfer(p) ==
    /\ At(Request, p, "arm")
    /\ armed' = armed \cup {p}
    /\ Goto(Request, p, "transfer")
    /\ NoFault
    /\ UNCHANGED <<db, ps, clock, local, recon>>

\* scheduleHoldRelease
Arm(p) ==
    /\ At(Request, p, "arm")
    /\ armed' = armed \cup {p}
    /\ Return(Request, p)
    /\ NoFault
    /\ UNCHANGED <<db, ps, clock, local, recon>>

-----------------------------------------------------------------------------
(* releaseHold, entered by the timer or by a reconciler's fast tick.       *)

\* The timer is armed after hold_expires_at was computed from the same
\* window, so it never fires before the window is over.
TimerFires(p) ==
    /\ p \in armed
    /\ clock[p].window = "over"
    /\ armed' = armed \ {p}
    /\ Goto(Timer, p, "release")
    /\ NoFault
    /\ UNCHANGED <<db, ps, clock, local, recon>>

Release(t, p) ==
    /\ At(t, p, "release")
    /\ \/ /\ ReleaseHeldPayment(p)
          /\ Goto(t, p, "load")
          /\ NoFault
       \/ /\ \/ row[p].status # "held" /\ NoFault
             \/ Fault
          /\ Return(t, p)
          /\ UNCHANGED <<row, clock>>
    /\ UNCHANGED <<token, ledger, ps, local, armed, recon>>

\* The receiver, the sender and the token are loaded after the row has
\* left 'held'.  An error on a user returns and leaves the row where it is;
\* an error on the token goes on without it.
Load(t, p) ==
    /\ At(t, p, "load")
    /\ \/ NoFault /\ Goto(t, p, "transfer") /\ UNCHANGED tokenless
       \/ Fault /\ Return(t, p) /\ UNCHANGED tokenless
       \/ /\ Fault
          /\ tokenless' = tokenless \cup {<<t, p>>}
          /\ Goto(t, p, "transfer")
    /\ UNCHANGED <<db, ps, clock, seen, armed, recon>>

-----------------------------------------------------------------------------
(* The tail that orchestrate and releaseHold share.                        *)

\* Paystack takes a transfer on; it is pending until it says otherwise.
InitiateTransfer(p) ==
    ps' = [ps EXCEPT ![p] =
              [ps[p] EXCEPT !.transfer = "pending", !.sent = @ + 1]]

\* The status in InitiateTransfer's answer is stored and not looked at: the
\* tail goes on to settle a transfer that is only pending.
Transfer(t, p) ==
    /\ At(t, p, "transfer")
    /\ InitiateTransfer(p)
    /\ Goto(t, p, "saveTransfer")
    /\ NoFault
    /\ UNCHANGED <<db, clock, local, armed, recon>>

\* CreateRecipient or InitiateTransfer errs; the transfer may be out.
TransferErrs(t, p) ==
    /\ At(t, p, "transfer")
    /\ Fault
    /\ \/ UNCHANGED ps
       \/ InitiateTransfer(p)
    /\ Goto(t, p, "fail")
    /\ UNCHANGED <<db, clock, local, armed, recon>>

SaveTransfer(t, p) ==
    /\ At(t, p, "saveTransfer")
    /\ \/ /\ UpdatePaymentTransfer(p, "settling")
          /\ Goto(t, p, "debit")
          /\ NoFault
       \/ /\ Fault
          /\ Goto(t, p, "fail")
          /\ UNCHANGED <<row, clock>>
    /\ UNCHANGED <<token, ledger, ps, local, armed, recon>>

\* ledger.RecordPaymentPair: two INSERTs, no transaction.  The orchestrator
\* fails the payment on an error, the webhook only returns it.
LedgerErrs(t, p) ==
    /\ Fault
    /\ IF t \in Hook THEN Return(t, p) ELSE Goto(t, p, "fail")
    /\ UNCHANGED ledger

\* Mutant: the credit is written first.
DebitSwapped(t, p) ==
    /\ At(t, p, "debit")
    /\ \/ /\ ledger' = [ledger EXCEPT ![p].credit = @ + 1]
          /\ Goto(t, p, "credit")
          /\ NoFault
       \/ LedgerErrs(t, p)
    /\ UNCHANGED <<row, token, ps, clock, local, armed, recon>>

Debit(t, p) ==
    /\ At(t, p, "debit")
    /\ \/ /\ ledger' = [ledger EXCEPT ![p].debit = @ + 1]
          /\ Goto(t, p, "credit")
          /\ NoFault
       \/ LedgerErrs(t, p)
    /\ UNCHANGED <<row, token, ps, clock, local, armed, recon>>

Credit(t, p) ==
    /\ At(t, p, "credit")
    /\ \/ /\ ledger' = [ledger EXCEPT ![p].credit = @ + 1]
          /\ Goto(t, p, "settle")
          /\ NoFault
       \/ LedgerErrs(t, p)
    /\ UNCHANGED <<row, token, ps, clock, local, armed, recon>>

Settle(t, p) ==
    /\ At(t, p, "settle")
    /\ \/ /\ MarkPaymentSettled(p)
          /\ Goto(t, p, "settleToken")
          /\ NoFault
       \/ /\ Fault
          /\ Return(t, p)
          /\ UNCHANGED <<row, clock>>
    /\ UNCHANGED <<token, ledger, ps, local, armed, recon>>

SettleToken(t, p) ==
    /\ At(t, p, "settleToken")
    /\ \/ SetToken(t, p, "settled") /\ NoFault
       \/ Fault /\ UNCHANGED token
    /\ Return(t, p)
    /\ UNCHANGED <<row, ledger, ps, clock, local, armed, recon>>

\* fail() and reconcileCharge carry on to the token when the payment cannot
\* be marked.
Fail(t, p) ==
    /\ At(t, p, "fail")
    /\ \/ MarkPaymentFailed(p) /\ NoFault
       \/ Fault /\ UNCHANGED <<row, clock>>
    /\ Goto(t, p, "failToken")
    /\ UNCHANGED <<token, ledger, ps, local, armed, recon>>

FailToken(t, p) ==
    /\ At(t, p, "failToken")
    /\ \/ SetToken(t, p, "failed") /\ NoFault
       \/ Fault /\ UNCHANGED token
    /\ Return(t, p)
    /\ UNCHANGED <<row, ledger, ps, clock, local, armed, recon>>

\* A rejected transfer, as the webhook and reconcileTransfer record it: an
\* error returns before the token.
Reject(t, p) ==
    /\ At(t, p, "reject")
    /\ \/ /\ MarkPaymentFailed(p)
          /\ Goto(t, p, "failToken")
          /\ NoFault
       \/ /\ Fault
          /\ Return(t, p)
          /\ UNCHANGED <<row, clock>>
    /\ UNCHANGED <<token, ledger, ps, local, armed, recon>>

\* charge.failed by webhook and a payment that never left 'initiated': the
\* row is marked, the token is not touched.
Close(t, p) ==
    /\ At(t, p, "close")
    /\ \/ MarkPaymentFailed(p) /\ NoFault
       \/ Fault /\ UNCHANGED <<row, clock>>
    /\ Return(t, p)
    /\ UNCHANGED <<token, ledger, ps, local, armed, recon>>

-----------------------------------------------------------------------------
(* Undo: the checks read the row once, Paystack is asked before the row is *)
(* written.                                                                *)

UndoChecks(p) ==
    /\ row[p].status = "held"
    /\ clock[p].window = "open"
    /\ row[p].chargeRef

Undo(u, p) ==
    /\ At(u, p, "idle")
    /\ UndoChecks(p)
    /\ Goto(u, p, "refund")
    /\ NoFault
    /\ UNCHANGED <<db, ps, clock, local, armed, recon>>

\* Paystack refunds a charge it holds; it refuses one that failed.
RefundCharge(p) ==
    /\ ps[p].charge = "success"
    /\ ps' = [ps EXCEPT ![p].refunds = @ + 1]

UndoRefund(u, p) ==
    /\ At(u, p, "refund")
    /\ \/ RefundCharge(p) /\ Goto(u, p, "markUndone") /\ NoFault
       \/ ps[p].charge # "success" /\ Return(u, p) /\ NoFault /\ UNCHANGED ps
       \/ Fault /\ Return(u, p) /\ (UNCHANGED ps \/ RefundCharge(p))
    /\ UNCHANGED <<db, clock, local, armed, recon>>

MarkUndone(u, p) ==
    /\ At(u, p, "markUndone")
    /\ \/ /\ MarkPaymentRefunded(p)
          /\ Goto(u, p, "disarm")
          /\ NoFault
       \/ /\ \/ row[p].status # "held" /\ NoFault
             \/ Fault
          /\ Return(u, p)
          /\ UNCHANGED <<row, clock>>
    /\ UNCHANGED <<token, ledger, ps, local, armed, recon>>

\* The timer is found only if it was armed by the same server.
Disarm(u, p) ==
    /\ At(u, p, "disarm")
    /\ armed' = IF Host[u] = Host[p] THEN armed \ {p} ELSE armed
    /\ Goto(u, p, "failToken")
    /\ NoFault
    /\ UNCHANGED <<db, ps, clock, local, recon>>

-----------------------------------------------------------------------------
(* Webhooks.  Any event that Paystack has had reason to emit may be        *)
(* delivered, late, twice or never.  An event whose reference is not yet   *)
(* in the row is acknowledged and lost, which is the same as never.        *)

Fresh(h) == \A p \in Payment : At(h, p, "idle")

ChargeFailedHook(h, p) ==
    /\ Fresh(h)
    /\ ps[p].charge = "failed"
    /\ row[p].chargeRef
    /\ row[p].status \notin {"settled", "failed"}
    /\ Goto(h, p, "close")
    /\ NoFault
    /\ UNCHANGED <<db, ps, clock, local, armed, recon>>

\* transfer.success is also what may still be in flight after a reversal.
TransferHook(h, p) ==
    /\ Fresh(h)
    /\ row[p].transferRef
    /\ row[p].status \notin {"settled", "failed"}
    /\ seen' = [seen EXCEPT ![h] = row[p].status]
    /\ \/ /\ ps[p].transfer \in {"success", "reversed"}
          /\ Goto(h, p, "noteSuccess")
       \/ /\ ps[p].transfer \in {"failed", "reversed"}
          /\ Goto(h, p, "noteFailure")
    /\ NoFault
    /\ UNCHANGED <<db, ps, clock, tokenless, armed, recon>>

\* Already settled or failed, nothing to do: the event is used up.
LateHook(h, p) ==
    /\ Fresh(h)
    /\ row[p].chargeRef
    /\ row[p].status \in {"settled", "failed"}
    /\ Return(h, p)
    /\ NoFault
    /\ UNCHANGED <<db, ps, clock, local, armed, recon>>

\* "keep current orchestration phase": the status read earlier is written,
\* and then forgotten.
NoteTransfer(h, p) ==
    /\ pc[h][p] \in {"noteSuccess", "noteFailure"}
    /\ seen' = [seen EXCEPT ![h] = "none"]
    /\ \/ /\ UpdatePaymentTransfer(p, seen[h])
          /\ Goto(h, p, IF At(h, p, "noteSuccess") THEN "countLedger"
                                                   ELSE "reject")
          /\ NoFault
       \/ /\ Fault
          /\ Return(h, p)
          /\ UNCHANGED <<row, clock>>
    /\ UNCHANGED <<token, ledger, ps, tokenless, armed, recon>>

\* Mutant: the entries are not counted.
CountLedgerUnguarded(h, p) ==
    /\ At(h, p, "countLedger")
    /\ Goto(h, p, "debit")
    /\ NoFault
    /\ UNCHANGED <<db, ps, clock, local, armed, recon>>

\* The error of ListPaymentLedger is dropped: no entries are then seen.
CountLedger(h, p) ==
    /\ At(h, p, "countLedger")
    /\ \/ /\ Goto(h, p, IF ledger[p] = [debit |-> 0, credit |-> 0]
                        THEN "debit" ELSE "settle")
          /\ NoFault
       \/ Fault /\ Goto(h, p, "debit")
    /\ UNCHANGED <<db, ps, clock, local, armed, recon>>

-----------------------------------------------------------------------------
(* The reconciler of server s: one goroutine, so one batch and one payment *)
(* at a time.  It works from the rows as the listing returned them.        *)

Resting(s) == \A p \in Payment : At(s, p, "idle")

LegOf(p) == IF row[p].transferRef THEN "transfer"
            ELSE IF row[p].chargeRef THEN "charge"
            ELSE IF clock[p].quiet = 2 THEN "aged" ELSE "none"

Listing(s, rows) ==
    batch' = [batch EXCEPT ![s] = [p \in rows |-> LegOf(p)]]

Visit(s, p, step) ==
    /\ Resting(s)
    /\ p \in DOMAIN batch[s]
    /\ batch' = [batch EXCEPT ![s] =
                    [q \in DOMAIN batch[s] \ {p} |-> batch[s][q]]]
    /\ Goto(s, p, step)
    /\ tokenless' = tokenless \ {<<s, p>>}
    /\ NoFault
    /\ UNCHANGED <<db, ps, clock, seen, armed, job>>

\* The fast tick: ReleaseDueHolds.
ReleaseDueHolds(s) ==
    /\ job[s] = "idle"
    /\ ExpiredHolds # {}
    /\ job' = [job EXCEPT ![s] = "release"]
    /\ Listing(s, ExpiredHolds)
    /\ NoFault
    /\ UNCHANGED <<db, ps, clock, pc, local, armed>>

ReleaseOne(s, p) == job[s] = "release" /\ Visit(s, p, "release")

\* The slow tick: the stuck payments first, then the auto-refunds.  A tick
\* that finds neither changes nothing.
Sweep(s) ==
    /\ job[s] = "idle"
    /\ StuckPayments \cup PaymentsForAutoRefund # {}
    /\ job' = [job EXCEPT ![s] = "stuck"]
    /\ Listing(s, StuckPayments)
    /\ NoFault
    /\ UNCHANGED <<db, ps, clock, pc, local, armed>>

\* A payment with no reference is closed once it has been quiet for a day.
ReconcileOne(s, p) ==
    /\ job[s] = "stuck"
    /\ p \in DOMAIN batch[s]
    /\ Visit(s, p, CASE batch[s][p] = "transfer" -> "verifyTransfer"
                     [] batch[s][p] = "charge"   -> "verifyCharge"
                     [] batch[s][p] = "aged"     -> "close"
                     [] batch[s][p] = "none"     -> "idle")

AttemptAutoRefunds(s) ==
    /\ job[s] = "stuck"
    /\ Resting(s)
    /\ DOMAIN batch[s] = {}
    /\ job' = [job EXCEPT ![s] = "autoRefund"]
    /\ Listing(s, PaymentsForAutoRefund)
    /\ NoFault
    /\ UNCHANGED <<db, ps, clock, pc, local, armed>>

AutoRefundOne(s, p) ==
    /\ job[s] = "autoRefund"
    /\ p \in DOMAIN batch[s]
    /\ Visit(s, p, IF batch[s][p] = "transfer" THEN "recheck" ELSE "giveBack")

\* The end of a batch; expireStaleTokens only concerns unclaimed tokens.
BatchDone(s) ==
    /\ job[s] \in {"release", "autoRefund"}
    /\ Resting(s)
    /\ DOMAIN batch[s] = {}
    /\ job' = [job EXCEPT ![s] = "idle"]
    /\ NoFault
    /\ UNCHANGED <<db, ps, clock, pc, local, armed, batch>>

ReconcileTransfer(s, p) ==
    /\ At(s, p, "verifyTransfer")
    /\ \/ ps[p].transfer = "success" /\ Goto(s, p, "settle") /\ NoFault
       \/ /\ ps[p].transfer \in {"failed", "reversed"}
          /\ Goto(s, p, "reject")
          /\ NoFault
       \/ ps[p].transfer = "pending" /\ Return(s, p) /\ NoFault
       \/ Fault /\ Return(s, p)
    /\ UNCHANGED <<db, ps, clock, local, armed, recon>>

\* Mutant: a charge that went through is taken for a payment that did.
ReconcileChargeSettles(s, p) ==
    /\ At(s, p, "verifyCharge")
    /\ \/ ps[p].charge = "failed" /\ Goto(s, p, "fail") /\ NoFault
       \/ ps[p].charge = "success" /\ Goto(s, p, "settle") /\ NoFault
       \/ ps[p].charge = "pending" /\ Return(s, p) /\ NoFault
       \/ Fault /\ Return(s, p)
    /\ UNCHANGED <<db, ps, clock, local, armed, recon>>

ReconcileCharge(s, p) ==
    /\ At(s, p, "verifyCharge")
    /\ \/ ps[p].charge = "failed" /\ Goto(s, p, "fail") /\ NoFault
       \/ ps[p].charge # "failed" /\ Return(s, p) /\ NoFault
       \/ Fault /\ Return(s, p)
    /\ UNCHANGED <<db, ps, clock, local, armed, recon>>

\* Only a transfer known to have landed stops the refund: one that is
\* pending, or that cannot be looked up, does not.
Recheck(s, p) ==
    /\ At(s, p, "recheck")
    /\ \/ ps[p].transfer = "success" /\ Goto(s, p, "settle") /\ NoFault
       \/ ps[p].transfer # "success" /\ Goto(s, p, "giveBack") /\ NoFault
       \/ Fault /\ Goto(s, p, "giveBack")
    /\ UNCHANGED <<db, ps, clock, local, armed, recon>>

GiveBack(s, p) ==
    /\ At(s, p, "giveBack")
    /\ \/ RefundCharge(p) /\ Goto(s, p, "markRefunded") /\ NoFault
       \/ ps[p].charge # "success" /\ Return(s, p) /\ NoFault /\ UNCHANGED ps
       \/ Fault /\ Return(s, p) /\ (UNCHANGED ps \/ RefundCharge(p))
    /\ UNCHANGED <<db, clock, local, armed, recon>>

MarkRefunded(s, p) ==
    /\ At(s, p, "markRefunded")
    /\ \/ /\ MarkPaymentAutoRefunded(p)
          /\ Goto(s, p, "failToken")
          /\ NoFault
       \/ /\ Fault
          /\ Return(s, p)
          /\ UNCHANGED <<row, clock>>
    /\ UNCHANGED <<token, ledger, ps, local, armed, recon>>

-----------------------------------------------------------------------------
(* Faults that stop goroutines.                                            *)

\* A crash or a deploy of server s: its memory is lost, the database,
\* Paystack and the other servers are not.
Crash(s) ==
    /\ Fault
    /\ pc' = [t \in Thread |-> [p \in Payment |->
                 IF At(t, p, "idle") \/ HostOf(t, p) # s THEN pc[t][p]
                                                        ELSE Ended(t)]]
    /\ tokenless' = {x \in tokenless : HostOf(x[1], x[2]) # s}
    /\ armed' = {p \in armed : Host[p] # s}
    /\ job' = [job EXCEPT ![s] = "idle"]
    /\ batch' = [batch EXCEPT ![s] = NoRows]
    /\ UNCHANGED <<db, ps, clock, seen>>

\* The client goes away: the request's context is cancelled and every
\* statement and call the handler has left, fail()'s included, errs.
Disconnect(t, p) ==
    /\ t # Timer /\ t \notin Server
    /\ pc[t][p] \notin {"idle", "done", "arm", "disarm"}
    /\ Fault
    /\ Return(t, p)
    /\ UNCHANGED <<db, ps, clock, local, armed, recon>>

-----------------------------------------------------------------------------
(* Paystack and time.                                                      *)

\* What is pending goes through or not.
ChargeResolves(p) ==
    /\ ps[p].charge = "pending"
    /\ \E v \in {"success", "failed"} : ps' = [ps EXCEPT ![p].charge = v]
    /\ NoFault
    /\ UNCHANGED <<db, clock, pc, local, armed, recon>>

TransferResolves(p) ==
    /\ ps[p].transfer = "pending"
    /\ \E v \in {"success", "failed"} : ps' = [ps EXCEPT ![p].transfer = v]
    /\ NoFault
    /\ UNCHANGED <<db, clock, pc, local, armed, recon>>

\* A charge that was reported as a success may turn out failed, the case
\* reconcileCharge and charge.failed handle; a transfer may be reversed.
ChargeTurns(p) ==
    /\ ps[p].charge = "success"
    /\ ps[p].refunds = 0
    /\ ps' = [ps EXCEPT ![p].charge = "failed"]
    /\ NoFault
    /\ UNCHANGED <<db, clock, pc, local, armed, recon>>

TransferReverses(p) ==
    /\ ps[p].transfer = "success"
    /\ ps' = [ps EXCEPT ![p].transfer = "reversed"]
    /\ NoFault
    /\ UNCHANGED <<db, clock, pc, local, armed, recon>>

WindowCloses(p) ==
    /\ clock[p].window = "open"
    /\ clock' = [clock EXCEPT ![p].window = "over"]
    /\ NoFault
    /\ UNCHANGED <<db, ps, pc, local, armed, recon>>

\* A goroutine makes a few calls of at most thirty seconds each for a
\* payment, and a timer fires when it is due; only how long a reconciler
\* takes to get to a row of its listing has no such bound.
HandlersAreIdle(p) ==
    /\ p \notin armed
    /\ \A t \in Thread : pc[t][p] \in {"idle", "done"}

\* updated_at falls behind now by ten minutes (1), then by a day (2); by
\* then created_at has fallen behind by a day as well, and stays so.
TimePasses(p) ==
    /\ row[p].status # "none"
    /\ clock[p].window # "open"
    /\ SlowHandlers \/ HandlersAreIdle(p)
    /\ clock[p].quiet < 2
    /\ clock' = [clock EXCEPT ![p].quiet = @ + 1,
                              ![p].aged = @ \/ clock[p].quiet = 1]
    /\ NoFault
    /\ UNCHANGED <<db, ps, pc, local, armed, recon>>

-----------------------------------------------------------------------------
RequestStep(p) == \/ Charge(p) \/ ChargeErrs(p) \/ SaveCharge(p)
                  \/ Hold(p) \/ Arm(p)

SenderStep(t, p) == \/ Release(t, p) \/ Load(t, p)
                    \/ Transfer(t, p) \/ TransferErrs(t, p)
                    \/ SaveTransfer(t, p)

BookStep(t, p) == \/ Debit(t, p) \/ Credit(t, p)
                  \/ Settle(t, p) \/ SettleToken(t, p)
                  \/ Fail(t, p) \/ FailToken(t, p)
                  \/ Reject(t, p) \/ Close(t, p)

UndoStep(u, p) == \/ UndoRefund(u, p) \/ MarkUndone(u, p) \/ Disarm(u, p)

Delivery(h, p) ==
    ChargeFailedHook(h, p) \/ TransferHook(h, p) \/ LateHook(h, p)

HookStep(h, p) == NoteTransfer(h, p) \/ CountLedger(h, p)

VisitStep(s, p) ==
    ReleaseOne(s, p) \/ ReconcileOne(s, p) \/ AutoRefundOne(s, p)

VerifyStep(s, p) == \/ ReconcileTransfer(s, p) \/ ReconcileCharge(s, p)
                    \/ Recheck(s, p) \/ GiveBack(s, p) \/ MarkRefunded(s, p)

PaystackStep(p) == \/ ChargeResolves(p) \/ TransferResolves(p)
                   \/ ChargeTurns(p) \/ TransferReverses(p)

ClockStep(p) == WindowCloses(p) \/ TimePasses(p)

Next ==
    \/ \E p \in Payment :
         \/ \E kind \in Kind : Create(p, kind)
         \/ RequestStep(p)
         \/ TimerFires(p)
         \/ \E t \in Sender : SenderStep(t, p)
         \/ \E t \in Thread : BookStep(t, p) \/ Disconnect(t, p)
         \/ \E u \in Undoer : Undo(u, p) \/ UndoStep(u, p)
         \/ \E h \in Hook : Delivery(h, p) \/ HookStep(h, p)
         \/ \E s \in Server : VisitStep(s, p) \/ VerifyStep(s, p)
         \/ PaystackStep(p)
         \/ ClockStep(p)
    \/ \E s \in Server : \/ ReleaseDueHolds(s) \/ Sweep(s)
                        \/ AttemptAutoRefunds(s) \/ BatchDone(s)
                        \/ Crash(s)

Spec == Init /\ [][Next]_vars

-----------------------------------------------------------------------------
(* What the code keeps, whatever the interleaving.                         *)

\* No payment is transferred twice: the timer, the fast tick and the request
\* may all want to send it, and only the one that moves the row out of
\* 'held', or the request of a payment that was never held, does.
TransferOnce == \A p \in Payment : ps[p].sent <= 1

\* An undo that was recorded is a refund that Paystack made, of a payment
\* whose transfer had not gone out.
UndoneIsUnsent ==
    \A p \in Payment : row[p].status = "refunded" =>
        ps[p].sent = 0 /\ ps[p].refunds >= 1

\* Nothing brings an undone payment back: late timers, listings and webhooks
\* find it and neither send nor settle it.
UndoIsKept ==
    [][\A p \in Payment : row[p].status = "refunded" =>
          /\ row'[p].status \in {"refunded", "failed"}
          /\ ps'[p].sent = ps[p].sent]_vars

\* A payment or a token is settled only when the sender's charge is on
\* record and the receiver's transfer was handed to Paystack, once, whoever
\* of the four parties settles it.
SettledWasSent ==
    \A p \in Payment : row[p].status = "settled" \/ token[p] = "settled" =>
        row[p].chargeRef /\ ps[p].sent = 1

Quiescent(p) == \A t \in Thread : pc[t][p] \in {"idle", "done"}

\* No debit without a transfer, no credit without its debit.  Until a
\* webhook has come in for the payment there is at most one pair, and once
\* all is quiet and nothing has erred no half pair is left and a settled
\* payment has one.  One pair and no other is more than the code keeps: see
\* BookedOnce (a webhook beside the request) and SettledIsBooked (a fault).
LedgerIsBacked ==
    \A p \in Payment :
        /\ ledger[p].debit > 0 => ps[p].sent = 1
        /\ ledger[p].credit <= ledger[p].debit
        /\ (\A h \in Hook : At(h, p, "idle")) => ledger[p].debit <= 1
        /\ faults = 0 /\ Quiescent(p) =>
             /\ ledger[p].credit = ledger[p].debit
             /\ row[p].status = "settled" => ledger[p].debit > 0

\* Once a debit is in the ledger and nobody is about to write another, no
\* webhook, reconciler or late thread sets out to book the payment again,
\* also after the goroutine that wrote it has died.  Only an error of the
\* count itself, which the webhook drops, can make it.
PairsAreCounted ==
    [][\A p \in Payment :
          /\ ledger[p].debit > 0
          /\ \A t \in Thread : pc[t][p] # "debit"
          /\ faults' = faults
          => \A t \in Thread : pc'[t][p] # "debit"]_vars

\* While the undo window is what holds a payment, its money is still with
\* us: no thread is on its way to Paystack with it.
HeldIsUntouched ==
    \A p \in Payment : row[p].status = "held" =>
        /\ ps[p].sent = 0
        /\ \A t \in Sender : pc[t][p] \notin {"load", "transfer"}

\* Once the row names a refund, the money has gone its way: no further
\* refund is made, since the listing leaves out rows with
\* auto_refund_reference, also when a late webhook has put such a row back
\* to 'settling'; and no thread that was on its way to Paystack sends it.
\* This is so for one server and one undo.  The comment of
\* internal/jobs/reconciler.go:5-8 has instances run side by side "because
\* every operation is idempotent"; with two of them it is not so.
RefundIsFinal ==
    [][\A p \in Payment : row[p].refundRef =>
          ps'[p].refunds = ps[p].refunds /\ ps'[p].sent = ps[p].sent]_vars

Life == INSTANCE Lifecycle WITH status <- [p \in Payment |-> row[p].status]

\* Whatever order the request, the timer, the reconciler, undo requests and
\* webhooks write the row in, its status only makes the moves of Lifecycle,
\* which is all that the rest of the system may assume.
FollowsLifecycle == Life!Spec

\* The abstract state of a payment: what has left for the receiver counts
\* first, then what the row records as given back, then the undo window.
EscrowOf(p) ==
    IF ps[p].sent > 0 THEN "sent"
    ELSE IF row[p].refundRef THEN "returned"
    ELSE IF row[p].status = "held" THEN "held"
    ELSE IF clock[p].window # "unset" THEN "lapsed" ELSE "open"

Abstract == INSTANCE Escrow WITH escrow <- [p \in Payment |-> EscrowOf(p)]

\* The service keeps the promise of Escrow: no payment is sent after the row
\* says its money went back, nor held twice.
ImplementsEscrow == Abstract!Spec

-----------------------------------------------------------------------------
(* Why it is so: the invariant the proofs rest on.                         *)

\* Thread t has the right to hand p to Paystack, or is on its way to it.
Sending(t, p) ==
    \/ pc[t][p] \in {"load", "transfer"}
    \/ t = Request /\ pc[t][p] \in {"charge", "saveCharge", "hold"}

\* Whoever has that right has it alone, before anything was sent, and the
\* row shows it: the status is not one that lets another thread in.
SendersAreAlone(p) ==
    \A t \in Thread : Sending(t, p) =>
        /\ ps[p].sent = 0
        /\ row[p].status \in {"initiated", "transferring", "failed"}
        /\ \A u \in Thread : Sending(u, p) => u = t

\* Only a charged payment is held or sent.
ChargedFirst(p) ==
    \/ row[p].chargeRef
    \/ /\ row[p].status # "held"
       /\ \A t \in Thread : pc[t][p] \notin {"load", "transfer", "hold"}

\* The steps a thread only gets to once a transfer was made.
Sent == {"saveTransfer", "debit", "credit", "settle", "settleToken",
         "noteSuccess", "noteFailure", "countLedger", "verifyTransfer",
         "recheck"}

\* Each of these is only there after a transfer.
TransferEvidence(p) ==
    \/ row[p].transferRef
    \/ row[p].status = "settled"
    \/ token[p] = "settled"
    \/ ledger[p].debit > 0
    \/ \E t \in Thread : pc[t][p] \in Sent

Note == {"noteSuccess", "noteFailure"}

\* The status a webhook may write back is the one a transfer reference
\* comes with, and it is for one payment.
NotesAreSettling(p) ==
    \A h \in Hook : pc[h][p] \in Note =>
        /\ row[p].transferRef
        /\ seen[h] = "settling"
        /\ \A q \in Payment : pc[h][q] \in Note => q = p

PaymentInv(p) ==
    /\ ps[p].sent <= 1
    /\ SendersAreAlone(p)
    /\ ChargedFirst(p)
    /\ TransferEvidence(p) => ps[p].sent = 1 /\ row[p].chargeRef
    /\ row[p].status \in {"none", "held", "refunded"} => ps[p].sent = 0
    /\ row[p].transferRef => row[p].status \in {"settling", "settled", "failed"}
    /\ NotesAreSettling(p)
    /\ \A s \in Server :
          p \in DOMAIN batch[s] /\ batch[s][p] = "transfer" =>
              row[p].transferRef
    /\ \/ row[p].status = "refunded"
       \/ \E t \in Thread : pc[t][p] = "markUndone"
       => ps[p].refunds >= 1

\* The right to send a payment is held by one thread at a time, and every
\* trace of a transfer means that one was made.
RightToSend == \A p \in Payment : PaymentInv(p)

-----------------------------------------------------------------------------
(* What must eventually happen.                                            *)

\* The reconciler's select picks among ready tickers at random, so neither
\* tick is put off for ever (strong fairness); its goroutine then runs.
ReconcilerRuns ==
    \A s \in Server :
        /\ SF_vars(ReleaseDueHolds(s))
        /\ SF_vars(Sweep(s))
        /\ WF_vars(AttemptAutoRefunds(s))
        /\ WF_vars(BatchDone(s))
        /\ \A p \in Payment :
             /\ WF_vars(VisitStep(s, p))
             /\ WF_vars(VerifyStep(s, p))
             /\ WF_vars(SenderStep(s, p))
             /\ WF_vars(BookStep(s, p))

\* Goroutines that have started are scheduled.
HandlersRun ==
    \A p \in Payment :
        /\ WF_vars(RequestStep(p))
        /\ WF_vars(TimerFires(p))
        /\ \A t \in {Request, Timer} : WF_vars(SenderStep(t, p))
        /\ \A t \in Thread \ Server : WF_vars(BookStep(t, p))
        /\ \A u \in Undoer : WF_vars(UndoStep(u, p))
        /\ \A h \in Hook : WF_vars(HookStep(h, p))

TimeFlows == \A p \in Payment : SF_vars(ClockStep(p))

\* Paystack does not leave a charge or a transfer pending for ever.  What
\* has succeeded may stay so, and normally does: no fairness on the steps
\* that turn or reverse it.
PaystackAnswers ==
    \A p \in Payment : WF_vars(ChargeResolves(p)) /\ WF_vars(TransferResolves(p))

FairSpec ==
    Spec /\ ReconcilerRuns /\ HandlersRun /\ TimeFlows /\ PaystackAnswers

\* No payment stays held: a timer lost in a crash is made up for by the
\* reconciler's fast tick.
HoldsEnd ==
    \A p \in Payment : row[p].status = "held" ~> row[p].status # "held"

\* Every payment ends settled, failed or refunded and stays so, however
\* many goroutines died on the way.
PaymentsFinish ==
    \A p \in Payment :
        <>[](row[p].status \in Terminal \cup {"none"})

-----------------------------------------------------------------------------
(* What the comments say and the code does not keep.                       *)

\* internal/ledger/service.go:1-3: every settled payment has its pair.
SettledIsBooked ==
    \A p \in Payment : row[p].status = "settled" /\ Quiescent(p) =>
        ledger[p] = [debit |-> 1, credit |-> 1]

\* internal/payments/service.go:323-325: undo races safely against itself.
UndoneOnce == \A p \in Payment : ps[p].refunds <= 1

\* internal/payments/webhook.go:99-101: the webhook writes a pair only when
\* the payment has none, so no payment is booked twice.
BookedOnce ==
    \A p \in Payment : ledger[p].debit <= 1 /\ ledger[p].credit <= 1

=============================================================================
