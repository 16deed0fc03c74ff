# EchoPay in TLA+

EchoPay is the backend of a walletless payment app. A receiver issues a token
that lives for a minute, a sender claims it, and the server charges the
sender's card or bank account at Paystack, optionally holds the money for an
undo window, transfers it to the receiver and writes a pair of ledger entries.
The server keeps its state in Postgres and **runs no database transactions**:
every SQL statement commits on its own, every call to Paystack stands between
two statements, and four parties write the same payment row: the request that
created it, a timer, Paystack's webhooks and a reconciler. What may happen
between two statements is what this project is about.

Paths below are relative to the repository's `src/`.

## 1. Inventory

| component | state | operations | talks to |
|---|---|---|---|
| payments (`internal/payments/service.go`, `handler.go`) | rows of `payments`; `holdTimers` in memory | Create, Refund, the release timer, ReleaseDueHolds, Undo; reads for the client | tokens, mandates, risk, ledger, Paystack |
| webhooks (`internal/payments/webhook.go`, `internal/http/webhooks.go`) | none of its own | ApplyWebhook: `charge.*`, `transfer.*` | payments, tokens, ledger rows |
| reconciler (`internal/jobs/reconciler.go`) | none; two tickers | two-second tick: due holds; five-minute tick: limit changes, stuck payments, auto-refunds, stale tokens | payments, risk, tokens, Paystack |
| ledger (`internal/ledger`) | rows of `ledger_entries` | RecordPaymentPair | called by the orchestrator and the webhook |
| tokens (`internal/tokens`) | rows of `tokens`; a copy in Redis nobody reads | Issue, Resolve, Claim; settle, fail and expire by others | payments, reconciler |
| sending limits (`internal/risk/limits.go`) | limits on `users`, rows of `pending_limit_changes` | SetLimits, CancelPending, ApplyDue | reconciler; read by payments |
| trusted merchants (`internal/risk/trusted.go`) | rows of `trusted_merchants` | Upsert, List, Delete, EffectiveCap | read by payments |
| mandates (`internal/mandates`) | rows of `mandates`, at most one default per user | InitMandate, VerifyMandate, SetDefault, Revoke | Paystack; read by payments |
| sign-in (`internal/auth`) | rows of `otp_requests`, `users` | RequestOTP, VerifyOTP | sessions |
| sessions, devices, lock (`internal/http/auth_middleware.go`, `devices.go`, `me.go`) | rows of `device_sessions`, `users.status` | authenticate, revoke one, revoke all others, lock (nothing unlocks) | every handler |
| rate limiter (`internal/http/rate_limit.go`) | a counter per subject in Redis | INCR, then EXPIRE by the call that created the counter | the two `/v1` groups of routes |
| push (`internal/push`) | rows of `push_tokens` | register, revoke; three kinds of notice: list, send to each handset, prune those Firebase disowns | sign-in, lock, payments; Firebase |
| Paystack client, health, bank directory (`internal/paystack`, `internal/http/banks.go`, `status.go`) | the recent outcomes of a process; the directory in Redis and in memory | charge, transfer, verify, refund; `record`, `Snapshot`; `GET /v1/banks` | payments, reconciler, mandates; Redis |
| kyc, audit | their own rows | one statement per request; append | nobody decides on them |
| server, configuration, seed | none | wiring | |

What is hard about it, and the properties that make each part correct:

* **payments.** The timer and the reconciler's fast tick run the same release;
  the undo asks Paystack for a refund *before* it changes the row; handlers die
  with the client's connection, and so does their cleanup; a deploy loses all
  timers. A payment must never be transferred twice, an undone payment never
  transferred, nothing may be settled that was not sent, nothing may stay held,
  and every payment must come to an end.
* **webhooks.** Late, repeated, out of order or lost; the handler writes back a
  status it read some statements earlier, and counts ledger entries that the
  orchestrator may be inserting. They must not bring back an undone payment.
* **reconciler.** Works from listings that grow stale while all others go on,
  the reconciler of another server instance among them. A refund it has recorded
  must be its last.
* **ledger.** Two INSERTs per payment. It must not show money that never moved.
* **tokens.** Many requests may claim one token, or one request be retried with
  the same idempotency key. A token must back one payment at most, and end.
* **limits.** Raising one takes a cooldown. No interleaving of requests,
  cancellations and the sweep may raise a limit any sooner. A cap on a trusted
  merchant that changes under a request must not let a payment past the limit.
* **mandates.** Choosing the default is two statements, verifying a mandate is
  three; requests that do either at the same time must leave one default.
* **sign-in, sessions, lock.** A sign-in that is under way opens its session after
  a lock has revoked all it saw, and a lock may revoke none. Whoever is shut out
  must stay out nevertheless.
* **rate limiter.** A counter and its TTL are two calls of Redis, with other
  calls counted in between. A window must not be put off by those who run into
  it, and a counter without an end would refuse for good.
* **push.** A notice works from rows listed earlier, in a loop in which each send
  may fail. It must neither take away what was registered meanwhile nor stop
  at a handset that is gone.
* **health, bank directory.** Outcomes are appended out of the order of their
  times; the directory in memory has no lock. The report must count what is
  recent, and a process that has a directory must not come up without one.

`PROJECT.json` lists these hazards line by line, each with its property.

## 2. Modules

| module | models | state and actions |
|---|---|---|
| `Payments` | payments from the INSERT on, webhooks, the reconciler's hold, stuck and auto-refund jobs, ledger, the ends of a token, on several server instances; Paystack and the clock around them | below |
| `Escrow` | abstract: where the money of a payment may go | `escrow[p]`: open, held, lapsed, sent, returned |
| `Lifecycle` | abstract: which status may follow which | `status[p]` |
| `Voucher` | abstract: what becomes of a token, and which payments are made with it | `life[t]`, `paid[t]` |
| `Intake` | tokens, and requests up to the INSERT: idempotency, claim, limits; the caps on trusted merchants | rows of tokens, payments and caps; `at[r]`, the next statement of request r |
| `Limits` | sending limits: SetLimits, CancelPending, ApplyDue | limits, rows of pending changes, each request's next statement, the sweep's listing |
| `Mandates` | VerifyMandate, SetDefault, Revoke and the two unique indexes | rows of mandates; `call[r]`, the next statement of request r |
| `Access` | RequestOTP, VerifyOTP, AuthMiddleware, devices, the lock; the handlers of `Mandates` behind them | rows of codes, users, sessions; `at[x]`, the next statement of request x |
| `RateLimit` | the fixed-window limiter and the errors of Redis | a counter and a TTL per subject; the calls about to send EXPIRE |
| `Push` | push tokens and the notices sent to them | rows of push tokens; what each notice has still to send to and to remove |
| `Api` | calls that pass the limiter and register, deregister or notify: `RateLimit` and `Push` composed | `at[c]`, the next step of call c |
| `Rail` | the health window of the Paystack client, the bank directory | outcomes, the directory in memory and in Redis, each call's next step |
| `MCPayments`, `MCIntake`, `MCLimits`, `MCAccess`, `MCApi`, `MCRail` | instances for TLC: symmetry sets, values | |
| `PaymentsProofs`, `PaymentsLife`, `PaymentsEscrow` | theorems about `Payments`, each module on top of the one before | |
| `IntakeProofs`, `LimitsProofs`, `AccessProofs`, `ApiProofs`, `RailProofs` | theorems about the others | |

`Payments` **implements** `Lifecycle` (property `FollowsLifecycle`) and `Escrow`
(`ImplementsEscrow`), `Intake` **implements** `Voucher` (`ImplementsVoucher`).
`Intake` also **uses** `Lifecycle`: once it has inserted a
payment, the row moves by `Life!Moves`, any of them at any time. That is how the
two are composed: what `Intake` shows holds whatever the orchestrator, the
webhooks and the reconciler do to the rows, as long as they keep to the moves
that `Payments` was checked against. Token rows are composed the same way:
`Intake!EndToken` lets a payment settle or fail its token at any time and as
often as it likes, which is what `Payments!SetToken` does. `Voucher` therefore
promises that only a payment settles a token, and not in which end it stays.

### Payments

A goroutine is a **thread**: `Request` (Create or Refund), `Timer` (the hold's
`time.AfterFunc`), one per undo request and per webhook delivery, and each
`Server`, as a thread, is the goroutine of its reconciler. `Host` says which
instance a payment's request, an undo or a webhook came in at.
`pc[t][p]` is the statement or the Paystack call that thread t makes next for
payment p. Each action is one of those, with the code around it up to the next,
so TLC interleaves threads wherever the program can be interrupted.

* *Database*: `row`, `token`, `ledger`. The statements of
  `sqlc/queries/payments.sql` are operators with their names. Only four of them
  look at the status they replace (`HoldPayment`, `ReleaseHeldPayment`,
  `MarkPaymentRefunded`, and the listings); the others overwrite it, and so do
  their operators.
* *Paystack*: `ps[p]`, what Paystack knows of the charge and the transfer, and
  how many transfers and refunds it was asked for. Its answers are read from
  there; a transfer it accepted is `pending` until it succeeds, fails or is
  reversed. This part is external and modelled by how the code uses it.
* *Time*: `clock[p]`: whether the hold window is open, whether `updated_at` is
  ten minutes or a day old (`quiet`), whether `created_at` is a day old
  (`aged`). Only these thresholds are ever compared in the code.
* *Memory*: `pc`, `tokenless` (threads with `tok == nil`), `seen` (the status a
  webhook read and will write back), `armed` (`holdTimers`), `job` and `batch`
  (each reconciler's loop and its listing). `Crash(s)` loses all of it on server
  s, and leaves the other servers at work.

The refund of a settled payment runs the same `orchestrate` on a row of its own,
so it is one of the kinds of `Create`.

Left out: amounts, names, references (one bit each: set or not), push messages,
audit events, logging. `charge_status` is `success` whenever `charge_reference`
is set, and `transfer_status` is written and never read.

### Intake

A request's steps are the statements of Create up to `CreatePayment` (idempotent
lookup and mandate, claim, receiver, the limit of a transaction, that of a day,
insert, failing the token) or those of Refund. Amounts matter here, as small
numbers; `lapsed` and `recent` stand for `expires_at` and the 24 hours of
`SumUserSentLast24h`. `cap` holds the rows of `trusted_merchants`; `Upsert` and
`Delete` change them at any time, also between a request's check and its INSERT.
Mandates only appear as a reason for a request to end early.

### Limits

A request's steps are the statements of SetLimits: load, cancel the pending
change, then update the user or insert a new change. The sweep is three: list,
update the user, mark the row.

### Access and Mandates

`Access` instantiates `Mandates` (`M`): a request that has passed AuthMiddleware
may be one of its handlers, and then `M!Step` moves it. `Mandates` has no Next of
its own, since nobody reaches it but through the middleware. A user is known by
his phone number, a JWT is the session it names, and the code somebody types is
the row it was sent for (or 0, a guess). `barred` remembers, for the property
only, whether a request came in after its session was revoked or its user
locked.

### Api, RateLimit and Push

`Api` instantiates both (`L`, `P`): a call is counted for its user by
`L!Hit`, sends `L!Expire` if it created the counter, and what is let in runs a
handler of `Push`. A sign-in notifies the user's other handsets and is not counted here (its
limiter, by address, is the same code with other subjects). `ttl` runs down
in two moves of the clock. `todo[c]` is what is left of the rows that notice c
has listed and `disowned` what it is about to remove: tokens Firebase does not
know (`dead`), and tokens it does know but for which it refused the message in
one of the words `isUnregistered` looks for (`refused`, either way of `SendErrs`).
`Errs` is a call whose client goes away; every call of Redis, the database or
Firebase may err.

### Rail

`log` is every outcome appended since the process started and `first` where
`Health.outcomes` now begins in it, so pruning is a move of `first`. `Stamp`
and `Record` are two steps because `record` reads the clock before it waits for
the mutex. `memory` is the slice `h.cache` by its words: assigning it is two
writes (`Save`), in either order, since nothing synchronises it with its
readers. An answer of Paystack is a list with banks, a success without any
(`Empty`: an empty or missing `data`, or a list of which the filter leaves nothing),
or an error. `filled` remembers, for the property only, that a call came in when
memory had a directory and that no `Empty` was written there since.

## 3. Runs

Passing runs, and what each one is for:

| run | instance | shows |
|---|---|---|
| `PaymentsUndo` | 1 payment, 2 servers, 2 undo requests, 2 faults | `TypeOK`, `TransferOnce`, `UndoneIsUnsent`, `HeldIsUntouched`, `SettledWasSent`, `UndoIsKept`: undo, timer, request and two reconcilers race for one row, and take up what a fault in each other's work left |
| `PaymentsFinish` | 1 payment, 1 server, 1 undo, 1 webhook, 1 fault, fair | `SettledWasSent`, `LedgerIsBacked`, `PairsAreCounted`, `RefundIsFinal`, `ImplementsEscrow`, `FollowsLifecycle`, `HoldsEnd`, `PaymentsFinish`: late webhooks neither settle what was not sent, nor book what they could see was booked, nor undo a refund, and everything ends |
| `IntakeTokens` | 1 token, 2 requests, 2 keys, 2 payments, 1 user who sets caps, 1 fault | `TypeOK`, `TokenHasOneHolder`, `NoneAboveTxLimit`, `ExpiredIsFinal`, `ImplementsVoucher`, `StaleTokensEnd` |
| `LimitsRaise` | 1 user, 2 requests, 2 changes, 4 levels, 2 faults | `TypeOK`, `LimitsAreGranted`, `PendingEnds` |
| `AccessLock` | 1 user, 2 sign-ins, 2 sessions, 3 requests, 2 mandates, 2 codes, 1 fault | `TypeOK`, `BarredDoNothing`, `DefaultRemains` |
| `ApiCalls` | 2 users, 2 sessions, 2 handsets, 2 calls at a time, 2 calls per window, 1 fault | `TypeOK`, `OrphansAreFaults`, `WindowsAreFixed`, `RegisteredStays`, `NobodyIsSkipped` |
| `RailStatus` | 2 calls at a time, 2 directories and the empty one, 3 outcomes, 1 restart | `TypeOK`, `StatusIsExact`, `PickerStaysFilled` |

Runs that TLC must find violated. Each states what a comment or a declaration in
the code says, and finds it not kept; `PROJECT.json` quotes the lines:

| run | property | what happens |
|---|---|---|
| `BugLedgerMissing` | `SettledIsBooked` | the reconciler settles what a dead request had transferred, and writes no ledger pair |
| `BugUndoTwice` | `UndoneOnce` | two undo requests refund one charge |
| `BugLedgerTwice` | `BookedOnce` | a webhook counts no entries, the request inserts its debit, and both write a pair; nothing has to fail |
| `BugTwoInstances` | `RefundIsFinal` | two servers list one payment for auto-refund, and the second refunds it after the first has recorded its refund |
| `BugDayLimit` | `WithinDayLimit` | two payments pass the day's limit before either is inserted |

Where the code also departs from what it says, or is weaker than one would expect,
without a run of its own:

* a transfer settles its payment when Paystack accepts it, and a rejection that
  arrives afterwards finds a settled payment and is dropped
  (`internal/payments/webhook.go:82`; no comment promises otherwise);
* a token whose payment could not be marked failed, the client having gone away,
  stays `claimed` (`internal/payments/service.go:659`): the sweep only expires
  unclaimed ones;
* `isUnregistered` (`internal/push/service.go:167-172`) looks for "not-found" and
  "invalid-argument" anywhere in an error, so an answer about the message removes
  a registration that is alive, where `:152-153` means "unregistered / invalid
  tokens"; `RegisteredStays` makes this its one exception;
* an answer of 200 with an empty or no list of banks, or one of which the filter
  leaves nothing, is a success (`internal/paystack/client.go:108-113`), is written
  over the directory in memory (`internal/http/banks.go:61`), and the next outage
  is answered 502, where `:24` has the memory so that there is no "empty picker";
  `PickerStaysFilled` makes this its one exception;
* an EXPIRE that is lost leaves a counter that refuses for good, where
  `internal/http/rate_limit.go:12-14` has windows that end and `:49-50` would
  fail open (nothing else leaves one: `OrphansAreFaults`);
* nothing calls `RevokePushTokensForSession`, although `internal/push/handler.go:47-48`
  says that revoking a session revokes its push tokens;
* a handset that signs in again is told of its own sign-in, its row being bound to
  the earlier session (`internal/push/service.go:100-102` excludes "this device");
* an error of VerifyTransfer is taken for a transfer that has not landed, so a
  payment that arrived may be refunded as well (`internal/jobs/reconciler.go:144`);
* `ErrAlreadyRefunded` (`internal/payments/service.go:48`, answered in
  `handler.go:142`) is never returned: a settled payment can be refunded in full
  again and again;
* `internal/http/banks.go:52-53` means to drop inactive banks and drops those
  without a code; `:44-45` means to answer from memory "even if it's empty" and
  answers 502;
* `internal/paystack/health.go:14` has outcomes "newest at the end", which
  `record` does not keep. `StatusIsExact` shows that it does not matter.

### Bounds

* **One payment in the runs of `Payments`.** Threads of different payments share
  nothing but the reconciler's loop and a webhook delivery (which is for one
  payment), and neither writes to a payment it is not visiting. The theorems of
  section 4 are for any number.
* **Two servers** in `PaymentsUndo`: payment and undo requests come in at different
  ones, and either may crash. `PaymentsFinish` has one, since `RefundIsFinal` and
  `ImplementsEscrow` do not hold for two (`BugTwoInstances`).
* **Two undo requests**, since an undo's rival is another undo or one of the
  three senders, which are always there. **One webhook delivery**: it may be
  any event that Paystack has had reason to emit, at any time.
* **MaxFaults.** A fault is a statement or call that errs, a crash, or a client
  that goes away. Two are enough for a fault in what recovers from a fault.
* **Two requests, two keys, two payments** in `Intake`: a race for one token,
  a retry with the same key, a payment and its refund. `Amount` {2, 3}
  with `TxLimit` 2, `DayLimit` 3 and caps of 1 and 3 lets each of the three limits
  refuse, and has a cap below and one above the limit. Only the payer sets caps.
  A `violation` run has just what its counterexample needs.
* **Two changes and levels 0..3** in `Limits`: a lower, an equal and a higher
  value than either initial limit, and a change that replaces another.
* **Three requests** in `Access`: a lock, a revocation of the locker's own
  session meanwhile, and one that comes in barred; or two that verify mandates
  and one that chooses the default. Users only share code, so one is enough.
* **Two calls at a time** in `Api`, each followed by others without bound: one
  that was let in and one that comes in meanwhile. A limit of two tells the call
  that creates a counter from one that is let in and one that is refused.
* **Four outcomes, of which three are kept for two ticks**, in `Rail` (no call
  begins when there are three, but two may be under way): enough for one to be
  appended behind a younger one, for both to age, for one to be cut by the
  capacity, and for the report to be an outage or fine; `Few` is 2.
* `quiet` stops at 2, a day: the code compares with nothing longer.

Deadlock is checked in `ApiCalls`, where calls come in for ever. In the other
runs it is not (`CHECK_DEADLOCK FALSE`): the instances have finitely many payments, requests or outcomes, and when all have
ended the model stops. That nothing is left hanging is what `HoldsEnd`, `PaymentsFinish`, `StaleTokensEnd`
and `PendingEnds` say instead.

Symmetry is used for interchangeable requests, calls, sign-ins, sessions, mandates,
users, handsets and lists, in runs without liveness properties only. `PaymentsUndo` and
`ApiCalls` have action properties (`[][A]_vars`) beside it: TLC checks these on each
transition it generates, and they treat the permuted values alike.

### Fairness

* *Goroutines* (`HandlersRun`, weak): one that has a statement to run runs it.
* *The reconciler* (`ReconcilerRuns`): its `select` chooses at random among
  tickers that are ready, so a tick that is due again and again is taken
  (strong fairness for the start of a job); its goroutine then goes on (weak).
* *Time passes* (strong: `TimePasses` waits for a moment when no handler is at
  work on the row, and such moments come and go).
* *Paystack* does not leave a charge or a transfer pending for ever (weak, for
  `ChargeResolves` and `TransferResolves` only). Whether it succeeds is left open,
  and so is whether a success is later taken back (`ChargeTurns`,
  `TransferReverses`: no fairness): normally it is not, and a payment may not
  depend on it to come to an end.
* *Webhooks* are not assumed to arrive.
* Faults are finite: a database that fails for ever lets nothing finish.

## 4. Proofs

Every theorem is about `Spec` without fairness, for any values of the constants
that satisfy the module's assumption: any number of servers, payments, requests,
calls and so on, and any number of faults. Two of them have hypotheses, which
they state: `OneServer` (one instance of the server, and `SlowHandlers` FALSE) and
`OneUndo` (one undo request). `BugTwoInstances` and `BugUndoTwice` show that
without them the two are false. For each component `TypeCorrect`
(`Spec => []TypeOK`) is proved, and then:

| module | theorem | property |
|---|---|---|
| `PaymentsProofs` | `SenderIsAlone` | `RightToSend`, the inductive invariant |
| | `NeverSentTwice` | `TransferOnce` |
| | `UndoneWasNotSent` | `UndoneIsUnsent` |
| | `HeldStaysPut` | `HeldIsUntouched` |
| | `SettledMeansSent` | `SettledWasSent` |
| | `UndoneStaysUndone` | `UndoIsKept` |
| `PaymentsLife` | `LedgerStaysBacked` | `LedgerIsBacked` |
| | `PairsStayCounted` | `PairsAreCounted` |
| | `ImplementsLifecycle` | `FollowsLifecycle`, a refinement |
| `PaymentsEscrow` | `EscrowIsKept` | `ImplementsEscrow`, a refinement, under `OneServer` |
| | `RefundsAreFinal` | `RefundIsFinal`, under `OneServer` and `OneUndo` |
| `IntakeProofs` | `OneHolderEver` | `TokenHasOneHolder` |
| | `ExpiredStays` | `ExpiredIsFinal` |
| | `LimitHolds` | `NoneAboveTxLimit` |
| | `VoucherIsKept` | `ImplementsVoucher`, a refinement |
| `LimitsProofs` | `NeverRaisedEarly` | `LimitsAreGranted` |
| `AccessProofs` | `BarredStayOut` | `BarredDoNothing` |
| | `OneDefaultStays` | `DefaultRemains` |
| `ApiProofs` | `EveryCounterEnds` | `OrphansAreFaults` |
| | `WindowsStayFixed` | `WindowsAreFixed` |
| | `RegisteredStay` | `RegisteredStays` |
| | `NobodyIsForgotten` | `NobodyIsSkipped` |
| `RailProofs` | `StatusStaysExact` | `StatusIsExact` |
| | `PickerIsNeverEmptied` | `PickerStaysFilled` |

Assumptions. `PaymentsAssumption`: the bound is a natural number, the sets of
threads are disjoint, each payment, undo and webhook has a host; handlers may be as
slow as they like, except where `OneServer` is assumed. `IntakeAssumption`: limits, amounts and caps are numbers, tokens
and payments have different names. `LimitsAssumption`: amounts are numbers, a user
starts with valid limits. `AccessAssumption`: numbers for the bounds, kinds of requests are disjoint.
`ApiAssumption`: the limit is at least one. `RailAssumption`: a capacity of at
least one, numbers for the age and the bounds; the lists, the empty answer and the
error differ.

**`RightToSend`.** `TransferOnce` is not inductive: it says nothing of the threads
that are about to send. `RightToSend` adds that. A thread has the right to send
when it is on its way from the charge or from a successful `ReleaseHeldPayment`
to `InitiateTransfer`. At most one thread has it, before anything was sent, and
while it does the row is neither held nor settled nor refunded, so that no other
thread, of whatever server, finds a way in (`SendersAreAlone`). Everything else
that a thread might act on (a transfer reference, a settled row or token, ledger
entries, a webhook's or a reconciler's step behind such a reference) is *evidence*
of a transfer, and there is evidence only where exactly one was made, of a charged
payment (`TransferEvidence`). Most steps are shown harmless at once: `Keeps(p)`
says that a step starts no thread on that way and leaves no new evidence (lemma
`KeepsInv`). The few that do (SaveCharge, Hold, Release, Load, Transfer,
SaveTransfer, Undo's steps, the webhook's) have a lemma each.

**`PaymentsLife`** adds `Books`: a thread that books has a transfer reference
behind it, a row with a charge reference is past `initiated`, nobody works on a
payment that was not inserted (`LifeInv`), and credits plus threads between the
debit and the credit do not exceed debits (`PairInv`). Each step is then `Works`
(one thread takes one payment on, by a move of `Lifecycle`) or `Rests`.
That there is one pair before a webhook comes in, and a whole one in the end, is
`BookedInv`. Whoever has just sent a payment is alone and finds no transfer
reference in its row (`SaverInv`, from `RightToSend` and `TimerInv`: a timer is
armed once and fires once), so no other thread books before a webhook does
(`SinglePair`); and while nothing has erred every debit has its credit or a thread
about to write it, and a transfer on record is booked or about to be (`WholePairs`).
`PairsStayCounted` looks at who gets to `debit`: the one thread with a transfer
just recorded, which excludes an earlier debit, or a webhook whose count is zero.

**`PaymentsEscrow`.** That money goes back only when nobody sends it rests on the
clock, not on a statement: the auto-refund reads `created_at` and no right to
send. So `RightToSend` is joined by `Returns`. A handler is done, and the window
closed, before its payment is a day old (`Prompt`); a window is opened once
(`HeldOnce`); what the one reconciler is refunding, or has listed for that, is a
day old and has not been refunded, and it takes a payment from its listing only
once (`GivingBack`); and a row that names a refund is neither held nor on anybody's
way to the receiver (`GivenBack`). `GivingBack` is where a second server breaks in:
its listing would outlive what the first one records. A step is either `Steady`
(it changes no refund and no age, and only a thread with the right to send sends)
or one of a few shapes with a lemma each (`BackShapes`): the clock, the holding of
a payment, an undo's refund, a reconciler's. An undo that refunds again what an
undo has refunded is a stutter of `Escrow`, so `EscrowIsKept` holds for any number
of them; `RefundsAreFinal` adds that an undo about to ask for a refund works on a
row that names none (`UndoInv`), which two undos break.

**`LimitsProofs`.** `LimitsAreGranted` says that what a user has was granted. What it
lacks is that the same holds of what is about to be written: by a request that
decided to lower the limits from an older reading (`LowersToGranted`), and by the
sweep from an older listing (`DueIsRipe`). With these, `LimitsInv` is inductive,
because a grant is never taken back: rows are not deleted or amended and a
cooldown that is over stays over (`ChangesGrow`, `GrantedStays`). That is why a
request may act on a stale reading and still not gain anything by it.

**`IntakeProofs`.** Types need `Wellformed`: what a request or a payment refers to is
in the database, and at each step it is known whether that is a token or a
payment. `OneHolder(t)` says, besides what `TokenHasOneHolder` does, that a
request and a payment never hold a token together, and that a token that is free
(claimable, expired, not issued) is held by none. Only two steps make a holder:
`Claim`, whose conditional UPDATE finds a free token and leaves it claimed, and
`CreatePayment`, where the payment takes over from the request. All others make
none and free no token (`NoNewHolder`). `ExpiredStays` follows: whoever writes the
status of a token without looking at it holds it. `LimitHolds` adds that a
request past the check of the limit is within it (`LimitInv`), and stays so
because neither rows nor requests change their amounts (`TokenAmountsKept`,
`PaymentAmountsKept`, `AmountKept`): the caps may do what they like.
`VoucherIsKept` needs one thing more: a token that a request holds is still
`claimed` (`Held`). It is so because only its holder ends a token, and there is only
one; without it a request might fail, or pay with, a token that was ended
meanwhile, since neither MarkTokenFailed nor CreatePayment looks. What a step is to
the tokens is then one of a handful of cases (`Effect`), each an action of
`Voucher`.

**`AccessProofs`.** `BarredDoNothing` says that a barred request changes nothing. It
is inductive only with the reason (`BarredOnes`): its session stays revoked, since
nothing revives one, or its user locked, since nothing unlocks one, and only then
does it get as far as the second check. The rest of `AccessInv` is what the types
need: a code's request and a session are known while somebody refers to them.
`DefaultRemains` only speaks of a user whose requests have returned. While they
run, two statements of SetDefault, or three of VerifyMandate, may leave no default;
`DefaultInv` says that then one of the calls under way is about to set one, or to
insert one (`Chosen`), that there are never two (`OneDefault`, the unique index), and that
the mandates in the table come from calls that have returned (`Recorded`), so that
no INSERT finds its code taken as long as each is verified once. A step of a call leaves other users'
mandates alone (`OthersSpared`), and each statement has a lemma.

**`ApiProofs`.** At most one call waits to send EXPIRE for a user, and while it does
the counter is there and has no TTL (`Windows`). So EXPIRE never meets a window
that is running, and a counter without an end has nobody waiting only if
something erred. A token about to be pruned is dead, and dead tokens stay so, or
the call about to prune it had its message refused (`DisownedWithReason`).

**`RailProofs`.** What has been cut is beyond the capacity or too old, and stays so
because a stamp is never later than the clock (`WindowOK`): a clock that lags
cuts too little, never too much, and `Snapshot` filters again. For the directory,
an error is never written, and of what is written, word by word, a list with banks
leaves a directory where there was one, while one without ends every claim to it
(`DirectoryOK`, `SaveStep`).

Only model-checked: liveness (`HoldsEnd`, `PaymentsFinish`, `StaleTokensEnd`,
`PendingEnds`), since fairness is beyond the prover. Every other property of a
passing run is a theorem. The sum of a day's
payments and `Report` are opaque to the proofs: none of the theorems depends on
what they compute, only on what they are computed from.

## 5. Assumptions and what is not modelled

* *A statement that errs has not run.* One whose answer is lost after it
  committed is the statement followed by `Disconnect` or `Crash`. Calls to
  Paystack that err may or may not have been carried out, and so may an INCR.
* *Slow handlers.* With `SlowHandlers` FALSE, as in all runs, no ten minutes pass
  between two steps of a request, an undo, a webhook or a timer; their calls have
  timeouts of thirty seconds. A reconciler has no such bound. `ImplementsEscrow`,
  `RefundIsFinal` and the liveness properties rest on it: a request that slept
  through the day after which its payment is refunded automatically would still
  transfer it. Of the theorems only `EscrowIsKept` and `RefundsAreFinal` assume it.
* *`RefundIsFinal` is for one server and one undo.* With two undo requests
  `UndoneOnce` fails, and the second refund may come after the first is recorded;
  with two servers see `BugTwoInstances`. By the same way a payment that one
  server is releasing after an outage of a day is refunded by the other.
* *A refund that was made and not recorded* is made again a day later: nothing in
  the row tells.
* *Listings are complete and unordered*; the `LIMIT 50` is not modelled.
* *Reading a listing is one step*, and a reconciler decides on a row as listed;
  the age of a payment without references is read at the listing.
* *A webhook for a reference the row does not have yet* is acknowledged and
  lost, which is the same as one that never comes. Signatures and JSON are left
  out.
* *The default mandate* is lost, and `DefaultRemains` does not say otherwise,
  when a statement fails between the two of SetDefault, when a mandate is revoked
  or one is named that is not the caller's, and when one authorization is
  verified twice at the same time: the second unsets the default of the first
  and then fails on the unique index.
* *Concurrent guesses* of a code share one reading of `attempts`, and two
  requests may use one code before it is marked. Both happen in `Access`; the
  code states no bound that a property could hold it to.
* *A lock* does not revoke every session: one opened by a sign-in under way
  survives it, and if the locker's own session was revoked meanwhile all do.
  `BarredDoNothing` is what holds: the status keeps them out.
* *A cancelled limit change* may still be applied by a sweep that has listed it
  before; `LimitsAreGranted` says that it was ripe, not that it was still wanted.
* *Left out of sign-in*: the magic code of development, the purpose of a code,
  the expiry of a JWT, `last_seen_at`.
* *Limits of a user* are constants of `Intake`: a request reads them once, with
  the user, before its claim, and `Limits` is about when they may change.
* *Notices* in `Api` have no content, and a notice of a payment is sent by the
  call that made it; `Send` is the answer Firebase should give, `SendErrs` any other
  error. The server's own shutdown is `Errs` of each call.
* *The bank directory*: when two writers race, a reader may see the array of one
  list with the length of another; what Go makes of an array shorter than the
  length is not modelled. `list` reads the slice twice on an error (`banks.go:45-46`);
  in `Rail` that is one step.
* *A ledger pair* is the only one until a webhook comes in (`LedgerIsBacked`); with one,
  there may be a pair of its own for each (`BookedOnce` fails), but none once
  the debit can be seen (`PairsAreCounted`), unless the count errs, which the
  handler takes for zero.

**Not modelled:**

* `kyc`: one call of a provider and one UPDATE per request, on columns nothing
  else writes or decides by.
* `audit`: appends whose errors are logged; nothing reads them back into a
  decision.
* The rest of the HTTP server (routing, health and version endpoints, JSON),
  configuration, logging, conversions: no state.
* `cmd/server`: wiring; what matters of it, a reconciler per instance, is in
  `Payments`. Its shutdown is a `Crash`.
* `cmd/seed`: fills a development database.
* Reads for the client (`GetPayment`, activity, lists of devices, mandates,
  merchants): they change nothing and nothing depends on when they are made.

## 6. Plan

Done: all of the above. What could still be added:

1. `Intake` over `Mandates`: a mandate that is revoked after `validatedMandate`
   and before it is charged.
