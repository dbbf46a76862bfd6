# FireISP 5.0 in TLA+

FireISP is an operations platform for Internet providers: a Node.js/Express API
with scheduled workers over MySQL, optional Redis queues, an embedded RADIUS
server, FreeRADIUS SQL tables, RouterOS devices and payment, e-mail, SMS and
WhatsApp providers. This directory holds TLA+ models of the parts whose
correctness depends on the order of things: requests and workers that overlap,
external calls made after a commit, crashes between two statements, and retries.
TLC checks them on small instances, and TLAPS proves the main properties
for every size.

Paths below are relative to the repository (`src/` of the map in `PROJECT.json`).

## Files

| module | what it is |
| --- | --- |
| `ServiceLine` | one PPPoE service line: contract, test window, RADIUS account, credentials, session, installation order |
| `WebhookOutbox` | one row of the webhook outbox with its workers, sweeps and administrators |
| `TrapOutbox` | one row of the SNMP trap forwarding outbox |
| `DurableDelivery` | what an outbox row promises; `TrapOutbox` implements it |
| `CircuitBreaker` | the breaker around every external call |
| `TaskDispatch` | the scheduler, its lock and the in-process job queue |
| `BillingCycle` | the billing windows of one contract |
| `Receivables` | payments, invoices and the allocations between them |
| `GatewayPayments` | card payments through a hosted provider: checkout, charges, retries, webhooks, refunds |
| `Dunning` | suspension rules, the daily task, and reconnection after a payment |
| `*Proofs` | the theorems about the module of that name; those about `CircuitBreaker` are in `GatewayPaymentsProofs`, and the one about `DurableDelivery` in `TrapOutboxProofs` |
| `MC*` and their cfg files | the instances; a cfg without a run in `PROJECT.json` is a counterexample described below |
| `PROJECT.json` | components, runs, mutations, the map from definitions to source lines, hazards, theorems |

To check a run: `tlc -config MCServiceLine.cfg MCServiceLine`.
To check proofs: `tlapm ServiceLineProofs.tla`.

## The system

### Inventory

| component | state | operations | talks to |
| --- | --- | --- | --- |
| Commissioning test window (`testWindowService`) | `test_window_expires_at`, `test_window_cleanup_pending` | start, complete, end, sweep, finalize | RADIUS rows, RouterOS, CoA |
| Activation and orders (`contractActivationService`, `lifecycleService`, `workOrders`) | `first_activated_at`, service orders, visits, commissioning evidence | prepare, start, complete, cancel, renew, retry | contract, RADIUS, router push |
| Contract routes | `contracts.status`, `deleted_at` | PUT, delete, restore, renew, terminate | the shutdown of the test window |
| Suspension (`suspensionService`) | `suspension_logs`, `contracts.status`, `radius.status` | evaluateRules, suspend, soft suspend, walled garden, reconnect | CoA, invoices |
| RADIUS (`radiusService`, `radiusServerService`) | `radius`, `radcheck`, `radreply`, `radusergroup`, sessions | sync, admit, account, disconnect | NAS |
| Webhook outbox (`webhookService`) | `webhook_deliveries`, `webhooks` | dispatch, claim, deliver, sweep, redeliver | job queue, endpoints |
| Job queue (`jobQueueService`, workers) | Redis or an in-process array | add, take, retry | every outbox |
| Trap forwarding (`trapForwardingService`) | `snmp_trap_forwarding_deliveries`, rules | prepare, claim, send, recover, sweep | job queue, destinations |
| Receivables (`routes/payments`, `paymentAllocationService`, `billingService`) | invoices, payments, allocations, ledger | allocate, reallocate, reassign, unapply, delete, restore, void | suspension |
| Billing cycle (`billingService`, invoice routes, `auto_invoice`) | `billing_periods`, invoices | open a window, bill it, bulk generation | contracts, ledger |
| Gateways, retries, autopay (`checkoutService`, `paymentGatewayService`, `paymentRetryService`) | `payment_transactions`, `payment_retries`, `webhook_events` | checkout, charge, reconcile, retry, refund | provider, ledger, invoices |
| Scheduler (`scheduler`, `taskRunner`) | task rows, a cache lock with a TTL | acquire, run, release, enqueue | cache, job queue, every periodic task |
| Circuit breaker (`utils/circuitBreaker`) | failure count, time of last failure | call, getState, reset | every provider |
| Tenancy, auth, SSO | organizations, tokens, sessions | scope, log in, rotate | everything |
| Inventory, IP pools, CPE, polling, tunnels | stock, leases, device state | assign, poll, configure | devices |
| CFDI, SNII, PROFECO, consent, retention | documents, batches | build, stamp, freeze, purge | authorities |
| GraphQL, reports, front end, deployment | none of their own | read, render | everything |

`PROJECT.json` lists them all, with what is modelled of each and why the others
are not.

### What is hard here

* **A commit is only half of a shutdown.** The database forgets a line's
  credentials in a transaction; the router's local secret and the live session
  go afterwards, by calls that time out, fail separately and outlive the request.
  A durable marker and a five-minute sweep carry the other half through.
* **Nothing holds a lock during an external call.** Whatever a handler read
  before it may be false after it: a line may have been activated, reopened or
  deleted.
* **Some handlers use no transaction.** `radius_sync`, PUT of a contract and
  `/terminate` are a row of autocommit statements.
* **Claims outlive their owners.** An outbox worker may be slow rather than dead:
  its lease goes stale, a second one claims the row, both report.
* **Revocation is not a lock.** Endpoint and organization may change, and change
  back, while a worker holds a row; in an isolated tenant the organization's
  trigger does not even reach the row.
* **Payments and dunning race.** Allocation, invoice status, suspension and
  reconnection are separate statements of separate requests.
* **The provider speaks when it likes.** Its events come late, twice, at once and
  in any order, beside the request or the retry that caused them.
* **A unique key is the last word.** Two workers that both saw no open window, no
  allocation or no event row are told apart by the INSERT that fails.
* **One run of a batch serves everybody.** A lock with a TTL and an ownerless
  release decides who runs it, and an error in the middle ends it for the rest.

The hazards are listed one by one, at their lines, in `PROJECT.json`; some more
stand under "Further hazards" below.

## ServiceLine

### State and actions

One contract of a PPPoE type with one live RADIUS account. The variables are the
columns the handlers read and write (`status`, `activated`, `deleted`, `expires`,
`marker`, `radius`), what a dial-in can be admitted by (`rows` of FreeRADIUS,
`secret` on the router), the `session`, the `bound` of the last
Expiration/Session-Timeout handed out, the newest installation order with its
visit (`install`, `tested`), and `job[p]`: the work request or worker `p` has left
after its last commit.

Every transaction of these handlers locks the contract row first, so it is one
action. What follows the commit is one action per external call or statement:

| action | code |
| --- | --- |
| `PrepareActivation`, `StartOrder`, `CancelVisit` | `prepareActivation`, `startOrder`, work-order cancellation |
| `CheckVisit`, `CompleteVisit` | `commissioningGateError`, then the transaction that completes the visit |
| `StartWindow`, `CompleteWindow`, `EndWindow` | the technician's window |
| `SweepSelect`, `SweepClean` | the SELECT of `sweep`, the transaction for a selected row |
| `DeleteSecret` … `Settle` | `finalizeMarkedCleanup`: router, disconnect, bound, marker |
| `CancelOrder`, `CancelUnprepared`, `ResetToPending`, `DeleteContract`, `ChangeType` | the handlers that shut a line down in their own transaction |
| `CompleteOrder`, `Renew`, `RetryPush`, `Push` | permanent service |
| `Suspend`, `Reconnect` | `suspendContract`, `reconnectContract` |
| `ReadForUpdate`, `ReadForTerminate`, `WriteStatus`, `UpdateRadius`, `Kick` | PUT and `/terminate`, statement by statement |
| `SyncRead`, `SyncDelete`, `SyncPassword`, `SyncLimit` | `syncFreeradiusTables` for one account |
| `Dial`, `HangUp`, `Elapse`, `Crash` | the subscriber, the clock, the process (external) |

A timestamp is kept as its relation to NOW(). Three Boolean constants span the
deployments: with a NAS or without (`HasNas`), with an archived identity of the
same contract (`Archived`), with the `radius_sync` task (`Syncs`). `Forms` are the
statuses the body of a PUT may name. A body that names the status the handler has
just read passes its gates, and still writes that status by id at the end; so
'active' and 'pending' come from a form that was shown the line in that status, and
land on whatever the line has become since.
Gates that merely refuse a request (permissions, signatures, links of plan and
client) are left out: a refusal changes nothing.

### Properties and runs

| run | instance | shows |
| --- | --- | --- |
| `line` | two processes, no NAS, `radius_sync` | `NoServiceBeforeActivation`: nothing but `completeOrder` gives permanent service to a line that was never commissioned |
| `line_serial` | one process, NAS, `radius_sync` | `IdleLineIsDark`: a released marker means no credential and no session |
| `line_converges` | two processes, NAS, three forms, fairness | `BoundedUntilActivated`: all access before activation carries the window's bound; `CleanupConverges`: a pending cleanup completes once routers answer, the stray marker of a finalizer that lost its race included |

Bounds. The state space is finite without any: the line cycles through its
states for ever, and the only parameter is the number of processes. Two are
enough for every pair of handlers to overlap, and with a crash one process can
start any third job in between; the theorems cover any number. Processes are
interchangeable, so `line` uses symmetry; runs with temporal properties do not.
`line` and `line_serial` take a PUT of every status; `line_converges` takes
'pending', 'active' and 'cancelled' only, one of each kind, and reaches the other
statuses through `Suspend` and `/terminate`.
No run sets `Archived`: such a line keeps its marker for good by design (manual
reconciliation), and the theorems do cover it.

"Counterexamples" below lists what other cfg files of this module refute.
Two more counterexamples:

* `IdleLineIsDark` fails with two processes. `radius_sync` reads a
  line inside its window, the window is closed and released, and the sync writes
  the rows back; the sweep no longer looks. A push that read an active line may
  land the same way after a termination, deletion and cleanup.
* An active contract may carry the cleanup marker, which the comment at
  `testWindowService.js:828` calls impossible: delete marks the cleanup, the
  process dies, restore and renew bring the contract back. The sweep then clears
  the marker without touching the line.

Fairness. `WF` of every job step: database and network calls carry timeouts, so
a started handler goes on or dies. `SF` of the sweep's selection: it is scheduled
every five minutes and orders by the last attempt, so no line is left out for
ever. `CleanupConverges` assumes in its own premise that routers eventually answer
and processes eventually stop crashing; without that no retry loop can promise
anything.

### Proofs

`ServiceLineProofs` assumes only that the three constants are Booleans and that forms
name statuses.

`Inv` is inductive under every interleaving, for any set of processes. Next to
the type it needs three ideas: work that is about to grant permanent service
(`push`, a sync that read an active line, a form about to write 'active') exists only
after activation (`ActivationInv`, `JobInv`); expiry, bound and
session agree about the clock (`ClockInv`); and without `radius_sync` no job
writes a password row on its own (`BoundInv`). From it follow `LineTypeCorrect`,
`ServiceNeedsActivation` and, for `~Syncs`, `WindowIsBounded`.

`SInv` adds that one handler at a time has work left (`Serial`), what the line keeps
then (`LineInv`: a marked line is disabled, an activated one is never pending), and
what the single job in flight may rely on (`FlightInv`): a cleanup in
progress has its marker or concerns a line that was live, a positive
confirmation still holds when it is acted on, a sync of a pending line still
finds its window. These facts are false when handlers overlap, as the runs and
the counterexamples above show, so `ReleasedLineIsDark` carries the hypothesis
`[][TakesTurns]_vars`: no request or sweep begins while another handler has work left
after its commit. Crashes, failed calls and the subscriber are not restricted, and
`SerialNext` derives `Serial` from it. The theorem also assumes `HasNas \/ ~Syncs`:
without a NAS the elapsed
bound is the only confirmation, and a session admitted through an unbounded
password row outlives it.

## WebhookOutbox

### State and actions

One delivery row, the webhook and the organization it belongs to, and `job[p]`,
where request, worker or sweep `p` stands between two SQL statements. Rows do
not interact: each statement names one row or treats the rows one by one. Each
statement is one action, and does to a row that somebody else has changed
meanwhile exactly what its WHERE clause says.

| action | code |
| --- | --- |
| `ReadOwner`, `ReadTarget`, `InsertDelivery` | `dispatch` |
| `TakeJob`, `Claim`, `DropMismatch`, `CheckOwner`, `Terminalize` | `claimDurableWebhookDelivery` |
| `Post`, `SetOutcome` | `deliverDurableWebhook`, `setDurableWebhookOutcome` |
| `SweepRevoked` … `SweepRoute` | `processCurrentDatabaseRetries` |
| `Redeliver` … `ResetDeadLetter` | `redeliverDeadLetter` |
| `UpdateWebhook`, `DeleteOrRestoreWebhook`, `ChangeOrganization` | administrators, with the triggers of `schema.sql` |
| `Ripen`, `LoseJob`, `Crash` | clock, queue and process (external) |

`fresh` and `claims` belong to the properties: whether the webhook is as it was
when the row was queued, and how often it was claimed since. The queue is a single
bit, a job with this row's id is waiting: `add` may fail, a job may be lost,
and that of a dead worker may come back. `Isolated` says whether the organization's
trigger reaches the row.

### Properties and runs

| run | instance | shows |
| --- | --- | --- |
| `outbox` | two processes, two endpoints, isolated tenant, two organization changes, `max_retries` 1 | `PostsAreCurrent`: nothing is posted that was revoked or moved before its claim, a change and change back included; `BoundedClaims`: at most `max_retries` + 2 claims per queueing; `SuccessIsFinal` |
| `outbox_settles` | two processes, one endpoint, shared database, fairness | `DeliverySettles`: every delivery ends as success or dead letter |

Bounds. `MaxRetries` 1 already tells the first attempt, the last one and its
recovery apart; the theorems cover every value. `MaxEpoch` bounds the lifecycle
changes of the organization: two reach away and back. A second endpoint is needed
for the A-to-B-to-A change; the liveness run has one endpoint, where moving is
still a pause and a resume of the webhook. The two databases differ in one
trigger only; `outbox` takes the harder, isolated one.

Fairness. `WF` of each statement and post (they carry timeouts) and of the clock;
`SF` of the sweep's first statement (the `webhook_retry` task keeps coming, and
finds a free worker again and again), of an enqueue that succeeds and of a worker
that takes the job: a queue that refuses or loses every single job delivers
nothing. `DeliverySettles` lets every *attempt* kill its worker for ever, which is
what the recovery counter is for; only sweeps and requests must eventually stop
dying. A webhook that stays paused keeps its row in `retrying`, hence the premise
that it keeps coming back into service.

`SuccessIsFinal` names one exception: the refusal of a redelivery updates the row
by id without asking for its status, so it may overwrite a success that a
second request's redelivery reached during the DNS lookup.

### Proofs

`WebhookOutboxProofs` assumes that `NoToken` is no process, that `Url` is not
empty, and that the bounds are naturals. `Inv` is the type and five parts:
nobody works on a row before its INSERT (`StageInv`); a row that can still be
claimed is unchanged since it was queued, or revoked (`FreshInv`), which is the
revocation protocol itself; whoever holds a claim that is no longer current will
see a newer epoch at the second look (`CurrentInv`); claims are the sum of the
two counters, and an unclaimed row has an attempt left (`CountInv`); and the
owner of the current token remembers the attempt the row shows (`HolderInv`).
From it follow `PostsStayCurrent`, `ClaimsAreBounded`, `SuccessStays` (an action
property) and `OutboxTypeCorrect`.

## CircuitBreaker

One breaker object and any number of callers. A JavaScript function is atomic,
`call()` is not: it awaits between the check and the record. Time is the age of
the last failure, saturated one past the cooldown: `isOpen()` is its only reader.
The failure counter has no limit, as in the code; `MaxFailures` bounds the
instance by ending the admission of calls, and a call under way always settles.
`probe`, `probed` and `streak` belong to the properties.

* `breaker` (three callers, threshold 2, cooldown 2, at most seven failures): a call
  is refused only after a full streak of failures whatever order overlapping calls
  settle in (`OpenMeansOutage`); until a cooldown has let a probe through, an outage
  costs at most threshold - 1 failed calls and one for each caller, because those
  already past the check are the whole overrun (`OverrunBounded`); and calls are
  always let through again (`CircuitReopens`, although
  stragglers restart the cooldown). Fairness: the clock advances and every
  awaited call settles.
* `MCCircuitBreakerProbe.cfg` refutes `SingleProbe`: after the cooldown every caller
  is let through, not one.

A threshold of 2 is the smallest with a partial streak; three callers leave one
to probe while two stragglers settle, and seven failures are enough for an overrun of
four and a round of failed probes after it. `BreakerTypeCorrect`,
`BreakerOpensOnOutage` and `BreakerOverrunBounded` are proved for every finite set of
callers and all thresholds, cooldowns and bounds; the second rests on the invariant
that counter and streak agree (`BreakerInv`), and `OverrunBounded` is inductive as it
stands: an admission is the only step that adds a call, and one that is no probe finds fewer
failures than the threshold. They stand at the end of `GatewayPaymentsProofs`, which
extends both modules: every call to a gateway goes through a breaker
(`paymentGatewayService.js:26`). The two specifications share no variable, which is why
the breaker's carries names of its own (`BreakerInit`, `BreakerNext`, `BreakerSpec`).

## TrapOutbox and DurableDelivery

### State and actions

`trapForwardingService` writes the outbox protocol a second time, with other rules:
a forwarding rule and a registered webhook both decide the destination, a changed
destination cancels, the claim itself settles an exhausted recovery, and two more
checks stand between claim and send. The state is one row of
`snmp_trap_forwarding_deliveries` with its rule, its webhook, its organization and
`job[p]`, as in `WebhookOutbox`. `fresh`, `sends` and `accepted` belong to the
properties.

| action | code |
| --- | --- |
| `Prepare`, `InsertDelivery` | `prepareTrapDeliveries`, `queueTestDelivery` |
| `TakeJob`, `CancelUnclaimed`, `Preflight`, `Claim`, `Reread` | `attemptDelivery` up to the claim it holds |
| `CheckOwner`, `CheckSource`, `CheckWebhook`, `SendTrap`, `SetOutcome` | the rest of it; loading or decrypting the webhook may throw, which costs the attempt without a request |
| `SweepRevoked`, `SweepUnavailable`, `SweepLifecycle`, `SweepSelect` | `processRetries` |
| `ChangeRule`, `ChangeWebhook`, `ChangeOrganization` | administrators, with the triggers of `schema.sql` |
| `Ripen`, `LoseJob`, `Crash` | clock, queue and process (external) |

### Properties and run

`trap` (two workers, a direct address and a webhook endpoint, two attempts, one
change of the organization; 871,312 states): `SendsAreCurrent`: what is sent was
claimed before anything changed under the row. `ImplementsDelivery`: the whole
machinery refines `DurableDelivery`, in which a delivery is queued, sent at most
`Budget` times and settled once; it counts as delivered only if some request was
accepted, and what is settled never changes. The mapping takes the row's status to
`phase` (`Phase`) and `max_attempts` + 1 to `Budget`: one crash recovery may send
once more. `sends` and `accepted` map to themselves.

Bounds. Two attempts tell first, last and recovery apart; `IsTest` only widens what
a paused rule may send. The run checks safety, so it uses symmetry over workers.
Settlement is not promised: `MCTrapOutboxStranded.cfg` shows a row that nothing
will ever look at again.

### Proofs

`TrapOutboxProofs` assumes that `Proc` is finite, `NoToken` no process, `Hook` no
direct address, `Url` not empty and `max_attempts` at least 1. `Inv` is the type
and five parts: nobody works on a row before its INSERT (`StageInv`); a row that can
still be claimed is unchanged or revoked (`FreshInv`); whoever is past the second
look holds a current claim, and before it a stale one shows in the epoch
(`CurrentInv`); success is written only after an accepted request (`AnswerInv`); and
the requests sent, plus the processes that may still send for a claim they made, are
at most the sum of the row's two counters (`BudgetInv`). The sends alone are not
bounded inductively: a recovery counts up while the old owner may still be on its
way to the socket. From `Inv` follow `TypeCorrect` and `SendsAreCurrentHolds`.

`Refinement` proves `Spec => ImplementsDelivery`: `ProcRefines` and `OutsideRefines`
take each action of a process and of its surroundings to a step of `DurableDelivery`
or a stutter. `BudgetInv` gives the guard of its `Send`, `AnswerInv` that of its
success, and the row's terminal statuses its finality.

## TaskDispatch

One node, with either of the two ways a cron callback runs its task: under a lock in
the memory cache (no `REDIS_URL`), or through the in-process queue (`REDIS_URL`
without bullmq), and the manual run of an operator. A callback is atomic between two
awaits that leave the process. `lock` is the time the key has left, `run` the inline
runs, `pending`, `work` and `wakeup` are the queue's array, its jobs at work and
`drainScheduled`. `TickLocked`/`RunEnds` are `acquireLock` … `releaseLock`,
`ManualRun` is the route (it takes no lock), `TickQueued`, `Drain` and `JobEnds` are
`InProcessQueue.add`, its `setImmediate` callback and the `finally` of a job;
`Elapse`, `Evict` and `Restart` are the clock, the cache's size limit and the
process.

Run `dispatch` (two organizations with a task of one name, one more task, two inline
runs, two workers, capacity 3, TTL of two clock steps; 57,121 states):

* `OneRunAtATime`: runs of one task name stay apart as long as no run outlived the
  TTL and no lock was evicted. The premise is necessary and the ghost `loose`
  carries it: `releaseLock` deletes the key without asking who owns it, so after one
  slow run later quick ones overlap as well.
* `QueuedOnce`: a minute's job neither waits twice nor runs twice.
* `LockFrees`, `QueueMoves`: a hanging run does not block its task for ever, and no
  wakeup of the queue is lost.
* `TypeOK` includes the capacity, which waiting and running jobs share.

Fairness: the clock, the `setImmediate` callback and the end of a job. Runs under
the lock may hang for ever.

The model shows, and no property forbids: the lock's key holds no organization, so
organizations with a task of one name wait for each other; a full queue drops the
tick and the error is logged as a duplicate; jobs of two minutes may overlap; the
`attempts` option has no effect in process.

`TaskDispatchProofs` proves the first two and the capacity for every set of tasks,
names and slots, every TTL, concurrency and capacity; it assumes finitely many
workers. `OneRunAtATime` is not inductive: a tick is refused because the key exists,
which says nothing of the run that took it. `LockInv` ties the two, the key's
remaining time is the TTL minus the age of the one cron run of that name, for as
long as `loose` is false. `UniqueInv` gives a minute's job one place, in line or at
work; it needs that `Drain` moves a prefix of the line to free workers
(`DrainFacts`, `RankFacts`).

## BillingCycle

The windows of one contract, known by `period_start`, with their status and
`scheduled_at`. Each process is at a statement `pc` of the route `via`, holding the
window `pick`. `Begin` starts `auto_invoice`, a request that bills (`generate`,
`bulk-generate`), one that only opens a window (`generate-period`), or an invoice
with items; `FindPending`, `FindLast`, `InsertPeriod` are `generateBillingPeriod`,
`GenerateInvoice` and `InvoiceItems` the two transactions that bill,
`InsertCalendarMonth` the bulk route. `Abort` is a crash or a rollback.

Time counts half months, which is enough for a contract that starts in the middle of
one and a billing day in either half. Month lengths (and the overflow of `setMonth`
at day 31) are abstracted away.

Run `billing` (the task and one request, start in the middle of a month, four
half months, one fault):

* `BilledOnce`: `generateInvoice` bills a window at most once, and a billed window
  never becomes pending again.
* `Tiled`: windows follow each other without gap or overlap, and none is opened
  before its predecessor is billed, unless the bulk route put a calendar month in.
* `PendingIsBilled`: a pending window is billed in the end, or the contract is not
  active. Fairness: the clock, the cron entry, and statements that return.

The exceptions are the code's: the invoice with items sets its window to `invoiced`
without looking at its status, and the bulk route inserts calendar months whatever
the contract's own windows are. A retried `generate` request bills the next month.
The status `skipped` is never written, and no caller of `generateBillingPeriod` sets
`contract._plan`, so its check for a trial never applies.

`BillingCycleProofs` proves the first two and the types for any set of processes,
every start, billing day and calendar; it assumes that the contract starts within
the calendar. `BilledOnce` and `Tiled` need `PickInv`: a request acts on a window it
read some statements ago, and what of that still holds is that a window about to be
billed has a row, and one about to be inserted follows its predecessor. That is
stable because no row goes away and none leaves `invoiced` (`RowsGrow`,
`FollowsStays`).

## Receivables

Two payments and two invoices of a client with the live allocation of each pair
(`alloc`), the soft-deleted ones (`dead`), the rows of `client_balance_ledger`
(`credit`), `payments.amount`, the invoice status, the row lock of a payment
(`holder`) and `job[q]`. `crashed` and `lowered` (payments an edit left with less than
is allocated) belong to the properties.

| action | code |
| --- | --- |
| `CreatePayment`, `RecordCredit` | POST /payments |
| `EditPayment` | PUT and PATCH /payments/:id: the amount, without a look at the allocations |
| `Allocate`, `AllocateCheck`, `AllocateInsert`, `FinalizeRead`, `FinalizeWrite` | POST /payments/:id/allocate, statement by statement, the triggers' read and the INSERT apart |
| `AutoBegin`, `AutoCommit` (`Share`) | allocate-auto: the snapshot, then the waterfall over the open invoices |
| `BillingAllocate`, `BillingCredit`, `BillingCommit` | POST /billing/allocate-payment: any number of allocations in a transaction, the credit on a connection of its own, the commit |
| `Reallocate`, `Unapply`, `Reassign` | the transactions of those names |
| `RefreshRead`, `RefreshWrite` | `refreshInvoicePaidStatus` after them |
| `DeletePayment`, `RestorePayment`, `ReverseCredit`, `ListTouched`, `BuryAllocations`, `ReviveAllocations`, `RecordCreditAgain` | deletion and restoration, statement by statement |
| `VoidInvoice`, `CancelInvoiceForSat`, `SettleTerminal`, `SettleWrite`, `ReleaseInvoiceAllocations` | the terminal states; the settlement's read and its UPDATE apart |
| `Crash` | the process |

Run `receivables` (one request at a time, amounts 2 and 1 against totals 2 and 1, the
second invoice stamped, with crashes between statements or one edit of an amount;
3,085,647 states): `NoOverAllocation`, no invoice takes more than its total and no
payment is spent beyond its amount; `PaidIffCovered`, an invoice is paid exactly when
it is covered, whatever was moved, unapplied, deleted and restored before;
`LiveIsCredited`. The latter two hold between requests as long as none died
half-way: the code repairs nothing after a crash. `MaxBuried` bounds the pairs with a
soft-deleted allocation to two, which reaches unapply, re-allocate and delete of the
same pair; `MaxCredit` saturates the ledger count; the constraint `CrashOrEdit` keeps
crashes and edits to behaviours of their own.

`EditPayment` may leave a payment spent beyond its amount, and the triggers do not
look at that table (`MCReceivablesEdited.cfg`); `NoOverAllocation` excepts the payments
for which it did (`lowered`), until another edit makes up for it. What is left to
check is that nothing else adds an excess around an edit, no invoice passes its total,
and statuses follow the allocations. One edit, to any amount and to zero, lowers or
raises it before or after anything else; several edits, and edits beside crashes, are
covered by the theorems.

Requests ask for positive amounts. `/allocate` also takes 0, `/reallocate` and
`/billing/allocate-payment` any number (`payments.js:411`); what a row of zero or less
does to the sums is not modelled.

With two requests that overlap `NoOverAllocation` fails (`MCReceivablesRace.cfg`): the triggers sum
the other allocations without a lock, so two INSERTs both see room.

Other facts the model makes visible: `POST /billing/allocate-payment` credits the
ledger once more and looks neither at a deleted payment nor at a terminal invoice;
restoring a payment also revives what had been unapplied before its deletion;
while a payment is spent beyond its amount the BEFORE UPDATE trigger refuses every
soft-delete of its allocations, so unapplying and moving them fail, and deleting the
payment removes it and its credit but leaves the allocations live; a crash between
the INSERT and `finalizeIfFullyPaid` leaves a covered invoice `issued`;
the SAT cancellation of a partly paid invoice keeps its live allocations.
`TerminalStays` states the comment at `routes/invoices.js:24` ("A terminal invoice is
immutable") and is broken by the first two of these.

### Proofs

`ReceivablesProofs` proves the four invariants for any number of processes, for finitely
many payments and invoices (the rows of a client) and for all amounts, totals, edits
and bounds. `ReceivablesTypeCorrect` holds of `Spec` as it stands. The other three
theorems (`NeverOverAllocated`, `StatusFollowsMoney`, `PaymentsStayCredited`) have the
hypothesis `[][OneAtATime]_vars`: a request begins only when no process has work left.
They need it, as `MCReceivablesRace.cfg` shows for the first; crashes are not
restricted. `SingleProcessIsSerial` shows that the hypothesis is free with one process,
which is what the run checks.

*Sums.* Balances are folds over a finite set, and the library's induction theorems
cannot be instantiated here. Their place is taken by a minimal counterexample: strict
inclusion is well-founded on the subsets of a finite set, so if a law of sums failed
there would be a smallest subset on which it fails (`MinimalSubset`, `HasMinimal`), and
taking one element out of it gives the contradiction. This yields the defining
equation of `SumFunctionOnSet` (`SumEquation`), that any element may be taken out first
(`SumTakeOut`), monotonicity, additivity, and what a change of one term does
(`SumOneTerm`). `Waterfall` uses the same argument on the invoices that come first by
issue date: an initial part of them gets what it lacks or, if that is more, all that is
left. So the shares together never pass the rest of the payment.

*Invariant.* `Inv` is the type, `NoOverAllocation` and

* `Alone`: at most one process has work left;
* `SightInv`: what a request read in an earlier statement still holds when it writes.
  The room the trigger saw is still there at the INSERT, the snapshot of the waterfall
  is the table, the lists of invoices to refresh after a deletion or a restoration are
  complete, the rows of an uncommitted billing request still fit, and coverage read is
  coverage now. Without it no write could be judged;
* `PaidInv`: every invoice is right or some process still owes it a status write
  (`Owes`). `PaidIffCovered` is the case where nobody owes anything;
* `CreditInv`: likewise for the ledger (`Credits`).

A step is proved from the side of its process: `InvFor(q)` is `Inv` when only `q` can
have work left, and `InvToProcess` and `InvFromProcess` lead there and back. TLC
checked `Inv` beforehand with one process and, with `OneAtATime` as a constraint
on steps, with two.

## GatewayPayments

Card payments of one client through Stripe. `tx` are the rows of
`payment_transactions`, `credit` and `debit` their ledger rows, `retry` the rows of
`payment_retries`, `event` those of `webhook_events`; `opened` and `happened` are the
provider's side, and `job[q]` what a request or task has left.

| action | code |
| --- | --- |
| `CreateCheckoutSession`, `StoreReference` | hosted checkout: row, provider, reference |
| `ChargeRecurringProfile`, `RecordCharge`, `ScheduleRetry` | autopay |
| `SelectRetries`, `ExecuteRetry`, `RetryEnds` | `retry_failed_charges` |
| `ReceiveEvent`, `InsertEvent`, `UpdateStatus`, `MarkSucceeded`, `CancelRetries`, `MarkRefunded`, `MarkOther`, `EventError` | the webhook handler, statement by statement; `reconcilePayment` and `reverseRefund` are transactions on the locked row |
| `Refund`, `RecordRefund`, `EndRefund` | refund by an operator |
| `ProviderActs`, `Crash` | provider and process (external) |

Events are delivered at least once, in any order and two at a time. An event has one
unique key. In the code the key includes `org_dedup`, the tenant of the route: an event
that the provider sends both to the global and to the per-gateway endpoint
(`paymentWebhooks.js:178-181`) is new on each and processed twice, and
`reconcilePayment` does not ask whether a payment was credited before
(`paymentGatewayService.js:851-856`). The model, and `CreditedOnce`, are about a
deployment that registers one of the two. Run `gateway`
(two processes, two transactions, one invoice, one fault, one retry task, one
attempt; 2,258,166 states): `CreditedOnce`, one credit and at most one reversal after
it per transaction; `PaidIffSettled`, a refund re-opens the invoice its payment
settled and never one that another payment holds paid; `ChargeBudget`, a retry row is
executed at most `max_attempts` times while one runner works.

Bounds. Two transactions are what a second checkout, an overpayment and a retry next
to its original need. `Watched` limits the provider's events to a capture and a refund
of the first and a capture and a failure of the second; the events of one
transaction do not touch another's rows except through the invoice and the retry.

What the code does besides, visible in the model: an event that arrives before its
reference is stored is recorded as unmatched for good; a refund that is reported
before its capture is never reversed; a late event overwrites a later status; retry
rows of a dead runner stay `processing`; two runners exceed `max_attempts`; autopay
charges an invoice again until the first charge's event arrives; a declined card is
never retried, because the error text written to the JSON column `raw_response` makes
the UPDATE fail and the row stays `pending`.

`GatewayPaymentsProofs` proves all four invariants of the run for any number of
processes (finitely many), transactions, invoices, amounts, attempts and faults, and
for every choice of `Watched`. `Inv` is the type and five parts:

* `EventInv`: whoever runs the statements of an event has its row in `processing`, and
  is the only one. This is what the unique key buys.
* `LedgerInv`: a credited payment's capture is `processed`. With `EventInv` the handler
  about to credit finds no credit yet, which gives `CreditedOnce`.
* `SettledInv`: what is not credited settled nothing, and at most one payment that
  stands settled an invoice. Without the latter a reversal could leave an invoice
  `issued` that another payment holds, so `PaidIffSettled` alone is not inductive.
* `RowInv`: only the process that made a charge can schedule its retry, and it finds no
  row; so `scheduleRetry` never resets the attempts of a row that was executed.
* `BudgetInv`, for one runner: executions are at most the attempts of a pending row, or
  those the runner read, plus one for the row in hand; the rows of a batch are
  distinct. The runner writes its own number back, so the row's column alone
  bounds nothing.

## Dunning

### State and actions

Contracts that were active before, with one invoice each: `status`, the RADIUS
account's `radius`, `open` (the kinds of `suspension_logs` rows that are not
restored), the invoice, the client's exemption, the day, and `job[p]`. "closed" is
expired, cancelled or terminated. `failed` counts task runs that did not reach their
end; `torn` are the contracts that a PUT left suspended without the rest of it, because
it died between two statements or wrote back a suspension that had been lifted since.

A PUT remembers the status it was shown (`was`). When its body names that same status
it passes the gate at `contracts.js:171`, skips account and log row (`:347`) and still
writes the status by id (`:341`).

| action | code |
| --- | --- |
| `StartTask`, `RunAuto`, `ReadRule` | `auto_suspend`, POST /suspension/run-auto, `evaluateRules` |
| `CheckEntry`, `SuspendContract`, `SuspendRefused`, `Restrict` | the loop over the list: exemption, hard, soft and walled-garden suspension, the trigger's refusal |
| `AskSuspend`, `AskReconnect`, `ReconnectContract`, `Lift` | suspension and reconnection by hand |
| `Pay`, `ReconnectIfSuspended` | `finalizeIfFullyPaid` and what follows it |
| `Settle`, `ReopenInvoice`, `SetExempt` | settlement without reconnection (gateway), re-opened invoices, exemption |
| `ReadForEdit`, `WriteStatus`, `WriteRadius`, `WriteLog` | PUT and /terminate, statement by statement |
| `Renew` | `renewPreviouslyActivated` |
| `Tick`, `Crash` | calendar and process (external) |

### Properties and run

Run `dunning` (two debtors, a suspension rule after one day with two days of grace and
a walled-garden rule after two, the daily task and two requests, one fault, two days;
342,011 states):

* `SuspendedLineIsCut`: a suspended line does not authenticate and has an open
  suspension row, unless a PUT is between its statements, died there or wrote back a
  suspension that was lifted since.
* `ClosedStaysClosed`: only renew, and a PUT that was shown the line in service and
  writes 'active' back, bring a closed contract back; a stale list of debtors, a late
  reconnection and every other PUT do not, and it never comes back suspended.
* `DebtorIsCut`: a rule looks at a debt on `grace_period_days` days only; the debtor
  is cut although runs fail, as long as fewer of them fail than that.

Bounds. Two contracts, so that the refusal of one can cost the other its turn; two
requests, so that one can pay and one close during a run; two days cover both rules'
windows, and a run that fails on the first is made up for on the second. Fairness: the day
passes when its task has ended, the task starts on it (cron
`0 6 * * *`), statements return.

Rules with `auto_disconnect` or `notify_only` do nothing in the loop. `walled_garden`
exists in migrated databases only (migration 227): `schema.sql` and the API's schema
do not list it. One paid invoice reconnects a line with others overdue. The PUT that
writes back what it was shown leaves account and log alone whatever happened since: a
stale 'active' over a suspension leaves an active contract with a suspended account,
a stale 'closed' over a renewal a closed one with an active account.

### Proofs

`DunningProofs` proves `SuspendedLineIsCut`, `ClosedStaysClosed` (an action property) and
the types (`SuspendedLineIsCutHolds`, `ClosedStaysClosedHolds`, `TypeCorrect`) for all
contracts, due days, rules, requests and days. `CutInv` says how far
a PUT has come: after the status the account is still owed, after the account the log
row. `SuspendedLineIsCut` forgets which of the two, and the step that writes the log
row could not tell that the account had been cut. `CronInv` and `FailInv` count the
scheduled runs.

## Counterexamples

These cfg files state what a comment or document says and TLC refutes it; they are
kept to be run by hand.

| cfg | property | says | the code |
| --- | --- | --- | --- |
| `MCCircuitBreakerProbe` | `SingleProbe` | `circuitBreaker.js:6`, "allows a single probe request through" | lets every caller through after the cooldown |
| `MCServiceLineReopened` | `MarkedLineIsDisabled` | `testWindowService.js:850`, "The fresh bound wins; never close it stale." | the finalizer of an old window marks the next one |
| `MCServiceLineUnbounded` | `BoundedUntilActivated` | `radiusService.js:64`, `:954` | between password row and Expiration row a pending line is admitted without a bound |
| `MCServiceLineActiveHit` | `CleanupSparesActive` | `testWindowService.js:804`, "never touches active service" | a finalizer takes secret and session of a line activated meanwhile |
| `MCServiceLineRedial` | `ClosedLineRefusesDial` | `suspensionService.js:213`, `docs/radius-setup.md:329` | the FreeRADIUS rows of a suspended line still admit it |
| `MCWebhookOutboxAttempts` | `AttemptsWithinMaxRetries` | `docs/webhook-events.md:231` | `max_retries` + 1 attempts, one more after a crash |
| `MCTrapOutboxStranded` | `RetryingIsScheduled` | `docs/snmp-trap-forwarding.md:242`, "another is scheduled" | a failed source check on the last attempt leaves `retrying` without an attempt left (`trapForwardingService.js:1181`, `:1219`) |
| `MCGatewayPaymentsLost` | `ErrorIsRetried` | `routes/paymentWebhooks.js:23`, "only a genuine downstream failure returns 500 (so the provider retries)" | the repeated event is a duplicate (`paymentGatewayService.js:858`) |
| `MCReceivablesRace` | `NoOverAllocation` | `schema.sql:7805`, "Prevent over-allocation" | the triggers sum without a lock (`:7818`) |
| `MCReceivablesEdited` | `PaymentCoversAllocations` | the same line | PUT and PATCH of a payment lower its amount below what is allocated (`routes/payments.js:67`) |
| `MCDunningGrace` | `GraceIsGranted` | `schema.sql:6450`, "Additional grace days after trigger before action is executed" | acts on those days and never after them; a rule with grace 0 never acts |
| `MCDunningOpenRow` | `OpenRowMeansSuspended` | `suspensionService.js:163`, "`restored_at IS NULL` reliably means 'still suspended'" | renew closes no row |
| `MCDunningStaleEdit` | `SuspensionIsOnRecord` | the same line, read the other way | a PUT that names the suspension it was shown writes it back after a reconnection, without a row (`contracts.js:341`) |
| `MCDunningFormReopens` | `NoFormTurnsServiceOn` | `contracts.js:168`, "No generic form may turn service on" | a PUT that was shown an active line writes 'active' over its suspension or termination |
| `MCDunningGarden` | `PaymentLiftsGarden` | `docs/freeradius/README.md:396`, "When the subscriber pays, `walledGardenReconnect()` clears" | it is called for suspended contracts only |
| `MCDunningSettled` | `SettledLineIsServed` | `docs/architecture.md:121`, a client who pays is reconnected | not when the payment falls between list and suspension, nor through the gateway |

## Further hazards

Met while modelling and not among those of `PROJECT.json`, which keeps to what the
properties are about: the cleanup's finalizer acts on a line activated meanwhile
(`testWindowService.js:413`); the FreeRADIUS rows of a suspended line stay
(`suspensionService.js:193`); `radius_sync` and a push write from a SELECT that a
shutdown has overtaken (`radiusService.js:743`); the bulk invoice route opens calendar
months beside the contract's windows and asks for no organization (`bulk.js:88`);
`generateBillingPeriod` continues after the latest window although an earlier one may be
missing (`billingService.js:537`); an invoice with items marks its window invoiced
without looking at its status (`invoices.js:925`); an allocation commits before
`finalizeIfFullyPaid`, and a crash in between leaves a covered invoice unpaid
(`payments.js:125`); amounts of zero or less are taken (`payments.js:411`); a failed source
check on the last attempt strands a trap (`trapForwardingService.js:1181`), and a webhook
event whose handler fails is a duplicate when it is repeated
(`paymentGatewayService.js:858`): the last two are among the counterexamples.

## What is only model-checked

`CleanupConverges`, `DeliverySettles`, `CircuitReopens`, `LockFrees`, `QueueMoves`,
`PendingIsBilled` and `DebtorIsCut` are liveness properties under fairness, which TLAPS
does not handle (nor ENABLED); they rest on TLC's instances. Every invariant and action
property of the passing runs is proved. Facts that would need induction over recursively
defined data are out of reach; no module here uses recursion, and what is needed of
sums over finite sets is proved without it (see `Receivables`).

Every property of a passing run has a mutation in `PROJECT.json`: a definition
next to the original, marked "A mutation", that changes one guard, reset or order
the way a slip in the code would, and under which TLC finds the property broken.

## What is not modelled

Of the modelled components: static and dual lines, whose commissioning has no
window; RADIUS attributes, pools, groups, MAB and accounting; work-order materials;
several nodes sharing a Redis, and BullMQ; edits of `max_retries` during a delivery;
retention; matching of traps to rules; card enrollment, chargeback rows and partial
refunds (which the code ignores); payment plans and their instalments; group billing,
late fees and adjustments; edits of an invoice's total or status, or of a payment's
status or currency, by PUT; allocations of zero or a negative amount; one provider event
accepted on two webhook routes. The functions
`deliverOnce`, `deliver` and `markDeadLetter` of the webhook service have no caller.

There is no composed specification. Three modules take a neighbour's steps on a shared
column as actions of their own, unrestricted by the neighbour's guards: `ChangeStatus`
in `BillingCycle`, `Settle` and `ReopenInvoice` in `Dunning`, `Suspend` and `Reconnect` in
`ServiceLine`. `Receivables` and `GatewayPayments` do not: both write `invoices.status`, and
each is checked on invoices that the other leaves alone. What happens to an invoice
with a manual allocation and a card payment is outside both.

Most of the repository is outside these models by its nature: the front end (about
half of the code), the OpenAPI document, reports, GraphQL views and CRUD routes keep
no state of their own; provider protocols, packet encodings, document layouts and prices
are data; migrations run once. The rest is on the plan.

## Plan

1. **Proofs**: facts about single steps beside the invariants: no step takes a
   processed event or an invoiced window back. What of `NoOverAllocation` is left when
   only the routes that lock the payment overlap.
2. **StampedDocument**: the life of a CFDI (draft, vigente, cancelled) against the void
   of its invoice.
3. **LateFees** and group billing, beside `BillingCycle`.
4. **SendQueues**: e-mail, SMS and WhatsApp queues, against `DurableDelivery`.
5. **LineAccess**: an abstract line (dark, in test, in service, draining) that the
   serial `ServiceLine` implements.
6. Candidates after that: IP pools and CGNAT leases, inventory, alerts, token rotation.
