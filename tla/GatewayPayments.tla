--------------------------- MODULE GatewayPayments ---------------------------
(***************************************************************************)
(* Card payments of one client through a hosted provider (Stripe):         *)
(* checkoutService (hosted sessions, autopay), paymentGatewayService       *)
(* (charge, refund, inbound webhooks, reconciliation) and                  *)
(* paymentRetryService.  The provider is external: it captures, declines,  *)
(* returns and disputes payments and delivers each event at least once, in *)
(* any order.  Database statements are autocommit except reconcilePayment  *)
(* and reverseRefund, which are transactions on the locked row.            *)
(***************************************************************************)
EXTENDS Integers, FiniteSets, FiniteSetsExt

CONSTANTS Proc,        \* requests and tasks in flight
          MaxRunners,  \* runs of retry_failed_charges at a time: the scheduler's lock keeps it at 1
          MaxTx,       \* rows of payment_transactions (a bound)
          Invoice,     \* the client's invoices, naturals in the order of due_date
          Total,       \* the total of each invoice
          MaxFaults,   \* crashes, failed statements and lost answers (a bound)
          MaxAttempts, \* MAX_ATTEMPTS of paymentRetryService
          Watched      \* the events of each transaction that can happen and are delivered (a bound)

ASSUME GatewayAssumption ==
    /\ IsFiniteSet(Proc)
    /\ MaxTx \in Nat /\ MaxRunners \in Nat /\ MaxFaults \in Nat /\ MaxAttempts \in Nat \ {0}
    /\ Watched \in [1..MaxTx -> SUBSET {"succeeded", "failed", "refunded", "disputed"}]
    /\ Invoice \subseteq Nat \ {0} /\ Total \in [Invoice -> Nat \ {0}]

VARIABLES tx,        \* payment_transactions
          credit,    \* credit rows of a transaction in client_balance_ledger
          debit,     \* its reversal rows there
          invoice,   \* the status of each invoice
          retry,     \* payment_retries, by the transaction it retries
          tries,     \* how often a retry row was executed (for the properties)
          event,     \* webhook_events: the status of each provider event
          opened,    \* transactions the provider knows of
          happened,  \* what the provider did with each, one event for each
          job,       \* what each process has left to do
          faults     \* faults so far, up to MaxFaults

provider == <<opened, happened>>
books == <<credit, debit, invoice>>
retries == <<retry, tries>>
vars == <<tx, credit, debit, invoice, retry, tries, event, opened, happened, job, faults>>

Tx == 1..MaxTx
NoInvoice == 0
Kind == {"succeeded", "failed", "refunded", "disputed"}
Event == Tx \X Kind
Absent == [status |-> "absent", ref |-> "none", source |-> "none",
           amount |-> 0, link |-> NoInvoice, settled |-> NoInvoice]
NoRetry == [status |-> "none", attempts |-> 0]
Idle == [pc |-> "idle"]

Free(q) == job[q] = Idle
Goto(q, next) == job' = [job EXCEPT ![q] = next]
Done(q) == Goto(q, Idle)
Fault == faults < MaxFaults /\ faults' = faults + 1
Fresh(t) == tx[t] = Absent /\ \A u \in 1..(t - 1) : tx[u] # Absent

Open == {i \in Invoice : invoice[i] = "issued"}
Oldest(is) == Min(is)

-----------------------------------------------------------------------------
Init ==
    /\ tx = [t \in Tx |-> Absent]
    /\ credit = [t \in Tx |-> 0] /\ debit = [t \in Tx |-> 0]
    /\ invoice = [i \in Invoice |-> "issued"]
    /\ retry = [t \in Tx |-> NoRetry] /\ tries = [t \in Tx |-> 0]
    /\ event = [e \in Event |-> "none"]
    /\ opened = {} /\ happened = [t \in Tx |-> {}]
    /\ job = [q \in Proc |-> Idle] /\ faults = 0

\* A pending row with a provisional reference, written before the provider is called.
InsertTx(t, source, amount, link, status) ==
    tx' = [tx EXCEPT ![t] = [status |-> status, ref |-> "provisional", source |-> source,
                             amount |-> amount, link |-> link, settled |-> NoInvoice]]

-----------------------------------------------------------------------------
(* Hosted checkout and payment links.  Nobody reads a row before the       *)
(* provider knows of it, so the INSERT and the call are one step.          *)

\* The session opens, or the call fails (refused, or its answer lost) and the
\* row says so, or the process dies with the row pending.
CreateCheckoutSession(q, i, t) ==
    /\ Free(q) /\ Fresh(t) /\ i \in Open
    /\ \/ /\ InsertTx(t, "session", Total[i], i, "pending")
          /\ opened' = opened \cup {t}
          /\ Goto(q, [pc |-> "reference", tx |-> t])
          /\ UNCHANGED faults
       \/ /\ InsertTx(t, "session", Total[i], i, "failed")
          /\ UNCHANGED <<opened, job, faults>>
       \/ /\ InsertTx(t, "session", Total[i], i, "failed") \/ InsertTx(t, "session", Total[i], i, "pending")
          /\ opened' = opened \cup {t}
          /\ Fault /\ UNCHANGED job
    /\ UNCHANGED <<books, event, retries, happened>>

StoreReference(q) ==
    /\ job[q].pc = "reference"
    /\ tx' = [tx EXCEPT ![job[q].tx].ref = "provider"]
    /\ Done(q)
    /\ UNCHANGED <<books, event, retries, provider, faults>>

-----------------------------------------------------------------------------
(* Charges: autopay of the oldest issued invoice, and the retry task.      *)

\* A charge knows the retry row it is made for, as the task read it, if any.
NoOrder == [retry |-> 0, attempts |-> 0, batch |-> {}]
Retrying(j) == j.pc = "batch" \/ (j.pc \in {"record", "retried"} /\ j.order # NoOrder)

\* charge() with the provider's part in it: what the provider learns of the
\* transaction, and the status it answers.  On an error charge() writes
\* err.message into the JSON column raw_response: MySQL refuses the UPDATE, the
\* row stays pending and the exception reaches the caller ("thrown").
Charge(t, answer) ==
    LET Learns(ks) == opened' = opened \cup {t} /\ happened' = [happened EXCEPT ![t] = @ \cup ks] IN
    \/ answer = "succeeded" /\ Learns({"succeeded"}) /\ UNCHANGED faults
    \/ answer = "pending" /\ Learns({}) /\ UNCHANGED faults
    \/ answer = "thrown" /\ Learns({"failed"} \cap Watched[t]) /\ UNCHANGED faults  \* declined
    \/ answer = "thrown" /\ UNCHANGED <<provider, faults>>          \* unreachable or circuit open
    \/ answer = "thrown" /\ Fault /\ \E ks \in {{}, {"succeeded"}} : Learns(ks) \* answer lost

Answer == {"succeeded", "pending", "thrown"}

\* The caller of charge() goes on when the row is written; autopay gives up on
\* an exception, the retry task counts a failure.
After(t, order, answer) ==
    IF answer # "thrown" THEN [pc |-> "record", tx |-> t, order |-> order, status |-> answer]
    ELSE IF order # NoOrder THEN [pc |-> "retried", order |-> order, status |-> answer]
    ELSE Idle

ChargeRecurringProfile(q, t) ==
    /\ Free(q) /\ Fresh(t) /\ Open # {}
    /\ LET i == Oldest(Open) IN
       \/ /\ InsertTx(t, "charge", Total[i], i, "pending")
          /\ \E answer \in Answer : Charge(t, answer) /\ Goto(q, After(t, NoOrder, answer))
       \/ /\ InsertTx(t, "charge", Total[i], i, "failed") \* the profile has no token
          /\ Goto(q, [pc |-> "schedule", tx |-> t])
          /\ UNCHANGED <<provider, faults>>
    /\ UNCHANGED <<books, event, retries>>

RecordCharge(q) ==
    /\ job[q].pc = "record"
    /\ LET j == job[q] IN
       /\ tx' = [tx EXCEPT ![j.tx].ref = "provider", ![j.tx].status = j.status]
       /\ Goto(q, IF j.order # NoOrder THEN [pc |-> "retried", order |-> j.order, status |-> j.status]
                  ELSE IF j.status = "succeeded" THEN Idle ELSE [pc |-> "schedule", tx |-> j.tx])
    /\ UNCHANGED <<books, event, retries, provider, faults>>

\* scheduleRetry: one live row for a transaction.
ScheduleRetry(q) ==
    /\ job[q].pc = "schedule"
    /\ LET t == job[q].tx IN
       retry' = IF retry[t].status \in {"pending", "processing"} THEN retry
                ELSE [retry EXCEPT ![t] = [status |-> "pending", attempts |-> 0]]
    /\ Done(q)
    /\ UNCHANGED <<tx, books, event, tries, provider, faults>>

\* A mutation: rows a dead task left in processing are due as well.
DueAgain == {t \in Tx : retry[t].status \in {"pending", "processing"}}

Due == {t \in Tx : retry[t].status = "pending"}

\* processPendingRetries: the due rows as they are now, executed one after the other.
SelectRetries(q) ==
    /\ Free(q) /\ Cardinality({p \in Proc : Retrying(job[p])}) < MaxRunners
    /\ \E due \in SUBSET Due \ {{}} :
          Goto(q, [pc |-> "batch", batch |-> {[retry |-> t, attempts |-> retry[t].attempts] : t \in due}])
    /\ UNCHANGED <<tx, books, event, retries, provider, faults>>

\* executeRetry marks the row whatever it has become and charges with no invoice;
\* without an active gateway charge() throws before its INSERT.
ExecuteRetry(q) ==
    /\ job[q].pc = "batch"
    /\ \E b \in job[q].batch :
          LET order == [retry |-> b.retry, attempts |-> b.attempts, batch |-> job[q].batch \ {b}] IN
          /\ retry' = [retry EXCEPT ![b.retry].status = "processing"]
          /\ tries' = [tries EXCEPT ![b.retry] = @ + 1]
          /\ \/ \E t \in Tx, answer \in Answer :
                   /\ Fresh(t)
                   /\ InsertTx(t, "charge", tx[b.retry].amount, NoInvoice, "pending")
                   /\ Charge(t, answer) /\ Goto(q, After(t, order, answer))
             \/ Goto(q, After(b.retry, order, "thrown")) /\ UNCHANGED <<tx, provider, faults>>
    /\ UNCHANGED <<books, event>>

\* A mutation: the last attempt is scheduled again.
RetryStatusLate(answer, n) ==
    IF answer # "thrown" THEN "succeeded" ELSE IF n > MaxAttempts THEN "exhausted" ELSE "pending"

RetryStatus(answer, n) ==
    IF answer # "thrown" THEN "succeeded" ELSE IF n >= MaxAttempts THEN "exhausted" ELSE "pending"

\* The end of executeRetry and handleRetryFailure: written whatever the row has become.
RetryEnds(q) ==
    /\ job[q].pc = "retried"
    /\ LET o == job[q].order
           n == o.attempts + 1
       IN  /\ retry' = [retry EXCEPT ![o.retry] =
                            [status |-> RetryStatus(job[q].status, n), attempts |-> n]]
           /\ Goto(q, IF o.batch = {} THEN Idle ELSE [pc |-> "batch", batch |-> o.batch])
    /\ UNCHANGED <<tx, books, event, tries, provider, faults>>

-----------------------------------------------------------------------------
(* Inbound webhooks.                                                       *)

\* The event's reference finds the row, or the transaction id in a session's
\* metadata does.  Refund and dispute events carry the payment intent, which is
\* the reference of a charge only, and refund() replaces that one.
Matches(e) ==
    LET x == tx[e[1]] IN
    IF x.source = "session" THEN e[2] \in {"succeeded", "failed"} ELSE x.ref = "provider"

\* handleWebhookEvent looks the event up; a known one is a duplicate, answered
\* with a 200 and nothing else, so only the first deliveries are steps.
ReceiveEvent(q, e) ==
    /\ Free(q) /\ e[2] \in happened[e[1]] \cap Watched[e[1]] /\ event[e] = "none"
    /\ Goto(q, [pc |-> "insert", event |-> e])
    /\ UNCHANGED <<tx, books, event, retries, provider, faults>>

\* The row of an event that matches stays in processing while its statements run.
Enter(q, e) ==
    IF Matches(e) THEN event' = [event EXCEPT ![e] = "processing"] /\ Goto(q, [pc |-> "status", event |-> e])
    ELSE event' = [event EXCEPT ![e] = "unmatched"] /\ Done(q)

\* A mutation: no unique key on the event.
InsertEventAgain(q) ==
    /\ job[q].pc = "insert"
    /\ Enter(q, job[q].event)
    /\ UNCHANGED <<tx, books, retries, provider, faults>>

\* The unique key refuses the second of two deliveries: a 500, and a duplicate
\* when it is delivered again.  The lookup of the transaction is the same step:
\* nobody but another delivery reads the new row.  The key's org_dedup part is
\* left out: one event has one key, as with one endpoint registered at the
\* provider.
InsertEvent(q) ==
    /\ job[q].pc = "insert"
    /\ LET e == job[q].event IN
       IF event[e] = "none" THEN Enter(q, e) ELSE Done(q) /\ UNCHANGED event
    /\ UNCHANGED <<tx, books, retries, provider, faults>>

\* The status is overwritten whatever it is: events arrive in any order.
UpdateStatus(q) ==
    /\ job[q].pc = "status"
    /\ LET e == job[q].event IN tx' = [tx EXCEPT ![e[1]].status = e[2]]
    /\ Goto(q, [job[q] EXCEPT !.pc = "mark"])
    /\ UNCHANGED <<books, event, retries, provider, faults>>

\* The invoice a captured payment settles: the linked one, or the oldest issued
\* one if its total is the amount; and whether the ledger is credited at all.
Target(x) == IF x.link # NoInvoice THEN x.link
             ELSE IF Open # {} /\ Total[Oldest(Open)] = x.amount THEN Oldest(Open) ELSE NoInvoice

\* A mutation: the intended invoice is recorded as the settled one.
SettledIntended(t, i) ==
    tx' = [tx EXCEPT ![t].settled = i]

\* Only the invoice this payment moved to paid is recorded as settled.
Settled(t, i) ==
    tx' = IF i \in Open THEN [tx EXCEPT ![t].settled = i] ELSE tx

ReconcilePayment(t) ==
    LET i == Target(tx[t]) IN
    IF i = NoInvoice THEN UNCHANGED <<tx, credit, invoice>>
    ELSE /\ invoice' = IF i \in Open THEN [invoice EXCEPT ![i] = "paid"] ELSE invoice
         /\ Settled(t, i)
         /\ credit' = [credit EXCEPT ![t] = @ + 1]

\* reverseRefund looks for a credit and for the debit of an earlier reversal.
Reversible(t) == credit[t] > 0 /\ debit[t] = 0

ReverseRefund(t) ==
    IF ~Reversible(t) THEN UNCHANGED <<debit, invoice>>
    ELSE LET i == tx[t].settled IN
         /\ debit' = [debit EXCEPT ![t] = 1]
         /\ invoice' = IF i \in Invoice /\ invoice[i] = "paid"
                       THEN [invoice EXCEPT ![i] = "issued"] ELSE invoice

\* The event is marked processed, then its books are written in one transaction;
\* one that fails is rolled back and logged.
MarkSucceeded(q) ==
    /\ job[q].pc = "mark" /\ job[q].event[2] = "succeeded"
    /\ event' = [event EXCEPT ![job[q].event] = "processed"]
    /\ \/ ReconcilePayment(job[q].event[1]) /\ UNCHANGED faults
       \/ UNCHANGED <<tx, credit, invoice>> /\ Fault
    /\ Goto(q, [job[q] EXCEPT !.pc = "cancel"])
    /\ UNCHANGED <<debit, retries, provider>>

CancelRetries(q) ==
    /\ job[q].pc = "cancel"
    /\ LET t == job[q].event[1] IN
       retry' = IF retry[t].status \in {"pending", "processing"}
                THEN [retry EXCEPT ![t].status = "cancelled"] ELSE retry
    /\ Done(q)
    /\ UNCHANGED <<tx, books, event, tries, provider, faults>>

MarkRefunded(q) ==
    /\ job[q].pc = "mark" /\ job[q].event[2] = "refunded"
    /\ event' = [event EXCEPT ![job[q].event] = "processed"]
    /\ \/ ReverseRefund(job[q].event[1]) /\ UNCHANGED faults
       \/ UNCHANGED <<debit, invoice>> /\ Fault
    /\ Done(q)
    /\ UNCHANGED <<tx, credit, retries, provider>>

MarkOther(q) ==
    /\ job[q].pc = "mark" /\ job[q].event[2] \in {"failed", "disputed"}
    /\ event' = [event EXCEPT ![job[q].event] = "processed"]
    /\ Done(q)
    /\ UNCHANGED <<tx, books, retries, provider, faults>>

\* A statement of the handler fails: the row says so, the provider gets a 500,
\* and what it delivers again is a duplicate.
EventError(q) ==
    /\ job[q].pc \in {"status", "mark"}
    /\ event' = [event EXCEPT ![job[q].event] = "failed"]
    /\ Fault /\ Done(q)
    /\ UNCHANGED <<tx, books, retries, provider>>

-----------------------------------------------------------------------------
(* Refunds by the operator.                                                *)

\* The provider returns a captured charge once, for its own reference; what it
\* answers is all that refund() takes from here on.
Refund(q, t) ==
    /\ Free(q) /\ tx[t].status = "succeeded"
    /\ tx[t].source = "charge" /\ tx[t].ref = "provider"
    /\ "succeeded" \in happened[t] /\ "refunded" \notin happened[t]
    /\ happened' = [happened EXCEPT ![t] = @ \cup {"refunded"}]
    /\ \/ Goto(q, [pc |-> "refunded", tx |-> t]) /\ UNCHANGED faults
       \/ Fault /\ UNCHANGED job    \* the answer is lost
    /\ UNCHANGED <<tx, books, event, retries, opened>>

RecordRefund(q) ==
    /\ job[q].pc = "refunded"
    /\ tx' = [tx EXCEPT ![job[q].tx].status = "refunded", ![job[q].tx].ref = "refund"]
    /\ Goto(q, [job[q] EXCEPT !.pc = "reverse"])
    /\ UNCHANGED <<books, event, retries, provider, faults>>

EndRefund(q) ==
    /\ job[q].pc = "reverse"
    /\ \/ ReverseRefund(job[q].tx) /\ UNCHANGED faults
       \/ UNCHANGED <<debit, invoice>> /\ Fault
    /\ Done(q)
    /\ UNCHANGED <<tx, credit, event, retries, provider>>

-----------------------------------------------------------------------------
(* The provider, and the death of a process.                               *)

ProviderActs(t) ==
    /\ t \in opened
    /\ \E k \in Watched[t] \ happened[t] :
          /\ k = "failed" => "succeeded" \notin happened[t]
          /\ k \in {"refunded", "disputed"} => "succeeded" \in happened[t]
          /\ happened' = [happened EXCEPT ![t] = @ \cup {k}]
    /\ UNCHANGED <<tx, books, event, retries, opened, job, faults>>

Crash(q) ==
    /\ ~Free(q)
    /\ Fault /\ Done(q)
    /\ UNCHANGED <<tx, books, event, retries, provider>>

-----------------------------------------------------------------------------
Step(q) ==
    \/ StoreReference(q)
    \/ RecordCharge(q) \/ ScheduleRetry(q)
    \/ ExecuteRetry(q) \/ RetryEnds(q)
    \/ InsertEvent(q) \/ UpdateStatus(q)
    \/ MarkSucceeded(q) \/ CancelRetries(q) \/ MarkRefunded(q) \/ MarkOther(q)
    \/ RecordRefund(q) \/ EndRefund(q)

Next ==
    \/ \E q \in Proc :
          \/ Step(q) \/ EventError(q) \/ Crash(q)
          \/ \E i \in Invoice, t \in Tx : CreateCheckoutSession(q, i, t)
          \/ \E t \in Tx : ChargeRecurringProfile(q, t) \/ Refund(q, t)
          \/ SelectRetries(q)
          \/ \E e \in Event : ReceiveEvent(q, e)
    \/ \E t \in Tx : ProviderActs(t)

Spec == Init /\ [][Next]_vars

\* Every process goes on and the provider delivers until it is answered.
FairSpec ==
    /\ Spec
    /\ \A q \in Proc : WF_vars(Step(q))
    /\ \A e \in Event : WF_vars(\E q \in Proc : ReceiveEvent(q, e))

-----------------------------------------------------------------------------
(* Properties.                                                             *)

TxRow == [status : Kind \cup {"absent", "pending"}, ref : {"none", "provisional", "provider", "refund"},
          source : {"none", "session", "charge"}, amount : Nat,
          link : Invoice \cup {NoInvoice}, settled : Invoice \cup {NoInvoice}]

\* A row as the retry task read it, and a charge made for one while the others wait.
Line == [retry : Tx, attempts : 0..(MaxAttempts - 1)]
Order == [retry : Tx, attempts : 0..(MaxAttempts - 1), batch : SUBSET Line]

Job ==
    {Idle}
    \cup [pc : {"reference", "schedule", "refunded", "reverse"}, tx : Tx]
    \cup [pc : {"record"}, tx : Tx, order : Order \cup {NoOrder}, status : {"succeeded", "pending"}]
    \cup [pc : {"retried"}, order : Order, status : Answer]
    \cup [pc : {"batch"}, batch : SUBSET Line]
    \cup [pc : {"insert", "status", "mark", "cancel"}, event : Event]

\* The columns stay in their domains, and no retry row of paymentRetryService
\* records more attempts than max_attempts, although the task writes the number
\* from the row as it was when the batch was selected.
TypeOK ==
    /\ tx \in [Tx -> TxRow]
    /\ credit \in [Tx -> Nat] /\ debit \in [Tx -> {0, 1}]
    /\ invoice \in [Invoice -> {"issued", "paid"}]
    /\ retry \in [Tx -> [status : {"none", "pending", "processing", "succeeded", "exhausted", "cancelled"},
                         attempts : 0..MaxAttempts]]
    /\ tries \in [Tx -> Nat]
    /\ event \in [Event -> {"none", "processing", "processed", "unmatched", "failed"}]
    /\ faults \in 0..MaxFaults /\ opened \subseteq Tx /\ happened \in [Tx -> SUBSET Kind]
    /\ job \in [Proc -> Job]

\* Redelivered events, two deliveries at once, crashes and a refund() that runs
\* beside its own charge.refunded event: reconcilePayment credits the ledger at
\* most once for a transaction, and reverseRefund debits it at most once and
\* only after the credit.
CreditedOnce ==
    \A t \in Tx : credit[t] <= 1 /\ debit[t] <= credit[t]

\* An invoice is paid exactly while a payment that moved it to paid stands: a
\* refund re-opens the invoice its payment settled and never one that another
\* payment (an overpayment, a second checkout, a retry) holds paid.
PaidIffSettled ==
    \A i \in Invoice :
        invoice[i] = "paid" <=> \E t \in Tx : tx[t].settled = i /\ debit[t] = 0

\* With one retry task at a time, a retry row is executed at most max_attempts
\* times, through webhooks that cancel it meanwhile and through crashes.
ChargeBudget ==
    MaxRunners = 1 => \A t \in Tx : tries[t] <= MaxAttempts

\* What routes/paymentWebhooks.js says of its 500: the provider retries, and so
\* the event is processed after all.
ErrorIsRetried ==
    \A e \in Event : event[e] = "failed" ~> event[e] = "processed"
=============================================================================
