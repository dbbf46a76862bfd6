----------------------- MODULE GatewayPaymentsProofs -----------------------
(***************************************************************************)
(* What holds of card payments for every number of processes, invoices,    *)
(* transactions and faults, and whatever the provider does and delivers.   *)
(*                                                                         *)
(* Inv is inductive.  EventInv is what the unique key on webhook_events    *)
(* buys: one process at most runs the statements of an event.  LedgerInv   *)
(* and SettledInv tie the credit to the event that wrote it and the paid   *)
(* invoice to the one payment that moved it.  RowInv says that only the    *)
(* process that made a charge can schedule its retry, and BudgetInv counts *)
(* executions against the attempts a retry task has read, which may be     *)
(* older than the row.                                                     *)
(* The last part is about the circuit breaker that wraps the provider.     *)
(***************************************************************************)
EXTENDS GatewayPayments, CircuitBreaker, FiniteSetTheorems, WellFoundedInduction, TLAPS

\* Process q runs the statements of event e.
Handles(q, e) == job[q].pc \in {"status", "mark"} /\ job[q].event = e

EventInv ==
    /\ \A q \in Proc, e \in Event : Handles(q, e) => event[e] = "processing"
    /\ \A p, q \in Proc, e \in Event : Handles(p, e) /\ Handles(q, e) => p = q

LedgerInv ==
    \A t \in Tx :
        /\ credit[t] > 0 => event[<<t, "succeeded">>] = "processed"
        /\ credit[t] <= 1 /\ debit[t] <= credit[t]

\* Payment t moved invoice i to paid and was not reversed.
Stands(t, i) == tx[t].settled = i /\ debit[t] = 0

SettledInv ==
    /\ \A t \in Tx : credit[t] = 0 => tx[t].settled = NoInvoice
    /\ \A i \in Invoice, t, u \in Tx : Stands(t, i) /\ Stands(u, i) => t = u
    /\ \A i \in Invoice : invoice[i] = "paid" <=> \E t \in Tx : Stands(t, i)

\* Process q made charge t and may still schedule its retry.
Owns(q, t) ==
    \/ job[q].pc = "schedule" /\ job[q].tx = t
    \/ job[q].pc = "record" /\ job[q].order = NoOrder /\ job[q].tx = t

\* A charge for a retry row is under way.
InHand(j) == j.pc \in {"record", "retried"} /\ j.order # NoOrder

\* The rows a retry task has read.
Read(q, t) ==
    \/ job[q].pc = "batch" /\ \E b \in job[q].batch : b.retry = t
    \/ /\ InHand(job[q])
       /\ job[q].order.retry = t \/ \E b \in job[q].order.batch : b.retry = t

RowInv ==
    /\ \A t \in Tx : retry[t].status = "none" => tries[t] = 0
    /\ \A t \in Tx : tx[t].status = "absent" => retry[t].status = "none"
    /\ \A t \in Tx : retry[t].status = "pending" => retry[t].attempts < MaxAttempts
    /\ \A q \in Proc, t \in Tx : Owns(q, t) => retry[t].status = "none" /\ tx[t].status # "absent"
    /\ \A p, q \in Proc, t \in Tx : Owns(p, t) /\ Owns(q, t) => p = q
    /\ \A q \in Proc, t \in Tx : Read(q, t) => retry[t].status # "none"

\* The rows still to be executed are distinct and were not executed since they were read.
Fits(bs) ==
    \A b \in bs : tries[b.retry] <= b.attempts /\ \A c \in bs : c.retry = b.retry => c = b

FitsJob(j) ==
    /\ j.pc = "batch" => Fits(j.batch)
    /\ InHand(j) => /\ Fits(j.order.batch)
                    /\ tries[j.order.retry] <= j.order.attempts + 1
                    /\ \A b \in j.order.batch : b.retry # j.order.retry

BudgetInv ==
    MaxRunners = 1 =>
        /\ \A p, q \in Proc : Retrying(job[p]) /\ Retrying(job[q]) => p = q
        /\ \A t \in Tx : retry[t].status = "pending" => tries[t] <= retry[t].attempts
        /\ \A t \in Tx : tries[t] <= MaxAttempts
        /\ \A q \in Proc : FitsJob(job[q])

Inv == TypeOK /\ EventInv /\ LedgerInv /\ SettledInv /\ RowInv /\ BudgetInv

\* What one process does in a step.
Process(q) ==
    \/ Step(q) \/ EventError(q) \/ Crash(q)
    \/ \E i \in Invoice, t \in Tx : CreateCheckoutSession(q, i, t)
    \/ \E t \in Tx : ChargeRecurringProfile(q, t) \/ Refund(q, t)
    \/ SelectRetries(q)
    \/ \E e \in Event : ReceiveEvent(q, e)

\* What a job means to the invariants.
Handling(j) == j.pc \in {"status", "mark"}
Owning(j) == j.pc = "schedule" \/ (j.pc = "record" /\ j.order = NoOrder)

----------------------------------------------------------------------------
(* The oldest issued invoice is one of the issued ones. *)
LEMMA OldestIsOpen ==
    ASSUME Open # {}
    PROVE  Oldest(Open) \in Open /\ Oldest(Open) \in Invoice
<1> DEFINE Less == {ss \in Nat \X Nat : ss[1] < ss[2]}
<1>1. Open \subseteq Invoice /\ Open \subseteq Nat
  BY GatewayAssumption DEF Open
<1>2. PICK n \in Open : \A m \in Open : ~(<<m, n>> \in Less)
  <2>1. IsWellFoundedOn(Less, Nat)
    BY NatLessThanWellFounded DEF OpToRel
  <2> QED
    BY <1>1, <2>1, WFMin
<1>3. \A m \in Open : n <= m
  <2>1. \A m \in Open : m \in Nat /\ n \in Nat /\ ~(m < n)
    BY <1>1, <1>2
  <2> QED
    BY <2>1
<1>4. Min(Open) \in Open
  BY <1>2, <1>3 DEF Min
<1> QED
  BY <1>1, <1>4 DEF Oldest

(* What a process holds, by the statement it is about to run. *)
LEMMA JobFields ==
    ASSUME NEW j \in Job
    PROVE  /\ j.pc \in {"reference", "schedule", "refunded", "reverse"} => j.tx \in Tx
           /\ j.pc = "record" => /\ j.tx \in Tx /\ j.order \in Order \cup {NoOrder}
                                 /\ j.status \in {"succeeded", "pending"}
           /\ j.pc = "retried" => j.order \in Order /\ j.status \in Answer
           /\ j.pc = "batch" => j.batch \subseteq Line
           /\ j.pc \in {"insert", "status", "mark", "cancel"} => j.event \in Event
           /\ j.pc = "idle" <=> j = Idle
<1>1. j.pc \in {"reference", "schedule", "refunded", "reverse"} => j.tx \in Tx
  BY DEF Job, Idle
<1>2. j.pc = "record" => /\ j.tx \in Tx /\ j.order \in Order \cup {NoOrder}
                         /\ j.status \in {"succeeded", "pending"}
  BY DEF Job, Idle
<1>3. j.pc = "retried" => j.order \in Order /\ j.status \in Answer
  BY DEF Job, Idle
<1>4. j.pc = "batch" => j.batch \subseteq Line
  BY DEF Job, Idle
<1>5. j.pc \in {"insert", "status", "mark", "cancel"} => j.event \in Event
  BY DEF Job, Idle
<1>6. j.pc = "idle" <=> j = Idle
  BY DEF Job, Idle
<1> QED
  BY <1>1, <1>2, <1>3, <1>4, <1>5, <1>6

(* Orders name a transaction, and are for a row that has an attempt left. *)
LEMMA OrderFields ==
    /\ NoOrder \notin Order
    /\ \A o \in Order : /\ o.retry \in Tx /\ o.attempts \in 0 .. (MaxAttempts - 1)
                        /\ o.batch \subseteq Line
    /\ \A b \in Line : b.retry \in Tx /\ b.attempts \in 0 .. (MaxAttempts - 1)
<1>1. 0 \notin Tx
  BY DEF Tx
<1>2. NoOrder \notin Order
  BY <1>1 DEF NoOrder, Order
<1> QED
  BY <1>2 DEF Order, Line

(* What a process may be given to do. *)
LEMMA JobMake ==
    /\ Idle \in Job /\ Idle.pc = "idle"
    /\ \A l \in {"reference", "schedule", "refunded", "reverse"}, t \in Tx :
           [pc |-> l, tx |-> t] \in Job
    /\ \A t \in Tx, o \in Order \cup {NoOrder}, s \in {"succeeded", "pending"} :
           [pc |-> "record", tx |-> t, order |-> o, status |-> s] \in Job
    /\ \A o \in Order, s \in Answer : [pc |-> "retried", order |-> o, status |-> s] \in Job
    /\ \A bs \in SUBSET Line : [pc |-> "batch", batch |-> bs] \in Job
    /\ \A l \in {"insert", "status", "mark", "cancel"}, e \in Event :
           [pc |-> l, event |-> e] \in Job
<1>1. Idle \in Job /\ Idle.pc = "idle"
  BY DEF Job, Idle
<1>2. \A l \in {"reference", "schedule", "refunded", "reverse"}, t \in Tx :
           [pc |-> l, tx |-> t] \in Job
  BY DEF Job
<1>3. \A t \in Tx, o \in Order \cup {NoOrder}, s \in {"succeeded", "pending"} :
           [pc |-> "record", tx |-> t, order |-> o, status |-> s] \in Job
  BY DEF Job
<1>4. \A o \in Order, s \in Answer : [pc |-> "retried", order |-> o, status |-> s] \in Job
  BY DEF Job
<1>5. \A bs \in SUBSET Line : [pc |-> "batch", batch |-> bs] \in Job
  BY DEF Job
<1>6. \A l \in {"insert", "status", "mark", "cancel"}, e \in Event : [pc |-> l, event |-> e] \in Job
  BY DEF Job
<1> QED
  BY <1>1, <1>2, <1>3, <1>4, <1>5, <1>6

(* The next statement of a handler, with the same event or transaction. *)
LEMMA JobMoves ==
    ASSUME NEW j \in Job
    PROVE  /\ \A l \in {"mark", "cancel"} : j.pc \in {"status", "mark"} =>
                  [j EXCEPT !.pc = l] = [pc |-> l, event |-> j.event]
           /\ j.pc = "refunded" => [j EXCEPT !.pc = "reverse"] = [pc |-> "reverse", tx |-> j.tx]
<1>1. j.pc \in {"status", "mark"} => j \in [pc : {"insert", "status", "mark", "cancel"}, event : Event]
  BY DEF Job, Idle
<1>2. j.pc = "refunded" => j \in [pc : {"reference", "schedule", "refunded", "reverse"}, tx : Tx]
  BY DEF Job, Idle
<1> QED
  BY <1>1, <1>2

(* What the caller of charge() does next. *)
LEMMA AfterMoves ==
    ASSUME NEW t \in Tx, NEW o \in Order \cup {NoOrder}, NEW answer \in Answer
    PROVE  /\ After(t, o, answer) \in Job
           /\ o = NoOrder => /\ After(t, o, answer).pc \in {"idle", "record"}
                             /\ After(t, o, answer).pc = "record" =>
                                    After(t, o, answer).tx = t /\ After(t, o, answer).order = o
           /\ o # NoOrder => /\ After(t, o, answer).pc \in {"record", "retried"}
                             /\ After(t, o, answer).order = o
<1>1. CASE answer # "thrown"
  <2>1. answer \in {"succeeded", "pending"}
    BY <1>1 DEF Answer
  <2> DEFINE x == [pc |-> "record", tx |-> t, order |-> o, status |-> answer]
  <2>2. x \in Job /\ x.pc = "record" /\ x.tx = t /\ x.order = o
    BY <2>1, JobMake
  <2>3. After(t, o, answer) = x
    BY <1>1 DEF After
  <2> HIDE DEF x
  <2> QED
    BY <2>2, <2>3
<1>2. CASE answer = "thrown" /\ o # NoOrder
  <2>1. After(t, o, answer) = [pc |-> "retried", order |-> o, status |-> answer]
    BY <1>2 DEF After
  <2> QED
    BY <1>2, <2>1, JobMake
<1>3. CASE answer = "thrown" /\ o = NoOrder
  BY <1>3, JobMake DEF After
<1> QED
  BY <1>1, <1>2, <1>3

----------------------------------------------------------------------------
(* Where a step takes the process that makes it: within its types, and to  *)
(* the statements of an event, of an own charge or of a retry task only    *)
(* from where they begin.                                                  *)
LEMMA Moves ==
    ASSUME TypeOK, RowInv, NEW q \in Proc, Process(q)
    PROVE  \E x \in Job :
               /\ job' = [job EXCEPT ![q] = x]
               /\ Handling(x) => InsertEvent(q) \/ UpdateStatus(q)
               /\ Owning(x) => RecordCharge(q) \/ \E t \in Tx : ChargeRecurringProfile(q, t)
               /\ Retrying(x) => \/ RecordCharge(q) \/ SelectRetries(q)
                                 \/ ExecuteRetry(q) \/ RetryEnds(q)
<1> DEFINE To(x) == /\ job' = [job EXCEPT ![q] = x]
                    /\ Handling(x) => InsertEvent(q) \/ UpdateStatus(q)
                    /\ Owning(x) => RecordCharge(q) \/ \E t \in Tx : ChargeRecurringProfile(q, t)
                    /\ Retrying(x) => \/ RecordCharge(q) \/ SelectRetries(q)
                                      \/ ExecuteRetry(q) \/ RetryEnds(q)
           Good == \E x \in Job : To(x)
           Plain(x) == x.pc \notin {"status", "mark", "schedule", "record", "batch", "retried"}
<1>0. job \in [Proc -> Job] /\ job[q] \in Job
  BY DEF TypeOK
<1>1. ASSUME NEW x \in Job, Plain(x), Goto(q, x) PROVE Good
  <2>1. ~Handling(x) /\ ~Owning(x) /\ ~Retrying(x)
    BY <1>1 DEF Handling, Owning, Retrying
  <2> QED
    BY <1>1, <2>1 DEF Goto
<1>2. ASSUME Done(q) PROVE Good
  BY <1>1, <1>2, JobMake DEF Done
<1>3. ASSUME UNCHANGED job, Free(q) PROVE Good
  <2>1. Goto(q, Idle)
    BY <1>0, <1>3 DEF Goto, Free
  <2> QED
    BY <1>1, <2>1, JobMake
<1>4. ASSUME NEW i \in Invoice, NEW t \in Tx, CreateCheckoutSession(q, i, t) PROVE Good
  <2> DEFINE x == [pc |-> "reference", tx |-> t]
  <2>1. x \in Job /\ Plain(x)
    BY JobMake
  <2>2. Goto(q, x) \/ (UNCHANGED job /\ Free(q))
    BY <1>4 DEF CreateCheckoutSession
  <2> HIDE DEF x
  <2> QED
    BY <1>1, <1>3, <2>1, <2>2
<1>5. ASSUME NEW t \in Tx, ChargeRecurringProfile(q, t) PROVE Good
  <2>1. ASSUME NEW x \in Job, x.pc \in {"idle", "record", "schedule"},
               x.pc = "record" => x.order = NoOrder, Goto(q, x)
        PROVE  Good
    <3>1. ~Handling(x) /\ ~Retrying(x)
      BY <2>1 DEF Handling, Retrying
    <3> QED
      BY <1>5, <2>1, <3>1 DEF Goto
  <2>2. CASE \E answer \in Answer : Goto(q, After(t, NoOrder, answer))
    <3>1. PICK answer \in Answer : Goto(q, After(t, NoOrder, answer))
      BY <2>2
    <3> QED
      BY <2>1, <3>1, AfterMoves
  <2>3. CASE Goto(q, [pc |-> "schedule", tx |-> t])
    <3> DEFINE x == [pc |-> "schedule", tx |-> t]
    <3>1. x \in Job /\ x.pc = "schedule"
      BY JobMake
    <3>2. Goto(q, x)
      BY <2>3
    <3> HIDE DEF x
    <3> QED
      BY <2>1, <3>1, <3>2
  <2> QED
    BY <1>5, <2>2, <2>3 DEF ChargeRecurringProfile
<1>6. ASSUME RecordCharge(q) PROVE Good
  <2>1. job[q].pc = "record" /\ job[q].tx \in Tx /\ job[q].order \in Order \cup {NoOrder}
        /\ job[q].status \in {"succeeded", "pending"}
    BY <1>0, <1>6, JobFields DEF RecordCharge
  <2>2. ASSUME NEW x \in Job, x.pc \in {"retried", "schedule"}, Goto(q, x) PROVE Good
    <3>1. ~Handling(x)
      BY <2>2 DEF Handling
    <3> QED
      BY <1>6, <2>2, <3>1 DEF Goto
  <2>3. CASE job[q].order # NoOrder
    <3> DEFINE x == [pc |-> "retried", order |-> job[q].order, status |-> job[q].status]
    <3>1. job[q].order \in Order /\ job[q].status \in Answer
      BY <2>1, <2>3 DEF Answer
    <3>2. x \in Job /\ x.pc = "retried"
      BY <3>1, JobMake
    <3>3. Goto(q, x)
      BY <1>6, <2>3 DEF RecordCharge
    <3> HIDE DEF x
    <3> QED
      BY <2>2, <3>2, <3>3
  <2>4. CASE job[q].order = NoOrder
    <3> DEFINE x == [pc |-> "schedule", tx |-> job[q].tx]
    <3>1. x \in Job /\ x.pc = "schedule"
      BY <2>1, JobMake
    <3>2. Goto(q, x) \/ Goto(q, Idle)
      BY <1>6, <2>4 DEF RecordCharge
    <3> HIDE DEF x
    <3> QED
      BY <1>2, <2>2, <3>1, <3>2 DEF Done
  <2> QED
    BY <2>3, <2>4
<1>7. ASSUME SelectRetries(q) PROVE Good
  <2>1. PICK due \in SUBSET Due \ {{}} :
          Goto(q, [pc |-> "batch", batch |-> {[retry |-> t, attempts |-> retry[t].attempts] : t \in due}])
    BY <1>7 DEF SelectRetries
  <2> DEFINE bs == {[retry |-> t, attempts |-> retry[t].attempts] : t \in due}
             x == [pc |-> "batch", batch |-> bs]
  <2>2. \A t \in due : t \in Tx /\ retry[t].attempts \in 0 .. (MaxAttempts - 1)
    <3>1. \A t \in due : t \in Tx /\ retry[t].status = "pending"
      BY <2>1 DEF Due
    <3>2. \A t \in due : retry[t].attempts \in 0 .. MaxAttempts /\ retry[t].attempts < MaxAttempts
      BY <3>1 DEF TypeOK, RowInv
    <3> QED
      BY <3>1, <3>2, GatewayAssumption
  <2>3. bs \subseteq Line
    BY <2>2 DEF Line
  <2> HIDE DEF bs
  <2>4. x \in Job /\ x.pc = "batch"
    BY <2>3, JobMake
  <2>5. Goto(q, x)
    BY <2>1 DEF bs
  <2> HIDE DEF x
  <2>6. ~Handling(x) /\ ~Owning(x)
    BY <2>4 DEF Handling, Owning
  <2> QED
    BY <1>7, <2>4, <2>5, <2>6 DEF Goto
<1>8. ASSUME ExecuteRetry(q) PROVE Good
  <2>1. job[q].pc = "batch" /\ job[q].batch \subseteq Line
    BY <1>0, <1>8, JobFields DEF ExecuteRetry
  <2>2. PICK b \in job[q].batch :
          LET order == [retry |-> b.retry, attempts |-> b.attempts, batch |-> job[q].batch \ {b}]
          IN  \/ \E t \in Tx, answer \in Answer : Goto(q, After(t, order, answer))
              \/ Goto(q, After(b.retry, order, "thrown"))
    BY <1>8 DEF ExecuteRetry
  <2> DEFINE o == [retry |-> b.retry, attempts |-> b.attempts, batch |-> job[q].batch \ {b}]
  <2>3. b.retry \in Tx /\ b.attempts \in 0 .. (MaxAttempts - 1)
    BY <2>1, OrderFields
  <2>4. o \in Order
    BY <2>1, <2>3 DEF Order
  <2>5. PICK t \in Tx, answer \in Answer : Goto(q, After(t, o, answer))
    <3>1. "thrown" \in Answer
      BY DEF Answer
    <3> QED
      BY <2>2, <2>3, <3>1
  <2> HIDE DEF o
  <2> DEFINE x == After(t, o, answer)
  <2>6. x \in Job /\ x.pc \in {"record", "retried"} /\ x.order # NoOrder
    BY <2>4, AfterMoves, OrderFields
  <2> HIDE DEF x
  <2>7. ~Handling(x) /\ ~Owning(x)
    BY <2>6 DEF Handling, Owning
  <2> QED
    BY <1>8, <2>5, <2>6, <2>7 DEF Goto, x
<1>9. ASSUME RetryEnds(q) PROVE Good
  <2> DEFINE x == [pc |-> "batch", batch |-> job[q].order.batch]
  <2>1. job[q].order.batch \subseteq Line
    BY <1>0, <1>9, JobFields, OrderFields DEF RetryEnds
  <2>2. x \in Job /\ x.pc = "batch"
    BY <2>1, JobMake
  <2>3. Goto(q, x) \/ Goto(q, Idle)
    BY <1>9 DEF RetryEnds
  <2> HIDE DEF x
  <2>4. ~Handling(x) /\ ~Owning(x)
    BY <2>2 DEF Handling, Owning
  <2> QED
    BY <1>2, <1>9, <2>2, <2>3, <2>4 DEF Goto, Done
<1>10. ASSUME NEW e \in Event, ReceiveEvent(q, e) PROVE Good
  <2> DEFINE x == [pc |-> "insert", event |-> e]
  <2>1. x \in Job /\ Plain(x)
    BY JobMake
  <2>2. Goto(q, x)
    BY <1>10 DEF ReceiveEvent
  <2> HIDE DEF x
  <2> QED
    BY <1>1, <2>1, <2>2
<1>11. ASSUME NEW l \in {"status", "mark"}, NEW e \in Event, Goto(q, [pc |-> l, event |-> e]),
              InsertEvent(q) \/ UpdateStatus(q)
       PROVE  Good
  <2> DEFINE x == [pc |-> l, event |-> e]
  <2>1. x \in Job /\ x.pc \in {"status", "mark"}
    BY JobMake
  <2> HIDE DEF x
  <2>2. ~Owning(x) /\ ~Retrying(x)
    BY <2>1 DEF Owning, Retrying
  <2> QED
    BY <1>11, <2>1, <2>2 DEF Goto, x
<1>12. ASSUME InsertEvent(q) PROVE Good
  <2>1. job[q].event \in Event
    BY <1>0, <1>12, JobFields DEF InsertEvent
  <2>2. Done(q) \/ Goto(q, [pc |-> "status", event |-> job[q].event])
    BY <1>12 DEF InsertEvent, Enter
  <2> QED
    BY <1>2, <1>11, <1>12, <2>1, <2>2
<1>13. ASSUME UpdateStatus(q) PROVE Good
  <2>1. job[q].event \in Event /\ job[q].pc = "status"
    BY <1>0, <1>13, JobFields DEF UpdateStatus
  <2>2. Goto(q, [pc |-> "mark", event |-> job[q].event])
    BY <1>0, <1>13, <2>1, JobMoves DEF UpdateStatus
  <2> QED
    BY <1>11, <1>13, <2>1, <2>2
<1>14. ASSUME MarkSucceeded(q) PROVE Good
  <2> DEFINE x == [pc |-> "cancel", event |-> job[q].event]
  <2>1. job[q].event \in Event /\ job[q].pc = "mark"
    BY <1>0, <1>14, JobFields DEF MarkSucceeded
  <2>2. Goto(q, x)
    BY <1>0, <1>14, <2>1, JobMoves DEF MarkSucceeded
  <2>3. x \in Job /\ Plain(x)
    BY <2>1, JobMake
  <2> HIDE DEF x
  <2> QED
    BY <1>1, <2>2, <2>3
<1>15. ASSUME RecordRefund(q) PROVE Good
  <2> DEFINE x == [pc |-> "reverse", tx |-> job[q].tx]
  <2>1. job[q].tx \in Tx /\ job[q].pc = "refunded"
    BY <1>0, <1>15, JobFields DEF RecordRefund
  <2>2. Goto(q, x)
    BY <1>0, <1>15, <2>1, JobMoves DEF RecordRefund
  <2>3. x \in Job /\ Plain(x)
    BY <2>1, JobMake
  <2> HIDE DEF x
  <2> QED
    BY <1>1, <2>2, <2>3
<1>16. ASSUME NEW t \in Tx, Refund(q, t) PROVE Good
  <2> DEFINE x == [pc |-> "refunded", tx |-> t]
  <2>1. x \in Job /\ Plain(x)
    BY JobMake
  <2>2. Goto(q, x) \/ (UNCHANGED job /\ Free(q))
    BY <1>16 DEF Refund
  <2> HIDE DEF x
  <2> QED
    BY <1>1, <1>3, <2>1, <2>2
<1>17. ASSUME \/ StoreReference(q) \/ ScheduleRetry(q) \/ CancelRetries(q) \/ MarkRefunded(q)
              \/ MarkOther(q) \/ EndRefund(q) \/ EventError(q) \/ Crash(q)
       PROVE  Good
  <2>1. Done(q)
    BY <1>17 DEF StoreReference, ScheduleRetry, CancelRetries, MarkRefunded, MarkOther, EndRefund,
                 EventError, Crash
  <2> QED
    BY <1>2, <2>1
<1> HIDE DEF Good
<1>18. Good
  BY <1>4, <1>5, <1>6, <1>7, <1>8, <1>9, <1>10, <1>12, <1>13, <1>14, <1>15, <1>16, <1>17
  DEF Process, Step
<1> QED
  BY <1>18 DEF Good

----------------------------------------------------------------------------
(* The first state. *)
LEMMA InvInit == Init => Inv
<1> SUFFICES ASSUME Init PROVE Inv
  OBVIOUS
<1>1. TypeOK
  <2>1. job \in [Proc -> Job]
    BY JobMake DEF Init
  <2>2. tx \in [Tx -> TxRow]
    BY DEF Init, Absent, TxRow, NoInvoice
  <2>3. 0 \in 0 .. MaxFaults /\ 0 \in 0 .. MaxAttempts
    BY GatewayAssumption
  <2>4. faults \in 0 .. MaxFaults
    BY <2>3 DEF Init
  <2>5. retry \in [Tx -> [status : {"none", "pending", "processing", "succeeded", "exhausted",
                                    "cancelled"},
                          attempts : 0 .. MaxAttempts]]
    BY <2>3 DEF Init, NoRetry
  <2>6. happened \in [Tx -> SUBSET Kind] /\ opened \subseteq Tx
    BY DEF Init
  <2>7. /\ credit \in [Tx -> Nat] /\ debit \in [Tx -> {0, 1}] /\ tries \in [Tx -> Nat]
        /\ invoice \in [Invoice -> {"issued", "paid"}]
        /\ event \in [Event -> {"none", "processing", "processed", "unmatched", "failed"}]
    BY DEF Init
  <2> QED
    BY <2>1, <2>2, <2>4, <2>5, <2>6, <2>7 DEF TypeOK
<1>2. \A q \in Proc : job[q].pc = "idle"
  BY JobMake DEF Init
<1>3. EventInv
  BY <1>2 DEF EventInv, Handles
<1>4. LedgerInv
  BY DEF Init, LedgerInv
<1>5. SettledInv
  <2>1. \A t \in Tx : tx[t].settled = 0
    BY DEF Init, Absent, NoInvoice
  <2>2. 0 \notin Invoice
    BY GatewayAssumption
  <2>3. \A i \in Invoice, t \in Tx : ~Stands(t, i)
    BY <2>1, <2>2 DEF Stands
  <2>4. \A i \in Invoice : invoice[i] # "paid"
    BY DEF Init
  <2> QED
    BY <2>1, <2>3, <2>4 DEF SettledInv, NoInvoice
<1>6. RowInv
  <2>1. \A t \in Tx : retry[t].status = "none" /\ tries[t] = 0 /\ retry[t].status # "pending"
    BY DEF Init, NoRetry
  <2>2. \A q \in Proc, t \in Tx : ~Owns(q, t) /\ ~Read(q, t)
    BY <1>2 DEF Owns, Read, InHand
  <2> QED
    BY <2>1, <2>2 DEF RowInv
<1>7. BudgetInv
  <2>1. \A t \in Tx : retry[t].status # "pending" /\ tries[t] = 0
    BY DEF Init, NoRetry
  <2>2. \A q \in Proc : ~Retrying(job[q]) /\ FitsJob(job[q])
    BY <1>2 DEF Retrying, FitsJob, InHand
  <2> QED
    BY <2>1, <2>2, GatewayAssumption DEF BudgetInv
<1> QED
  BY <1>1, <1>3, <1>4, <1>5, <1>6, <1>7 DEF Inv

----------------------------------------------------------------------------
(* A new row takes the place of an absent one. *)
LEMMA InsertMoves ==
    ASSUME TypeOK, NEW t \in Tx, Fresh(t), NEW source \in {"session", "charge"}, NEW amount \in Nat,
           NEW link \in Invoice \cup {NoInvoice}, NEW status \in {"pending", "failed"},
           InsertTx(t, source, amount, link, status)
    PROVE  /\ tx' \in [Tx -> TxRow]
           /\ \A u \in Tx : tx'[u].settled = tx[u].settled
           /\ \A u \in Tx : tx[u].status # "absent" => tx'[u].status # "absent"
           /\ tx[t].status = "absent" /\ tx'[t].status # "absent"
<1> DEFINE r == [status |-> status, ref |-> "provisional", source |-> source,
                 amount |-> amount, link |-> link, settled |-> NoInvoice]
<1>1. r \in TxRow /\ r.settled = NoInvoice /\ r.status # "absent"
  BY DEF TxRow, Kind
<1>2. tx' = [tx EXCEPT ![t] = r]
  BY DEF InsertTx
<1> HIDE DEF r
<1>3. tx[t].settled = NoInvoice /\ tx[t].status = "absent"
  BY DEF Fresh, Absent
<1>4. tx \in [Tx -> TxRow]
  BY DEF TypeOK
<1>5. tx'[t] = r /\ \A u \in Tx : u # t => tx'[u] = tx[u]
  BY <1>2, <1>4
<1>6. tx' \in [Tx -> TxRow]
  BY <1>1, <1>2, <1>4
<1> QED
  BY <1>1, <1>3, <1>5, <1>6

(* What a step does to payment_transactions, beside the one that settles. *)
LEMMA TxEffect ==
    ASSUME TypeOK, NEW q \in Proc, Process(q), ~MarkSucceeded(q)
    PROVE  /\ tx' \in [Tx -> TxRow]
           /\ \A t \in Tx : tx'[t].settled = tx[t].settled
           /\ \A t \in Tx : tx[t].status # "absent" => tx'[t].status # "absent"
<1> DEFINE Good == /\ tx' \in [Tx -> TxRow]
                   /\ \A t \in Tx : tx'[t].settled = tx[t].settled
                   /\ \A t \in Tx : tx[t].status # "absent" => tx'[t].status # "absent"
<1>0. tx \in [Tx -> TxRow] /\ job[q] \in Job
  BY DEF TypeOK
<1>1. ASSUME UNCHANGED tx PROVE Good
  BY <1>0, <1>1
<1>2. ASSUME NEW t \in Tx, NEW x \in TxRow, tx' = [tx EXCEPT ![t] = x],
             x.settled = tx[t].settled, tx[t].status # "absent" => x.status # "absent"
      PROVE  Good
  <2>1. tx'[t] = x /\ \A u \in Tx : u # t => tx'[u] = tx[u]
    BY <1>0, <1>2
  <2>2. tx' \in [Tx -> TxRow]
    BY <1>0, <1>2
  <2> QED
    BY <1>2, <2>1, <2>2
<1>3. ASSUME NEW i \in Invoice, NEW t \in Tx, CreateCheckoutSession(q, i, t) PROVE Good
  <2>1. Total[i] \in Nat /\ i \in Invoice \cup {NoInvoice}
    BY GatewayAssumption
  <2>2. Fresh(t) /\ \E status \in {"pending", "failed"} : InsertTx(t, "session", Total[i], i, status)
    BY <1>3 DEF CreateCheckoutSession
  <2> QED
    BY <2>1, <2>2, InsertMoves
<1>4. ASSUME NEW t \in Tx, ChargeRecurringProfile(q, t) PROVE Good
  <2> DEFINE i == Oldest(Open)
  <2>1. i \in Invoice
    BY <1>4, OldestIsOpen DEF ChargeRecurringProfile
  <2>2. Total[i] \in Nat /\ i \in Invoice \cup {NoInvoice}
    BY <2>1, GatewayAssumption
  <2>3. Fresh(t) /\ \E status \in {"pending", "failed"} : InsertTx(t, "charge", Total[i], i, status)
    BY <1>4 DEF ChargeRecurringProfile
  <2> HIDE DEF i
  <2> QED
    BY <2>2, <2>3, InsertMoves
<1>5. ASSUME ExecuteRetry(q) PROVE Good
  <2>1. PICK b \in job[q].batch :
          \/ \E t \in Tx : Fresh(t) /\ InsertTx(t, "charge", tx[b.retry].amount, NoInvoice, "pending")
          \/ UNCHANGED tx
    BY <1>5 DEF ExecuteRetry
  <2>2. b.retry \in Tx
    BY <1>0, <1>5, <2>1, JobFields, OrderFields DEF ExecuteRetry
  <2>3. tx[b.retry].amount \in Nat /\ NoInvoice \in Invoice \cup {NoInvoice}
    BY <1>0, <2>2 DEF TxRow
  <2> QED
    BY <1>1, <2>1, <2>3, InsertMoves
<1>6. ASSUME StoreReference(q) PROVE Good
  <2> DEFINE t == job[q].tx
             x == [tx[t] EXCEPT !.ref = "provider"]
  <2>1. t \in Tx
    BY <1>0, <1>6, JobFields DEF StoreReference
  <2>2. x \in TxRow /\ x.settled = tx[t].settled /\ x.status = tx[t].status
    BY <1>0, <2>1 DEF TxRow
  <2>3. tx' = [tx EXCEPT ![t] = x]
    BY <1>0, <1>6, <2>1 DEF StoreReference
  <2> HIDE DEF t, x
  <2> QED
    BY <1>2, <2>1, <2>2, <2>3
<1>7. ASSUME NEW t \in Tx, NEW r \in {"provider", "refund"}, NEW s \in Kind \cup {"pending"},
             \/ tx' = [tx EXCEPT ![t].ref = r, ![t].status = s]
             \/ tx' = [tx EXCEPT ![t].status = s, ![t].ref = r]
      PROVE  Good
  <2>1. tx' \in [Tx -> TxRow]
    BY <1>0, <1>7 DEF TxRow
  <2>2. \A u \in Tx : u # t => tx'[u] = tx[u]
    BY <1>0, <1>7
  <2>3. tx'[t].settled = tx[t].settled /\ tx'[t].status = s
    BY <1>0, <1>7 DEF TxRow
  <2>4. s # "absent"
    BY DEF Kind
  <2> QED
    BY <2>1, <2>2, <2>3, <2>4
<1>8. ASSUME RecordCharge(q) \/ RecordRefund(q) PROVE Good
  <2>1. /\ job[q].tx \in Tx /\ "refunded" \in Kind \cup {"pending"}
        /\ RecordCharge(q) => job[q].status \in Kind \cup {"pending"}
    BY <1>0, <1>8, JobFields DEF RecordCharge, RecordRefund, Kind
  <2> HIDE DEF Good
  <2>2. CASE RecordCharge(q)
    <3> DEFINE t == job[q].tx
               s == job[q].status
    <3>1. tx' = [tx EXCEPT ![t].ref = "provider", ![t].status = s]
      BY <2>2 DEF RecordCharge
    <3>2. t \in Tx /\ s \in Kind \cup {"pending"}
      BY <2>1, <2>2
    <3> HIDE DEF t, s
    <3> QED
      BY <1>7, <3>1, <3>2
  <2>3. CASE RecordRefund(q)
    <3> DEFINE t == job[q].tx
    <3>1. tx' = [tx EXCEPT ![t].status = "refunded", ![t].ref = "refund"]
      BY <2>3 DEF RecordRefund
    <3>2. t \in Tx
      BY <2>1
    <3> HIDE DEF t
    <3> QED
      BY <1>7, <2>1, <3>1, <3>2
  <2> QED
    BY <1>8, <2>2, <2>3
<1>9. ASSUME UpdateStatus(q) PROVE Good
  <2> DEFINE e == job[q].event
             t == e[1]
             x == [tx[t] EXCEPT !.status = e[2]]
  <2>1. t \in Tx /\ e[2] \in Kind
    BY <1>0, <1>9, JobFields DEF UpdateStatus, Event
  <2>2. x \in TxRow /\ x.settled = tx[t].settled /\ x.status # "absent"
    BY <1>0, <2>1 DEF TxRow, Kind
  <2>3. tx' = [tx EXCEPT ![t] = x]
    BY <1>0, <1>9, <2>1 DEF UpdateStatus
  <2> HIDE DEF t, x
  <2> QED
    BY <1>2, <2>1, <2>2, <2>3
<1>10. ASSUME \/ ScheduleRetry(q) \/ RetryEnds(q) \/ InsertEvent(q) \/ CancelRetries(q)
              \/ MarkRefunded(q) \/ MarkOther(q) \/ EndRefund(q) \/ EventError(q) \/ Crash(q)
              \/ SelectRetries(q) \/ (\E t \in Tx : Refund(q, t))
              \/ (\E e \in Event : ReceiveEvent(q, e))
       PROVE  Good
  <2>1. UNCHANGED tx
    BY <1>10 DEF ScheduleRetry, RetryEnds, InsertEvent, CancelRetries, MarkRefunded, MarkOther,
                 EndRefund, EventError, Crash, SelectRetries, Refund, ReceiveEvent
  <2> QED
    BY <1>1, <2>1
<1> HIDE DEF Good
<1>11. Good
  BY <1>3, <1>4, <1>5, <1>6, <1>8, <1>9, <1>10 DEF Process, Step
<1> QED
  BY <1>11 DEF Good

(* What the succeeded event of a transaction does to the books: nothing, a *)
(* credit, or a credit and the invoice it moves to paid.                   *)
LEMMA SettleMoves ==
    ASSUME TypeOK, NEW q \in Proc, MarkSucceeded(q)
    PROVE  \E t \in Tx :
             /\ job[q].pc = "mark" /\ job[q].event = <<t, "succeeded">>
             /\ event' = [event EXCEPT ![<<t, "succeeded">>] = "processed"] /\ UNCHANGED debit
             /\ \/ UNCHANGED <<tx, credit, invoice>>
                \/ /\ credit' = [credit EXCEPT ![t] = credit[t] + 1]
                   /\ \/ UNCHANGED <<tx, invoice>>
                      \/ \E i \in Open : /\ tx' = [tx EXCEPT ![t].settled = i]
                                         /\ invoice' = [invoice EXCEPT ![i] = "paid"]
<1>0. job[q] \in Job /\ tx \in [Tx -> TxRow]
  BY DEF TypeOK
<1>1. job[q].pc = "mark" /\ job[q].event \in Event /\ job[q].event[2] = "succeeded"
  BY <1>0, JobFields DEF MarkSucceeded
<1>2. PICK t \in Tx : job[q].event = <<t, "succeeded">>
  BY <1>1 DEF Event
<1>3. job[q].event[1] = t
  BY <1>2
<1>4. event' = [event EXCEPT ![<<t, "succeeded">>] = "processed"] /\ UNCHANGED debit
  BY <1>2 DEF MarkSucceeded
<1>5. ReconcilePayment(t) \/ UNCHANGED <<tx, credit, invoice>>
  BY <1>3 DEF MarkSucceeded
<1>6. ASSUME ReconcilePayment(t), Target(tx[t]) # NoInvoice
      PROVE  /\ credit' = [credit EXCEPT ![t] = credit[t] + 1]
             /\ \/ UNCHANGED <<tx, invoice>>
                \/ \E i \in Open : /\ tx' = [tx EXCEPT ![t].settled = i]
                                   /\ invoice' = [invoice EXCEPT ![i] = "paid"]
  BY <1>6 DEF ReconcilePayment, Settled
<1>7. ASSUME ReconcilePayment(t), Target(tx[t]) = NoInvoice
      PROVE  UNCHANGED <<tx, credit, invoice>>
  BY <1>7 DEF ReconcilePayment
<1> QED
  BY <1>1, <1>2, <1>4, <1>5, <1>6, <1>7

(* What a refund does to them: nothing, or one debit of what was credited, *)
(* and the invoice the payment settled is open again.                      *)
LEMMA ReverseMoves ==
    ASSUME TypeOK, NEW q \in Proc, MarkRefunded(q) \/ EndRefund(q)
    PROVE  /\ UNCHANGED <<tx, credit>>
           /\ \/ UNCHANGED <<debit, invoice>>
              \/ \E t \in Tx :
                   /\ credit[t] > 0 /\ debit[t] = 0 /\ debit' = [debit EXCEPT ![t] = 1]
                   /\ invoice' = IF tx[t].settled \in Invoice /\ invoice[tx[t].settled] = "paid"
                                 THEN [invoice EXCEPT ![tx[t].settled] = "issued"] ELSE invoice
<1>0. job[q] \in Job
  BY DEF TypeOK
<1>1. UNCHANGED <<tx, credit>>
  BY DEF MarkRefunded, EndRefund
<1>2. \/ \E t \in Tx : ReverseRefund(t)
      \/ UNCHANGED <<debit, invoice>>
  <2>1. CASE MarkRefunded(q)
    <3>1. job[q].event[1] \in Tx
      BY <1>0, <2>1, JobFields DEF MarkRefunded, Event
    <3> QED
      BY <2>1, <3>1 DEF MarkRefunded
  <2>2. CASE EndRefund(q)
    <3>1. job[q].tx \in Tx
      BY <1>0, <2>2, JobFields DEF EndRefund
    <3> QED
      BY <2>2, <3>1 DEF EndRefund
  <2> QED
    BY <2>1, <2>2
<1> QED
  BY <1>1, <1>2 DEF ReverseRefund, Reversible

(* All other steps leave the books alone. *)
LEMMA BooksKept ==
    ASSUME NEW q \in Proc, Process(q), ~MarkSucceeded(q), ~MarkRefunded(q), ~EndRefund(q)
    PROVE  UNCHANGED <<credit, debit, invoice>>
<1> USE DEF books
<1>1. ASSUME NEW t \in Tx, ChargeRecurringProfile(q, t) \/ Refund(q, t)
      PROVE  UNCHANGED <<credit, debit, invoice>>
  BY <1>1 DEF ChargeRecurringProfile, Refund
<1>2. ASSUME NEW i \in Invoice, NEW t \in Tx, CreateCheckoutSession(q, i, t)
      PROVE  UNCHANGED <<credit, debit, invoice>>
  BY <1>2 DEF CreateCheckoutSession
<1>3. ASSUME NEW e \in Event, ReceiveEvent(q, e) PROVE UNCHANGED <<credit, debit, invoice>>
  BY <1>3 DEF ReceiveEvent
<1>4. ASSUME EventError(q) \/ Crash(q) \/ SelectRetries(q) PROVE UNCHANGED <<credit, debit, invoice>>
  BY <1>4 DEF EventError, Crash, SelectRetries
<1>5. ASSUME Step(q) PROVE UNCHANGED <<credit, debit, invoice>>
  BY <1>5 DEF Step, StoreReference, RecordCharge, ScheduleRetry, ExecuteRetry, RetryEnds, InsertEvent,
              UpdateStatus, CancelRetries, MarkOther, RecordRefund
<1> QED
  BY <1>1, <1>2, <1>3, <1>4, <1>5 DEF Process

(* Four steps touch payment_retries. *)
LEMMA RetriesKept ==
    ASSUME NEW q \in Proc, Process(q),
           ~ScheduleRetry(q), ~ExecuteRetry(q), ~RetryEnds(q), ~CancelRetries(q)
    PROVE  UNCHANGED <<retry, tries>>
<1> USE DEF retries
<1>1. ASSUME NEW t \in Tx, ChargeRecurringProfile(q, t) \/ Refund(q, t) PROVE UNCHANGED <<retry, tries>>
  BY <1>1 DEF ChargeRecurringProfile, Refund
<1>2. ASSUME NEW i \in Invoice, NEW t \in Tx, CreateCheckoutSession(q, i, t)
      PROVE  UNCHANGED <<retry, tries>>
  BY <1>2 DEF CreateCheckoutSession
<1>3. ASSUME NEW e \in Event, ReceiveEvent(q, e) PROVE UNCHANGED <<retry, tries>>
  BY <1>3 DEF ReceiveEvent
<1>4. ASSUME EventError(q) \/ Crash(q) \/ SelectRetries(q) PROVE UNCHANGED <<retry, tries>>
  BY <1>4 DEF EventError, Crash, SelectRetries
<1>5. ASSUME Step(q) PROVE UNCHANGED <<retry, tries>>
  BY <1>5 DEF Step, StoreReference, RecordCharge, InsertEvent, UpdateStatus, MarkSucceeded,
                    MarkRefunded, MarkOther, RecordRefund, EndRefund
<1> QED
  BY <1>1, <1>2, <1>3, <1>4, <1>5 DEF Process

RetryRow == [status : {"none", "pending", "processing", "succeeded", "exhausted", "cancelled"},
             attempts : 0 .. MaxAttempts]

\* Process q makes x of the retry row of t.
RetryMove(q, t, x) ==
    /\ retry' = [retry EXCEPT ![t] = x]
    /\ x.status # "none"
    /\ x.status = "pending" => x.attempts < MaxAttempts
    /\ \/ ScheduleRetry(q) /\ job[q].tx = t /\ x.attempts = 0
       \/ ExecuteRetry(q) /\ x.status = "processing" /\ Read(q, t)
       \/ RetryEnds(q) /\ job[q].order.retry = t /\ x.attempts = job[q].order.attempts + 1
       \/ CancelRetries(q) /\ x.status = "cancelled" /\ retry[t].status # "none"

(* What a step does to payment_retries: nothing, or one row changes, which *)
(* exists from then on and has an attempt left if it is pending.           *)
LEMMA RetryEffect ==
    ASSUME TypeOK, RowInv, NEW q \in Proc, Process(q)
    PROVE  \/ UNCHANGED retry
           \/ \E t \in Tx, x \in RetryRow : RetryMove(q, t, x)
<1>0. job[q] \in Job /\ retry \in [Tx -> RetryRow]
  BY DEF TypeOK, RetryRow
<1> DEFINE Good == \/ UNCHANGED retry
                   \/ \E t \in Tx, x \in RetryRow : RetryMove(q, t, x)
<1> USE DEF RetryMove
<1>1. ASSUME ScheduleRetry(q) PROVE Good
  <2> DEFINE x == [status |-> "pending", attempts |-> 0]
  <2>1. job[q].tx \in Tx
    BY <1>0, <1>1, JobFields DEF ScheduleRetry
  <2>2. 0 \in 0 .. MaxAttempts /\ 0 < MaxAttempts
    BY GatewayAssumption
  <2>3. x \in RetryRow /\ x.status = "pending" /\ x.attempts = 0
    BY <2>2 DEF RetryRow
  <2>4. retry' = [retry EXCEPT ![job[q].tx] = x] \/ UNCHANGED retry
    BY <1>1 DEF ScheduleRetry
  <2> HIDE DEF x
  <2> QED
    BY <1>1, <2>1, <2>2, <2>3, <2>4
<1>2. ASSUME ExecuteRetry(q) PROVE Good
  <2>1. PICK b \in job[q].batch : retry' = [retry EXCEPT ![b.retry].status = "processing"]
    BY <1>2 DEF ExecuteRetry
  <2>2. b.retry \in Tx /\ job[q].pc = "batch"
    BY <1>0, <1>2, <2>1, JobFields, OrderFields DEF ExecuteRetry
  <2> DEFINE t == b.retry
             x == [retry[t] EXCEPT !.status = "processing"]
  <2>3. x \in RetryRow /\ x.status = "processing"
    BY <1>0, <2>2 DEF RetryRow
  <2>4. retry' = [retry EXCEPT ![t] = x]
    BY <1>0, <2>1, <2>2
  <2>5. Read(q, t)
    BY <2>1, <2>2 DEF Read
  <2> HIDE DEF x, t
  <2>6. t \in Tx
    BY <2>2 DEF t
  <2> QED
    BY <1>2, <2>3, <2>4, <2>5, <2>6
<1>3. ASSUME RetryEnds(q) PROVE Good
  <2> DEFINE o == job[q].order
             x == [status |-> RetryStatus(job[q].status, o.attempts + 1), attempts |-> o.attempts + 1]
  <2>1. o.retry \in Tx /\ o.attempts \in 0 .. (MaxAttempts - 1)
    BY <1>0, <1>3, JobFields, OrderFields DEF RetryEnds
  <2>2. o.attempts + 1 \in 0 .. MaxAttempts
    BY <2>1, GatewayAssumption
  <2>3. x.status \in {"succeeded", "exhausted", "pending"}
        /\ (x.status = "pending" => ~(o.attempts + 1 >= MaxAttempts))
    BY DEF RetryStatus
  <2>4. x \in RetryRow /\ x.attempts = o.attempts + 1
    BY <2>2, <2>3 DEF RetryRow
  <2>5. retry' = [retry EXCEPT ![o.retry] = x]
    BY <1>3 DEF RetryEnds
  <2>6. x.status = "pending" => o.attempts + 1 < MaxAttempts
    BY <2>1, <2>3, GatewayAssumption
  <2> HIDE DEF x
  <2> QED
    BY <1>3, <2>1, <2>3, <2>4, <2>5, <2>6
<1>4. ASSUME CancelRetries(q) PROVE Good
  <2> DEFINE t == job[q].event[1]
             x == [retry[t] EXCEPT !.status = "cancelled"]
  <2>1. t \in Tx
    BY <1>0, <1>4, JobFields DEF CancelRetries, Event
  <2>2. x \in RetryRow /\ x.status = "cancelled"
    BY <1>0, <2>1 DEF RetryRow
  <2>3. \/ UNCHANGED retry
        \/ retry[t].status # "none" /\ retry' = [retry EXCEPT ![t] = x]
    BY <1>0, <1>4, <2>1 DEF CancelRetries
  <2> HIDE DEF x, t
  <2> QED
    BY <1>4, <2>1, <2>2, <2>3
<1>5. ASSUME ~ScheduleRetry(q), ~ExecuteRetry(q), ~RetryEnds(q), ~CancelRetries(q)
      PROVE  UNCHANGED retry
  BY <1>5, RetriesKept
<1> HIDE DEF Good
<1>6. Good
  <2>1. UNCHANGED retry => Good
    BY DEF Good
  <2> QED
    BY <1>1, <1>2, <1>3, <1>4, <1>5, <2>1
<1> QED
  BY <1>6 DEF Good

EventStatus == {"none", "processing", "processed", "unmatched", "failed"}

(* What a step does to webhook_events: nothing, or it writes the row of an *)
(* event that had none or that the process is handling.                    *)
LEMMA EventEffect ==
    ASSUME TypeOK, NEW q \in Proc, Process(q)
    PROVE  \/ UNCHANGED event
           \/ \E e \in Event, s \in EventStatus :
                /\ event' = [event EXCEPT ![e] = s]
                /\ event[e] = "none" \/ Handles(q, e)
<1> DEFINE Good == \/ UNCHANGED event
                   \/ \E e \in Event, s \in EventStatus :
                         /\ event' = [event EXCEPT ![e] = s]
                         /\ event[e] = "none" \/ Handles(q, e)
<1>0. job[q] \in Job
  BY DEF TypeOK
<1>1. ASSUME InsertEvent(q) PROVE Good
  <2>1. job[q].event \in Event
    BY <1>0, <1>1, JobFields DEF InsertEvent
  <2>2. \/ UNCHANGED event
        \/ /\ event[job[q].event] = "none"
           /\ \E s \in {"processing", "unmatched"} : event' = [event EXCEPT ![job[q].event] = s]
    BY <1>1 DEF InsertEvent, Enter
  <2> QED
    BY <2>1, <2>2 DEF EventStatus
<1>2. ASSUME MarkSucceeded(q) \/ MarkRefunded(q) \/ MarkOther(q) \/ EventError(q) PROVE Good
  <2>1. job[q].pc \in {"status", "mark"}
        /\ \E s \in {"processed", "failed"} : event' = [event EXCEPT ![job[q].event] = s]
    BY <1>2 DEF MarkSucceeded, MarkRefunded, MarkOther, EventError
  <2>2. job[q].event \in Event /\ Handles(q, job[q].event)
    BY <1>0, <2>1, JobFields DEF Handles
  <2> QED
    BY <2>1, <2>2 DEF EventStatus
<1>3. ASSUME NEW t \in Tx, ChargeRecurringProfile(q, t) \/ Refund(q, t) PROVE UNCHANGED event
  BY <1>3 DEF ChargeRecurringProfile, Refund
<1>4. ASSUME NEW i \in Invoice, NEW t \in Tx, CreateCheckoutSession(q, i, t) PROVE UNCHANGED event
  BY <1>4 DEF CreateCheckoutSession
<1>5. ASSUME NEW e \in Event, ReceiveEvent(q, e) PROVE UNCHANGED event
  BY <1>5 DEF ReceiveEvent
<1>6. ASSUME \/ StoreReference(q) \/ RecordCharge(q) \/ ScheduleRetry(q) \/ ExecuteRetry(q)
             \/ RetryEnds(q) \/ UpdateStatus(q) \/ CancelRetries(q) \/ RecordRefund(q)
             \/ EndRefund(q) \/ Crash(q) \/ SelectRetries(q)
      PROVE  UNCHANGED event
  BY <1>6 DEF StoreReference, RecordCharge, ScheduleRetry, ExecuteRetry, RetryEnds, UpdateStatus,
              CancelRetries, RecordRefund, EndRefund, Crash, SelectRetries
<1>7. UNCHANGED event => Good
  OBVIOUS
<1> HIDE DEF Good
<1>8. Good
  BY <1>1, <1>2, <1>3, <1>4, <1>5, <1>6, <1>7 DEF Process, Step
<1> QED
  BY <1>8 DEF Good

(* Whoever handles an event after its own step handled it before or has    *)
(* just written its row, which was not there.                              *)
LEMMA HandlesNext ==
    ASSUME TypeOK, RowInv, EventInv, NEW q \in Proc, Process(q), NEW e \in Event, Handles(q, e)'
    PROVE  event'[e] = "processing" /\ (Handles(q, e) \/ event[e] = "none")
<1>0. job \in [Proc -> Job] /\ job[q] \in Job /\ event \in [Event -> EventStatus]
  BY DEF TypeOK, EventStatus
<1>1. job'[q].pc \in {"status", "mark"} /\ job'[q].event = e
  BY DEF Handles
<1>2. InsertEvent(q) \/ UpdateStatus(q)
  <2>1. PICK x \in Job : /\ job' = [job EXCEPT ![q] = x]
                         /\ Handling(x) => InsertEvent(q) \/ UpdateStatus(q)
    BY Moves
  <2>2. job'[q] = x
    BY <1>0, <2>1
  <2> QED
    BY <1>1, <2>1, <2>2 DEF Handling
<1>3. CASE InsertEvent(q)
  <2> DEFINE f == job[q].event
             x == [pc |-> "status", event |-> f]
  <2>1. f \in Event
    BY <1>0, <1>3, JobFields DEF InsertEvent
  <2>2. \/ job' = [job EXCEPT ![q] = Idle]
        \/ /\ event[f] = "none" /\ event' = [event EXCEPT ![f] = "processing"]
           /\ job' = [job EXCEPT ![q] = x]
    BY <1>3 DEF InsertEvent, Enter, Done, Goto
  <2>3. x.event = f
    OBVIOUS
  <2> HIDE DEF x
  <2>4. job' # [job EXCEPT ![q] = Idle]
    BY <1>0, <1>1, JobMake
  <2>5. job'[q] = x /\ event[f] = "none" /\ event'[f] = "processing"
    BY <1>0, <2>1, <2>2, <2>4
  <2> QED
    BY <1>1, <2>3, <2>5
<1>4. CASE UpdateStatus(q)
  <2> DEFINE x == [pc |-> "mark", event |-> job[q].event]
  <2>1. job[q].pc = "status" /\ UNCHANGED event
    BY <1>4 DEF UpdateStatus
  <2>2. job' = [job EXCEPT ![q] = x]
    BY <1>0, <1>4, <2>1, JobMoves DEF UpdateStatus, Goto
  <2>3. x.event = job[q].event
    OBVIOUS
  <2> HIDE DEF x
  <2>4. job[q].event = e
    BY <1>0, <1>1, <2>2, <2>3
  <2>5. Handles(q, e)
    BY <2>1, <2>4 DEF Handles
  <2> QED
    BY <2>1, <2>5 DEF EventInv
<1> QED
  BY <1>2, <1>3, <1>4

(* The other processes keep what they do. *)
LEMMA OthersKeep ==
    ASSUME TypeOK, RowInv, NEW q \in Proc, Process(q), NEW p \in Proc, p # q
    PROVE  job'[p] = job[p]
<1>1. PICK x \in Job : job' = [job EXCEPT ![q] = x]
  BY Moves
<1> QED
  BY <1>1 DEF TypeOK

(* One process at most runs the statements of an event. *)
LEMMA EventNext ==
    ASSUME TypeOK, RowInv, EventInv, NEW q \in Proc, Process(q)
    PROVE  EventInv'
<1>0. event \in [Event -> EventStatus]
  BY DEF TypeOK, EventStatus
<1>1. ASSUME NEW p \in Proc, p # q, NEW e \in Event, Handles(p, e)'
      PROVE  Handles(p, e) /\ event[e] = "processing"
  <2>1. Handles(p, e)
    BY <1>1, OthersKeep DEF Handles
  <2> QED
    BY <2>1 DEF EventInv
<1>2. ASSUME NEW p \in Proc, NEW e \in Event, Handles(p, e)' PROVE event'[e] = "processing"
  <2>1. CASE p = q
    BY <1>2, <2>1, HandlesNext
  <2>2. CASE p # q
    <3>1. Handles(p, e) /\ event[e] = "processing"
      BY <1>1, <1>2, <2>2
    <3>2. ~Handles(q, e)
      BY <2>2, <3>1 DEF EventInv
    <3> QED
      BY <1>0, <3>1, <3>2, EventEffect
  <2> QED
    BY <2>1, <2>2
<1>3. ASSUME NEW p \in Proc, NEW e \in Event, Handles(p, e)', Handles(q, e)' PROVE p = q
  <2>1. CASE p # q
    <3>1. Handles(p, e) /\ event[e] = "processing"
      BY <1>1, <1>3, <2>1
    <3>2. Handles(q, e)
      BY <1>3, <3>1, HandlesNext
    <3> QED
      BY <3>1, <3>2 DEF EventInv
  <2> QED
    BY <2>1
<1>4. ASSUME NEW p \in Proc, NEW r \in Proc, NEW e \in Event, Handles(p, e)', Handles(r, e)'
      PROVE  p = r
  <2>1. CASE p # q /\ r # q
    <3>1. Handles(p, e) /\ Handles(r, e)
      BY <1>1, <1>4, <2>1
    <3> QED
      BY <3>1 DEF EventInv
  <2> QED
    BY <1>3, <1>4, <2>1
<1> QED
  BY <1>2, <1>4 DEF EventInv

----------------------------------------------------------------------------
(* A processed event stays processed. *)
LEMMA ProcessedStays ==
    ASSUME TypeOK, EventInv, NEW q \in Proc, Process(q), NEW e \in Event, event[e] = "processed"
    PROVE  event'[e] = "processed"
<1>1. event \in [Event -> EventStatus]
  BY DEF TypeOK, EventStatus
<1>2. ~Handles(q, e)
  BY DEF EventInv
<1> QED
  BY <1>1, <1>2, EventEffect

(* A credit is written with its event, and a debit after the credit. *)
LEMMA LedgerNext ==
    ASSUME TypeOK, EventInv, LedgerInv, NEW q \in Proc, Process(q)
    PROVE  LedgerInv'
<1> DEFINE L(t) == /\ credit'[t] > 0 => event'[<<t, "succeeded">>] = "processed"
                   /\ credit'[t] <= 1 /\ debit'[t] <= credit'[t]
<1>0. /\ credit \in [Tx -> Nat] /\ debit \in [Tx -> {0, 1}]
      /\ event \in [Event -> EventStatus]
  BY DEF TypeOK, EventStatus
<1>1. \A t \in Tx : <<t, "succeeded">> \in Event
  BY DEF Event, Kind
<1>2. ASSUME NEW t \in Tx, credit'[t] = credit[t], debit'[t] = debit[t] PROVE L(t)
  <2>1. credit[t] > 0 => event'[<<t, "succeeded">>] = "processed"
    BY <1>1, ProcessedStays DEF LedgerInv
  <2> QED
    BY <1>2, <2>1 DEF LedgerInv
<1>3. CASE MarkSucceeded(q)
  <2>1. PICK t \in Tx :
             /\ job[q].pc = "mark" /\ job[q].event = <<t, "succeeded">>
             /\ event' = [event EXCEPT ![<<t, "succeeded">>] = "processed"] /\ UNCHANGED debit
             /\ UNCHANGED credit \/ credit' = [credit EXCEPT ![t] = credit[t] + 1]
    BY <1>3, SettleMoves
  <2>2. event[<<t, "succeeded">>] = "processing"
    BY <1>1, <2>1 DEF EventInv, Handles
  <2>3. credit[t] = 0 /\ debit[t] = 0
    BY <1>0, <2>2 DEF LedgerInv
  <2>4. event'[<<t, "succeeded">>] = "processed"
    BY <1>0, <1>1, <2>1
  <2>5. credit'[t] \in {0, 1} /\ debit'[t] = 0
    BY <1>0, <2>1, <2>3
  <2>6. L(t)
    BY <2>4, <2>5
  <2>7. ASSUME NEW u \in Tx, u # t PROVE L(u)
    BY <1>0, <1>2, <2>1, <2>7
  <2> QED
    BY <2>6, <2>7 DEF LedgerInv
<1>4. CASE MarkRefunded(q) \/ EndRefund(q)
  <2>1. UNCHANGED credit /\ \/ UNCHANGED debit
                            \/ \E t \in Tx : credit[t] > 0 /\ debit' = [debit EXCEPT ![t] = 1]
    BY <1>4, ReverseMoves
  <2>2. CASE UNCHANGED debit
    BY <1>2, <2>1, <2>2 DEF LedgerInv
  <2>3. CASE \E t \in Tx : credit[t] > 0 /\ debit' = [debit EXCEPT ![t] = 1]
    <3>1. PICK t \in Tx : credit[t] > 0 /\ debit' = [debit EXCEPT ![t] = 1]
      BY <2>3
    <3>2. ASSUME NEW u \in Tx, u # t PROVE L(u)
      BY <1>0, <1>2, <2>1, <3>1, <3>2
    <3>3. event'[<<t, "succeeded">>] = "processed"
      BY <1>1, <3>1, ProcessedStays DEF LedgerInv
    <3>4. credit'[t] = 1 /\ debit'[t] = 1
      <4>1. credit[t] \in Nat /\ credit[t] > 0 /\ credit[t] <= 1
        BY <1>0, <3>1 DEF LedgerInv
      <4>2. credit'[t] = credit[t] /\ debit'[t] = 1
        BY <1>0, <2>1, <3>1
      <4> QED
        BY <4>1, <4>2
    <3>5. L(t)
      BY <3>3, <3>4
    <3> QED
      BY <3>2, <3>5 DEF LedgerInv
  <2> QED
    BY <2>1, <2>2, <2>3
<1>5. CASE ~MarkSucceeded(q) /\ ~MarkRefunded(q) /\ ~EndRefund(q)
  BY <1>2, <1>5, BooksKept DEF LedgerInv
<1> QED
  BY <1>3, <1>4, <1>5

(* The payment that holds an invoice paid: one at most, and the invoice is *)
(* paid exactly while there is one.                                        *)
LEMMA SettledNext ==
    ASSUME TypeOK, EventInv, LedgerInv, SettledInv, NEW q \in Proc, Process(q)
    PROVE  SettledInv'
<1>0. /\ tx \in [Tx -> TxRow] /\ credit \in [Tx -> Nat] /\ debit \in [Tx -> {0, 1}]
      /\ invoice \in [Invoice -> {"issued", "paid"}]
  BY DEF TypeOK
<1>1. NoInvoice \notin Invoice
  BY GatewayAssumption DEF NoInvoice
<1>2. ASSUME \A t \in Tx : tx'[t].settled = tx[t].settled, UNCHANGED <<debit, invoice>>,
             \A t \in Tx : credit'[t] = 0 => credit[t] = 0
      PROVE  SettledInv'
  <2>1. \A t \in Tx, i \in Invoice : Stands(t, i)' <=> Stands(t, i)
    BY <1>2 DEF Stands
  <2> QED
    BY <1>2, <2>1 DEF SettledInv
<1>3. CASE MarkSucceeded(q)
  <2>1. PICK t \in Tx :
             /\ job[q].pc = "mark" /\ job[q].event = <<t, "succeeded">> /\ UNCHANGED debit
             /\ \/ UNCHANGED <<tx, credit, invoice>>
                \/ /\ credit' = [credit EXCEPT ![t] = credit[t] + 1]
                   /\ \/ UNCHANGED <<tx, invoice>>
                      \/ \E i \in Open : /\ tx' = [tx EXCEPT ![t].settled = i]
                                         /\ invoice' = [invoice EXCEPT ![i] = "paid"]
    BY <1>3, SettleMoves
  <2>2. event[<<t, "succeeded">>] = "processing"
    <3>1. <<t, "succeeded">> \in Event
      BY DEF Event, Kind
    <3> QED
      BY <2>1, <3>1 DEF EventInv, Handles
  <2>3. credit[t] = 0 /\ debit[t] = 0 /\ tx[t].settled = NoInvoice
    BY <1>0, <2>2 DEF LedgerInv, SettledInv
  <2>4. \A u \in Tx : credit'[u] = 0 => credit[u] = 0
    BY <1>0, <2>1, <2>3
  <2>5. CASE UNCHANGED <<tx, invoice>>
    BY <1>2, <2>1, <2>4, <2>5
  <2>6. ASSUME NEW i \in Open, tx' = [tx EXCEPT ![t].settled = i], ~UNCHANGED credit,
               invoice' = [invoice EXCEPT ![i] = "paid"]
        PROVE  SettledInv'
    <3>1. i \in Invoice /\ invoice[i] = "issued"
      BY DEF Open
    <3>2. tx'[t].settled = i /\ \A u \in Tx : u # t => tx'[u] = tx[u]
      BY <1>0, <2>6 DEF TxRow
    <3>3. \A u \in Tx : ~Stands(u, i)
      BY <3>1 DEF SettledInv
    <3>4. \A u \in Tx : Stands(u, i)' <=> u = t
      BY <2>1, <2>3, <3>2, <3>3 DEF Stands
    <3>5. \A j \in Invoice : j # i => \A u \in Tx : Stands(u, j)' <=> Stands(u, j)
      BY <1>1, <2>1, <2>3, <3>2 DEF Stands
    <3>6. credit'[t] # 0
      BY <1>0, <2>1, <2>6
    <3>7. \A u \in Tx : credit'[u] = 0 => tx'[u].settled = NoInvoice
      BY <2>4, <3>2, <3>6 DEF SettledInv
    <3>8. invoice'[i] = "paid" /\ \A j \in Invoice : j # i => invoice'[j] = invoice[j]
      BY <1>0, <2>6, <3>1
    <3>9. \A j \in Invoice, u, v \in Tx : Stands(u, j)' /\ Stands(v, j)' => u = v
      BY <3>4, <3>5 DEF SettledInv
    <3>10. \A j \in Invoice : invoice'[j] = "paid" <=> \E u \in Tx : Stands(u, j)'
      BY <3>4, <3>5, <3>8 DEF SettledInv
    <3> QED
      BY <3>7, <3>9, <3>10 DEF SettledInv
  <2>7. credit' = [credit EXCEPT ![t] = credit[t] + 1] => ~UNCHANGED credit
    BY <1>0, <2>3
  <2> QED
    BY <2>1, <2>5, <2>6, <2>7
<1>4. CASE MarkRefunded(q) \/ EndRefund(q)
  <2>1. UNCHANGED <<tx, credit>>
    BY <1>4, ReverseMoves
  <2>2. CASE UNCHANGED <<debit, invoice>>
    BY <1>2, <2>1, <2>2
  <2>3. ASSUME NEW t \in Tx, debit[t] = 0, debit' = [debit EXCEPT ![t] = 1],
               invoice' = IF tx[t].settled \in Invoice /\ invoice[tx[t].settled] = "paid"
                          THEN [invoice EXCEPT ![tx[t].settled] = "issued"] ELSE invoice
        PROVE  SettledInv'
    <3>1. \A u \in Tx, j \in Invoice : Stands(u, j)' <=> u # t /\ Stands(u, j)
      BY <1>0, <2>1, <2>3 DEF Stands
    <3>2. \A j \in Invoice : j # tx[t].settled =>
              invoice'[j] = invoice[j] /\ \A u \in Tx : Stands(u, j)' <=> Stands(u, j)
      BY <1>0, <2>3, <3>1 DEF Stands
    <3>3. tx[t].settled \in Invoice =>
              invoice'[tx[t].settled] = "issued" /\ \A u \in Tx : ~Stands(u, tx[t].settled)'
      <4>1. SUFFICES ASSUME NEW j \in Invoice, tx[t].settled = j
                     PROVE  invoice'[j] = "issued" /\ \A u \in Tx : ~Stands(u, j)'
        BY <2>1 DEF Stands
      <4>2. Stands(t, j)
        BY <2>3, <4>1 DEF Stands
      <4>3. invoice[j] = "paid"
        BY <4>2 DEF SettledInv
      <4>4. invoice'[j] = "issued"
        BY <1>0, <2>3, <4>1, <4>3
      <4>5. \A u \in Tx : Stands(u, j) => u = t
        BY <4>2 DEF SettledInv
      <4> QED
        BY <3>1, <4>4, <4>5
    <3>4. \A j \in Invoice : invoice'[j] = "paid" <=> \E u \in Tx : Stands(u, j)'
      <4>1. SUFFICES ASSUME NEW j \in Invoice
                     PROVE  invoice'[j] = "paid" <=> \E u \in Tx : Stands(u, j)'
        OBVIOUS
      <4>2. CASE j = tx[t].settled
        <5>1. invoice'[j] = "issued" /\ \A u \in Tx : ~Stands(u, j)'
          BY <3>3, <4>2, <2>1 DEF Stands
        <5> QED
          BY <5>1
      <4>3. CASE j # tx[t].settled
        BY <3>2, <4>3 DEF SettledInv
      <4> QED
        BY <4>2, <4>3
    <3>5. \A j \in Invoice, u, v \in Tx : Stands(u, j)' /\ Stands(v, j)' => u = v
      BY <3>1 DEF SettledInv
    <3>6. \A u \in Tx : credit'[u] = 0 => tx'[u].settled = NoInvoice
      BY <2>1 DEF SettledInv
    <3> QED
      BY <3>4, <3>5, <3>6 DEF SettledInv
  <2> QED
    BY <1>4, <2>2, <2>3, ReverseMoves
<1>5. CASE ~MarkSucceeded(q) /\ ~MarkRefunded(q) /\ ~EndRefund(q)
  BY <1>2, <1>5, TxEffect, BooksKept
<1> QED
  BY <1>3, <1>4, <1>5

----------------------------------------------------------------------------
(* Only the execution of a retry row counts. *)
LEMMA TriesKept ==
    ASSUME NEW q \in Proc, Process(q), ~ExecuteRetry(q)
    PROVE  UNCHANGED tries
<1>1. ASSUME ScheduleRetry(q) \/ RetryEnds(q) \/ CancelRetries(q) PROVE UNCHANGED tries
  BY <1>1 DEF ScheduleRetry, RetryEnds, CancelRetries
<1> QED
  BY <1>1, RetriesKept

(* The provider's view, and the number of faults. *)
LEMMA ProviderTypes ==
    ASSUME TypeOK, NEW q \in Proc, Process(q)
    PROVE  opened' \subseteq Tx /\ happened' \in [Tx -> SUBSET Kind] /\ faults' \in 0 .. MaxFaults
<1> DEFINE Good == opened' \subseteq Tx /\ happened' \in [Tx -> SUBSET Kind]
           Count == faults' \in 0 .. MaxFaults
<1>0. opened \subseteq Tx /\ happened \in [Tx -> SUBSET Kind] /\ faults \in 0 .. MaxFaults
  BY DEF TypeOK
<1>1. UNCHANGED provider => Good
  BY <1>0 DEF provider
<1>2. UNCHANGED faults \/ Fault => Count
  BY <1>0, GatewayAssumption DEF Fault
<1>3. ASSUME NEW t \in Tx, NEW ks \in SUBSET Kind,
             opened' = opened \cup {t}, happened' = [happened EXCEPT ![t] = @ \cup ks]
      PROVE  Good
  BY <1>0, <1>3
<1>4. ASSUME NEW t \in Tx, NEW answer \in Answer, Charge(t, answer) PROVE Good /\ Count
  <2>1. {} \in SUBSET Kind /\ {"succeeded"} \in SUBSET Kind /\ {"failed"} \cap Watched[t] \in SUBSET Kind
    BY DEF Kind
  <2>2. \/ UNCHANGED provider
        \/ \E ks \in SUBSET Kind : opened' = opened \cup {t} /\ happened' = [happened EXCEPT ![t] = @ \cup ks]
    BY <1>4, <2>1 DEF Charge
  <2>3. UNCHANGED faults \/ Fault
    BY <1>4 DEF Charge
  <2> QED
    BY <1>1, <1>2, <1>3, <2>2, <2>3
<1>5. ASSUME NEW i \in Invoice, NEW t \in Tx, CreateCheckoutSession(q, i, t) PROVE Good /\ Count
  <2>1. /\ opened' = opened \cup {t} \/ UNCHANGED opened
        /\ UNCHANGED happened /\ (UNCHANGED faults \/ Fault)
    BY <1>5 DEF CreateCheckoutSession
  <2> QED
    BY <1>0, <1>2, <2>1
<1>6. ASSUME NEW t \in Tx, ChargeRecurringProfile(q, t) PROVE Good /\ Count
  <2>1. \/ \E answer \in Answer : Charge(t, answer)
        \/ UNCHANGED <<provider, faults>>
    BY <1>6 DEF ChargeRecurringProfile
  <2> QED
    BY <1>1, <1>2, <1>4, <2>1
<1>7. ASSUME ExecuteRetry(q) PROVE Good /\ Count
  <2>1. \/ \E t \in Tx, answer \in Answer : Charge(t, answer)
        \/ UNCHANGED <<provider, faults>>
    BY <1>7 DEF ExecuteRetry
  <2> QED
    BY <1>1, <1>2, <1>4, <2>1
<1>8. ASSUME NEW t \in Tx, Refund(q, t) PROVE Good /\ Count
  <2>1. UNCHANGED opened /\ happened' = [happened EXCEPT ![t] = @ \cup {"refunded"}]
        /\ (UNCHANGED faults \/ Fault)
    BY <1>8 DEF Refund
  <2>2. "refunded" \in Kind
    BY DEF Kind
  <2> QED
    BY <1>0, <1>2, <2>1, <2>2
<1>9. ASSUME NEW e \in Event, ReceiveEvent(q, e) PROVE Good /\ Count
  BY <1>1, <1>2, <1>9 DEF ReceiveEvent
<1>10. ASSUME \/ EventError(q) \/ Crash(q) \/ SelectRetries(q) \/ StoreReference(q) \/ RecordCharge(q)
              \/ ScheduleRetry(q) \/ RetryEnds(q) \/ InsertEvent(q) \/ UpdateStatus(q)
              \/ MarkSucceeded(q) \/ CancelRetries(q) \/ MarkRefunded(q) \/ MarkOther(q)
              \/ RecordRefund(q) \/ EndRefund(q)
       PROVE  Good /\ Count
  <2>1. UNCHANGED provider /\ (UNCHANGED faults \/ Fault)
    BY <1>10 DEF EventError, Crash, SelectRetries, StoreReference, RecordCharge, ScheduleRetry,
                 RetryEnds, InsertEvent, UpdateStatus, MarkSucceeded, CancelRetries, MarkRefunded,
                 MarkOther, RecordRefund, EndRefund
  <2> QED
    BY <1>1, <1>2, <2>1
<1> HIDE DEF Good, Count
<1>11. Good /\ Count
  BY <1>5, <1>6, <1>7, <1>8, <1>9, <1>10 DEF Process, Step
<1> QED
  BY <1>11 DEF Good, Count

(* The types. *)
LEMMA TypeNext ==
    ASSUME TypeOK, RowInv, NEW q \in Proc, Process(q)
    PROVE  TypeOK'
<1>0. /\ tx \in [Tx -> TxRow] /\ credit \in [Tx -> Nat] /\ debit \in [Tx -> {0, 1}]
      /\ invoice \in [Invoice -> {"issued", "paid"}] /\ retry \in [Tx -> RetryRow]
      /\ tries \in [Tx -> Nat] /\ event \in [Event -> EventStatus] /\ job \in [Proc -> Job]
  BY DEF TypeOK, RetryRow, EventStatus
<1>1. tx' \in [Tx -> TxRow]
  <2>1. CASE MarkSucceeded(q)
    <3>1. UNCHANGED tx \/ \E t \in Tx, i \in Open : tx' = [tx EXCEPT ![t].settled = i]
      BY <2>1, SettleMoves
    <3>2. \A i \in Open : i \in Invoice \cup {NoInvoice}
      BY DEF Open
    <3>3. ASSUME NEW t \in Tx, NEW i \in Open, tx' = [tx EXCEPT ![t].settled = i]
          PROVE  tx' \in [Tx -> TxRow]
      <4> DEFINE x == [tx[t] EXCEPT !.settled = i]
      <4>1. x \in TxRow
        <5>1. i \in Invoice \cup {NoInvoice} /\ tx[t] \in TxRow
          BY <1>0, <3>2
        <5> QED
          BY <5>1 DEF TxRow
      <4>2. tx' = [tx EXCEPT ![t] = x]
        BY <1>0, <3>3
      <4> HIDE DEF x
      <4> QED
        BY <1>0, <4>1, <4>2
    <3> QED
      BY <1>0, <3>1, <3>3
  <2> QED
    BY <2>1, TxEffect
<1>2. credit' \in [Tx -> Nat] /\ debit' \in [Tx -> {0, 1}] /\ invoice' \in [Invoice -> {"issued", "paid"}]
  <2>1. CASE MarkSucceeded(q)
    <3>1. /\ UNCHANGED debit
          /\ UNCHANGED credit \/ \E t \in Tx : credit' = [credit EXCEPT ![t] = credit[t] + 1]
          /\ UNCHANGED invoice \/ \E i \in Open : invoice' = [invoice EXCEPT ![i] = "paid"]
      BY <2>1, SettleMoves
    <3> QED
      BY <1>0, <3>1
  <2>2. CASE MarkRefunded(q) \/ EndRefund(q)
    <3>1. /\ UNCHANGED credit
          /\ UNCHANGED debit \/ \E t \in Tx : debit' = [debit EXCEPT ![t] = 1]
          /\ UNCHANGED invoice \/ \E t \in Tx : invoice' = [invoice EXCEPT ![tx[t].settled] = "issued"]
      BY <2>2, ReverseMoves
    <3> QED
      BY <1>0, <3>1
  <2>3. CASE ~MarkSucceeded(q) /\ ~MarkRefunded(q) /\ ~EndRefund(q)
    BY <1>0, <2>3, BooksKept
  <2> QED
    BY <2>1, <2>2, <2>3
<1>3. retry' \in [Tx -> RetryRow]
  <2>1. UNCHANGED retry \/ \E t \in Tx, x \in RetryRow : retry' = [retry EXCEPT ![t] = x]
    BY RetryEffect DEF RetryMove
  <2> QED
    BY <1>0, <2>1
<1>4. tries' \in [Tx -> Nat]
  <2>1. CASE ExecuteRetry(q)
    <3>1. PICK b \in job[q].batch : tries' = [tries EXCEPT ![b.retry] = @ + 1]
      BY <2>1 DEF ExecuteRetry
    <3>2. b.retry \in Tx
      BY <1>0, <2>1, <3>1, JobFields, OrderFields DEF ExecuteRetry
    <3>3. tries[b.retry] + 1 \in Nat /\ tries' = [tries EXCEPT ![b.retry] = tries[b.retry] + 1]
      BY <1>0, <3>1, <3>2
    <3> QED
      BY <1>0, <3>2, <3>3
  <2> QED
    BY <1>0, <2>1, TriesKept
<1>5. event' \in [Event -> EventStatus]
  BY <1>0, EventEffect
<1>6. job' \in [Proc -> Job]
  BY <1>0, Moves
<1> QED
  BY <1>1, <1>2, <1>3, <1>4, <1>5, <1>6, ProviderTypes DEF TypeOK, RetryRow, EventStatus

----------------------------------------------------------------------------
(* The steps of a charge and of a retry task, by what the process holds    *)
(* after them.                                                             *)
LEMMA RecordMoves ==
    ASSUME TypeOK, NEW q \in Proc, RecordCharge(q)
    PROVE  /\ job[q].pc = "record"
           /\ job[q].order # NoOrder => job'[q].pc = "retried" /\ job'[q].order = job[q].order
           /\ job[q].order = NoOrder =>
                  /\ job'[q].pc \in {"idle", "schedule"}
                  /\ job'[q].pc = "schedule" => job'[q].tx = job[q].tx
<1>0. job \in [Proc -> Job]
  BY DEF TypeOK
<1> DEFINE x == [pc |-> "retried", order |-> job[q].order, status |-> job[q].status]
           y == [pc |-> "schedule", tx |-> job[q].tx]
<1>1. /\ x.pc = "retried" /\ x.order = job[q].order /\ y.pc = "schedule" /\ y.tx = job[q].tx
      /\ Idle.pc = "idle"
  BY DEF Idle
<1>2. /\ job[q].pc = "record"
      /\ job[q].order # NoOrder => job' = [job EXCEPT ![q] = x]
      /\ job[q].order = NoOrder => job' = [job EXCEPT ![q] = y] \/ job' = [job EXCEPT ![q] = Idle]
  BY DEF RecordCharge, Goto
<1> HIDE DEF x, y
<1>3. /\ job[q].order # NoOrder => job'[q] = x
      /\ job[q].order = NoOrder => job'[q] = y \/ job'[q] = Idle
  BY <1>0, <1>2
<1> QED
  BY <1>1, <1>2, <1>3

(* A batch holds pending rows as they are, one line for each. *)
LEMMA SelectMoves ==
    ASSUME TypeOK, NEW q \in Proc, SelectRetries(q)
    PROVE  /\ job'[q].pc = "batch"
           /\ \A b \in job'[q].batch : /\ b.retry \in Tx /\ retry[b.retry].status = "pending"
                                       /\ b.attempts = retry[b.retry].attempts
           /\ \A b, c \in job'[q].batch : b.retry = c.retry => b = c
<1>0. job \in [Proc -> Job]
  BY DEF TypeOK
<1>1. PICK due \in SUBSET Due :
        job' = [job EXCEPT ![q] =
                  [pc |-> "batch", batch |-> {[retry |-> t, attempts |-> retry[t].attempts] : t \in due}]]
  BY DEF SelectRetries, Goto
<1> DEFINE bs == {[retry |-> t, attempts |-> retry[t].attempts] : t \in due}
           x == [pc |-> "batch", batch |-> bs]
<1>2. \A b \in bs : b.retry \in due /\ b = [retry |-> b.retry, attempts |-> retry[b.retry].attempts]
  OBVIOUS
<1>3. \A t \in due : t \in Tx /\ retry[t].status = "pending"
  BY DEF Due
<1> HIDE DEF bs
<1>4. x.pc = "batch" /\ x.batch = bs
  OBVIOUS
<1>5. job' = [job EXCEPT ![q] = x]
  BY <1>1 DEF bs
<1> HIDE DEF x
<1>6. job'[q] = x
  BY <1>0, <1>5
<1>7. \A b \in bs : b.attempts = retry[b.retry].attempts
  BY <1>2
<1>8. \A b, c \in bs : b.retry = c.retry => b = c
  BY <1>2
<1> QED
  BY <1>2, <1>3, <1>4, <1>6, <1>7, <1>8

(* A line of the batch is in hand, the others wait. *)
LEMMA ExecuteMoves ==
    ASSUME TypeOK, NEW q \in Proc, ExecuteRetry(q)
    PROVE  /\ job[q].pc = "batch"
           /\ \E b \in job[q].batch :
                /\ b.retry \in Tx /\ b.attempts \in 0 .. (MaxAttempts - 1)
                /\ tries' = [tries EXCEPT ![b.retry] = tries[b.retry] + 1]
                /\ retry'[b.retry].status = "processing"
                /\ \A t \in Tx : t # b.retry => retry'[t] = retry[t]
                /\ InHand(job'[q]) /\ job'[q].order.retry = b.retry
                /\ job'[q].order.attempts = b.attempts /\ job'[q].order.batch = job[q].batch \ {b}
<1>0. job \in [Proc -> Job] /\ job[q] \in Job /\ retry \in [Tx -> RetryRow] /\ tries \in [Tx -> Nat]
  BY DEF TypeOK, RetryRow
<1>1. job[q].pc = "batch" /\ job[q].batch \subseteq Line
  BY <1>0, JobFields DEF ExecuteRetry
<1>2. PICK b \in job[q].batch :
        LET order == [retry |-> b.retry, attempts |-> b.attempts, batch |-> job[q].batch \ {b}] IN
        /\ retry' = [retry EXCEPT ![b.retry].status = "processing"]
        /\ tries' = [tries EXCEPT ![b.retry] = @ + 1]
        /\ \/ \E t \in Tx, answer \in Answer : Goto(q, After(t, order, answer))
           \/ Goto(q, After(b.retry, order, "thrown"))
  BY DEF ExecuteRetry
<1> DEFINE o == [retry |-> b.retry, attempts |-> b.attempts, batch |-> job[q].batch \ {b}]
<1>3. b.retry \in Tx /\ b.attempts \in 0 .. (MaxAttempts - 1)
  BY <1>1, OrderFields
<1>4. o \in Order /\ o.retry = b.retry /\ o.attempts = b.attempts /\ o.batch = job[q].batch \ {b}
  BY <1>1, <1>3 DEF Order
<1>5. PICK t \in Tx, answer \in Answer : job' = [job EXCEPT ![q] = After(t, o, answer)]
  <2>1. "thrown" \in Answer
    BY DEF Answer
  <2> QED
    BY <1>2, <1>3, <2>1 DEF Goto
<1> HIDE DEF o
<1>6. job'[q] = After(t, o, answer)
  BY <1>0, <1>5
<1>7. job'[q].pc \in {"record", "retried"} /\ job'[q].order = o /\ o # NoOrder
  BY <1>4, <1>6, AfterMoves, OrderFields
<1>8. retry'[b.retry].status = "processing" /\ \A u \in Tx : u # b.retry => retry'[u] = retry[u]
  BY <1>0, <1>2, <1>3 DEF RetryRow
<1>9. tries' = [tries EXCEPT ![b.retry] = tries[b.retry] + 1]
  BY <1>0, <1>2, <1>3
<1> QED
  BY <1>1, <1>3, <1>4, <1>7, <1>8, <1>9 DEF InHand

(* The row in hand is done with, and the batch goes on. *)
LEMMA EndMoves ==
    ASSUME TypeOK, NEW q \in Proc, RetryEnds(q)
    PROVE  /\ InHand(job[q]) /\ job[q].order \in Order
           /\ job'[q].pc \in {"idle", "batch"}
           /\ job'[q].pc = "batch" => job'[q].batch = job[q].order.batch
<1>0. job \in [Proc -> Job] /\ job[q] \in Job
  BY DEF TypeOK
<1>1. job[q].pc = "retried" /\ job[q].order \in Order /\ job[q].order # NoOrder
  BY <1>0, JobFields, OrderFields DEF RetryEnds
<1> DEFINE x == [pc |-> "batch", batch |-> job[q].order.batch]
<1>2. x.pc = "batch" /\ x.batch = job[q].order.batch
  OBVIOUS
<1>3. job' = [job EXCEPT ![q] = x] \/ job' = [job EXCEPT ![q] = Idle]
  BY DEF RetryEnds, Goto
<1> HIDE DEF x
<1>4. job'[q] = x \/ job'[q] = Idle
  BY <1>0, <1>3
<1> QED
  BY <1>1, <1>2, <1>4, JobMake DEF InHand

(* A process that charges for itself got the transaction when it was absent. *)
LEMMA ChargeMoves ==
    ASSUME TypeOK, NEW q \in Proc, NEW t \in Tx, ChargeRecurringProfile(q, t)
    PROVE  /\ tx[t].status = "absent" /\ tx'[t].status # "absent"
           /\ job'[q].pc \in {"idle", "record", "schedule"}
           /\ job'[q].pc = "record" => job'[q].order = NoOrder
           /\ job'[q].pc # "idle" => job'[q].tx = t
<1>0. job \in [Proc -> Job]
  BY DEF TypeOK
<1>1. tx[t].status = "absent" /\ tx'[t].status # "absent"
  <2> DEFINE i == Oldest(Open)
  <2>1. i \in Invoice
    BY OldestIsOpen DEF ChargeRecurringProfile
  <2>2. Total[i] \in Nat /\ i \in Invoice \cup {NoInvoice}
    BY <2>1, GatewayAssumption
  <2>3. Fresh(t) /\ \E status \in {"pending", "failed"} : InsertTx(t, "charge", Total[i], i, status)
    BY DEF ChargeRecurringProfile
  <2> HIDE DEF i
  <2> QED
    BY <2>2, <2>3, InsertMoves
<1> DEFINE x == [pc |-> "schedule", tx |-> t]
<1>2. x.pc = "schedule" /\ x.tx = t
  OBVIOUS
<1>3. \/ \E answer \in Answer : job' = [job EXCEPT ![q] = After(t, NoOrder, answer)]
      \/ job' = [job EXCEPT ![q] = x]
  BY DEF ChargeRecurringProfile, Goto
<1> HIDE DEF x
<1>4. job'[q] = x \/ \E answer \in Answer : job'[q] = After(t, NoOrder, answer)
  BY <1>0, <1>3
<1> QED
  BY <1>1, <1>2, <1>4, AfterMoves

(* Who may schedule a retry after its own step could before, or has just   *)
(* inserted the transaction.                                               *)
LEMMA OwnsNext ==
    ASSUME TypeOK, RowInv, NEW q \in Proc, Process(q), NEW t \in Tx, Owns(q, t)'
    PROVE  /\ UNCHANGED <<retry, tries>> /\ tx'[t].status # "absent"
           /\ Owns(q, t) \/ tx[t].status = "absent"
<1>0. job \in [Proc -> Job]
  BY DEF TypeOK
<1>1. RecordCharge(q) \/ \E u \in Tx : ChargeRecurringProfile(q, u)
  <2>1. PICK x \in Job :
          /\ job' = [job EXCEPT ![q] = x]
          /\ Owning(x) => RecordCharge(q) \/ \E u \in Tx : ChargeRecurringProfile(q, u)
    BY Moves
  <2>2. job'[q] = x
    BY <1>0, <2>1
  <2> QED
    BY <2>1, <2>2 DEF Owns, Owning
<1>2. UNCHANGED <<retry, tries>> /\ ~MarkSucceeded(q)
  <2>1. CASE RecordCharge(q)
    BY <2>1 DEF RecordCharge, MarkSucceeded, retries
  <2>2. CASE \E u \in Tx : ChargeRecurringProfile(q, u)
    BY <2>2, JobMake DEF ChargeRecurringProfile, MarkSucceeded, retries, Free
  <2> QED
    BY <1>1, <2>1, <2>2
<1>3. CASE RecordCharge(q)
  <2>1. Owns(q, t)
    BY <1>3, RecordMoves DEF Owns
  <2>2. tx[t].status # "absent"
    BY <2>1 DEF RowInv
  <2> QED
    BY <1>2, <2>1, <2>2, TxEffect
<1>4. CASE \E u \in Tx : ChargeRecurringProfile(q, u)
  <2>1. PICK u \in Tx : ChargeRecurringProfile(q, u)
    BY <1>4
  <2>2. u = t
    BY <2>1, ChargeMoves DEF Owns
  <2> QED
    BY <1>2, <2>1, <2>2, ChargeMoves
<1> QED
  BY <1>1, <1>3, <1>4

(* What a retry task has read after its own step it had read before, or    *)
(* has just selected.                                                      *)
LEMMA ReadNext ==
    ASSUME TypeOK, RowInv, NEW q \in Proc, Process(q), NEW t \in Tx, Read(q, t)'
    PROVE  retry[t].status # "none"
<1>0. job \in [Proc -> Job]
  BY DEF TypeOK
<1>1. RecordCharge(q) \/ SelectRetries(q) \/ ExecuteRetry(q) \/ RetryEnds(q)
  <2>1. PICK x \in Job :
          /\ job' = [job EXCEPT ![q] = x]
          /\ Retrying(x) => RecordCharge(q) \/ SelectRetries(q) \/ ExecuteRetry(q) \/ RetryEnds(q)
    BY Moves
  <2>2. job'[q] = x
    BY <1>0, <2>1
  <2> QED
    BY <2>1, <2>2 DEF Read, InHand, Retrying
<1>2. CASE SelectRetries(q)
  <2>1. job'[q].pc = "batch"
    BY <1>2, SelectMoves
  <2>2. \E b \in job'[q].batch : b.retry = t
    BY <2>1 DEF Read, InHand
  <2> QED
    BY <1>2, <2>2, SelectMoves
<1>3. CASE RecordCharge(q)
  <2>1. Read(q, t)
    BY <1>3, RecordMoves DEF Read, InHand
  <2> QED
    BY <2>1 DEF RowInv
<1>4. CASE ExecuteRetry(q)
  <2>1. Read(q, t)
    BY <1>4, ExecuteMoves DEF Read, InHand
  <2> QED
    BY <2>1 DEF RowInv
<1>5. CASE RetryEnds(q)
  <2>1. Read(q, t)
    BY <1>5, EndMoves DEF Read, InHand
  <2> QED
    BY <2>1 DEF RowInv
<1> QED
  BY <1>1, <1>2, <1>3, <1>4, <1>5

(* A retry row is written when it exists, or by the process that made the  *)
(* charge.                                                                 *)
LEMMA RowWriter ==
    ASSUME TypeOK, RowInv, NEW q \in Proc, NEW t \in Tx, NEW x, RetryMove(q, t, x)
    PROVE  retry[t].status # "none" \/ Owns(q, t)
<1>1. CASE ScheduleRetry(q) /\ job[q].tx = t
  BY <1>1 DEF ScheduleRetry, Owns
<1>2. CASE ExecuteRetry(q) /\ Read(q, t)
  BY <1>2 DEF RowInv
<1>3. CASE RetryEnds(q) /\ job[q].order.retry = t
  <2>1. Read(q, t)
    BY <1>3, EndMoves DEF Read
  <2> QED
    BY <2>1 DEF RowInv
<1> QED
  BY <1>1, <1>2, <1>3 DEF RetryMove

(* The life of a retry row. *)
LEMMA RowNext ==
    ASSUME TypeOK, RowInv, NEW q \in Proc, Process(q)
    PROVE  RowInv'
<1>0. /\ retry \in [Tx -> RetryRow] /\ tries \in [Tx -> Nat] /\ tx \in [Tx -> TxRow]
  BY DEF TypeOK, RetryRow
<1>1. \A t \in Tx : retry[t].status # "none" => retry'[t].status # "none"
  BY <1>0, RetryEffect DEF RetryMove
<1>2. \A t \in Tx : tx[t].status # "absent" => tx'[t].status # "absent"
  <2>1. CASE MarkSucceeded(q)
    <3>1. UNCHANGED tx \/ \E t \in Tx, i \in Open : tx' = [tx EXCEPT ![t].settled = i]
      BY <2>1, SettleMoves
    <3> QED
      BY <1>0, <3>1 DEF TxRow
  <2> QED
    BY <2>1, TxEffect
<1>3. ASSUME NEW t \in Tx, retry[t].status = "none", \/ tx[t].status = "absent"
                                                     \/ ~Owns(q, t)
      PROVE  retry'[t] = retry[t]
  <2>1. ~Owns(q, t)
    BY <1>3 DEF RowInv
  <2> QED
    BY <1>0, <1>3, <2>1, RetryEffect, RowWriter DEF RetryMove
<1>4. ASSUME NEW t \in Tx, retry'[t].status = "none" PROVE tries'[t] = 0
  <2>1. retry[t].status = "none" /\ tries[t] = 0
    BY <1>1, <1>4 DEF RowInv
  <2>2. CASE ExecuteRetry(q)
    <3>1. PICK b \in job[q].batch :
            /\ b.retry \in Tx /\ tries' = [tries EXCEPT ![b.retry] = tries[b.retry] + 1]
            /\ retry'[b.retry].status = "processing"
      BY <2>2, ExecuteMoves
    <3>2. t # b.retry
      BY <1>4, <3>1
    <3> QED
      BY <1>0, <2>1, <3>1, <3>2
  <2> QED
    BY <2>1, <2>2, TriesKept
<1>5. ASSUME NEW t \in Tx, tx'[t].status = "absent" PROVE retry'[t].status = "none"
  <2>1. tx[t].status = "absent" /\ retry[t].status = "none"
    BY <1>2, <1>5 DEF RowInv
  <2> QED
    BY <1>3, <2>1
<1>6. \A t \in Tx : retry'[t].status = "pending" => retry'[t].attempts < MaxAttempts
  BY <1>0, RetryEffect DEF RetryMove, RowInv
<1>7. ASSUME NEW p \in Proc, NEW t \in Tx, Owns(p, t)', p # q
      PROVE  Owns(p, t) /\ retry[t].status = "none" /\ tx[t].status # "absent"
  <2>1. Owns(p, t)
    BY <1>7, OthersKeep DEF Owns
  <2> QED
    BY <2>1 DEF RowInv
<1>8. ASSUME NEW p \in Proc, NEW t \in Tx, Owns(p, t)'
      PROVE  retry'[t].status = "none" /\ tx'[t].status # "absent"
  <2>1. CASE p = q
    <3>1. UNCHANGED retry /\ tx'[t].status # "absent"
      BY <1>8, <2>1, OwnsNext
    <3>2. retry[t].status = "none"
      BY <1>8, <2>1, OwnsNext DEF RowInv
    <3> QED
      BY <3>1, <3>2
  <2>2. CASE p # q
    <3>1. Owns(p, t) /\ retry[t].status = "none" /\ tx[t].status # "absent"
      BY <1>7, <1>8, <2>2
    <3>2. ~Owns(q, t)
      BY <2>2, <3>1 DEF RowInv
    <3> QED
      BY <1>2, <1>3, <3>1, <3>2
  <2> QED
    BY <2>1, <2>2
<1>9. ASSUME NEW p \in Proc, NEW t \in Tx, Owns(p, t)', Owns(q, t)' PROVE p = q
  <2>1. CASE p # q
    <3>1. Owns(p, t) /\ tx[t].status # "absent"
      BY <1>7, <1>9, <2>1
    <3>2. Owns(q, t)
      BY <1>9, <3>1, OwnsNext
    <3> QED
      BY <3>1, <3>2 DEF RowInv
  <2> QED
    BY <2>1
<1>10. ASSUME NEW p \in Proc, NEW r \in Proc, NEW t \in Tx, Owns(p, t)', Owns(r, t)' PROVE p = r
  <2>1. CASE p # q /\ r # q
    <3>1. Owns(p, t) /\ Owns(r, t)
      BY <1>7, <1>10, <2>1
    <3> QED
      BY <3>1 DEF RowInv
  <2> QED
    BY <1>9, <1>10, <2>1
<1>11. ASSUME NEW p \in Proc, NEW t \in Tx, Read(p, t)' PROVE retry'[t].status # "none"
  <2>1. CASE p = q
    BY <1>1, <1>11, <2>1, ReadNext
  <2>2. CASE p # q
    <3>1. Read(p, t)
      BY <1>11, <2>2, OthersKeep DEF Read, InHand
    <3> QED
      BY <1>1, <3>1 DEF RowInv
  <2> QED
    BY <2>1, <2>2
<1> QED
  BY <1>4, <1>5, <1>6, <1>8, <1>10, <1>11 DEF RowInv

----------------------------------------------------------------------------
(* A retry task begins when none is under way. *)
LEMMA RetryingNext ==
    ASSUME TypeOK, RowInv, BudgetInv, MaxRunners = 1, NEW q \in Proc, Process(q), Retrying(job'[q])
    PROVE  \A p \in Proc : Retrying(job[p]) => p = q
<1>0. job \in [Proc -> Job]
  BY DEF TypeOK
<1>1. RecordCharge(q) \/ SelectRetries(q) \/ ExecuteRetry(q) \/ RetryEnds(q)
  <2>1. PICK x \in Job :
          /\ job' = [job EXCEPT ![q] = x]
          /\ Retrying(x) => RecordCharge(q) \/ SelectRetries(q) \/ ExecuteRetry(q) \/ RetryEnds(q)
    BY Moves
  <2>2. job'[q] = x
    BY <1>0, <2>1
  <2> QED
    BY <2>1, <2>2
<1>2. CASE SelectRetries(q)
  <2> DEFINE S == {p \in Proc : Retrying(job[p])}
  <2>1. Cardinality(S) < 1
    BY <1>2 DEF SelectRetries
  <2>2. IsFiniteSet(S)
    BY GatewayAssumption, FS_Subset
  <2>3. Cardinality(S) = 0
    BY <2>1, <2>2, FS_CardinalityType
  <2>4. S = {}
    BY <2>2, <2>3, FS_EmptySet
  <2> QED
    BY <2>4
<1>3. CASE RecordCharge(q) \/ ExecuteRetry(q) \/ RetryEnds(q)
  <2>1. Retrying(job[q])
    <3>1. CASE RecordCharge(q)
      BY <3>1, RecordMoves DEF Retrying
    <3>2. CASE ExecuteRetry(q)
      BY <3>2 DEF ExecuteRetry, Retrying
    <3>3. CASE RetryEnds(q)
      BY <3>3, EndMoves DEF InHand, Retrying
    <3> QED
      BY <1>3, <3>1, <3>2, <3>3
  <2> QED
    BY <2>1 DEF BudgetInv
<1> QED
  BY <1>1, <1>2, <1>3

(* The rows a task still has to execute, after its own step. *)
LEMMA FitsNext ==
    ASSUME TypeOK, RowInv, BudgetInv, MaxRunners = 1, NEW q \in Proc, Process(q)
    PROVE  FitsJob(job[q])'
<1>0. /\ job \in [Proc -> Job] /\ job[q] \in Job /\ tries \in [Tx -> Nat]
      /\ retry \in [Tx -> RetryRow]
  BY DEF TypeOK, RetryRow
<1>1. FitsJob(job[q])
  BY DEF BudgetInv
<1>2. CASE ~(RecordCharge(q) \/ SelectRetries(q) \/ ExecuteRetry(q) \/ RetryEnds(q))
  <2>1. ~Retrying(job'[q])
    <3>1. PICK x \in Job :
            /\ job' = [job EXCEPT ![q] = x]
            /\ Retrying(x) => RecordCharge(q) \/ SelectRetries(q) \/ ExecuteRetry(q) \/ RetryEnds(q)
      BY Moves
    <3>2. job'[q] = x
      BY <1>0, <3>1
    <3> QED
      BY <1>2, <3>1, <3>2
  <2> QED
    BY <2>1 DEF FitsJob, InHand, Retrying
<1>3. CASE RecordCharge(q)
  <2>1. UNCHANGED tries
    BY <1>3 DEF RecordCharge, retries
  <2>2. CASE job[q].order # NoOrder
    <3>1. job'[q].pc = "retried" /\ job'[q].order = job[q].order /\ InHand(job[q])
      BY <1>3, <2>2, RecordMoves DEF InHand
    <3> QED
      BY <1>1, <2>1, <3>1 DEF FitsJob, Fits, InHand
  <2>3. CASE job[q].order = NoOrder
    BY <1>3, <2>3, RecordMoves DEF FitsJob, InHand
  <2> QED
    BY <2>2, <2>3
<1>4. CASE SelectRetries(q)
  <2>1. UNCHANGED tries
    BY <1>4 DEF SelectRetries, retries
  <2>2. /\ job'[q].pc = "batch"
        /\ \A b \in job'[q].batch : /\ b.retry \in Tx /\ retry[b.retry].status = "pending"
                                    /\ b.attempts = retry[b.retry].attempts
        /\ \A b, c \in job'[q].batch : b.retry = c.retry => b = c
    BY <1>4, SelectMoves
  <2>3. \A b \in job'[q].batch : tries[b.retry] <= b.attempts
    BY <2>2 DEF BudgetInv
  <2> QED
    BY <2>1, <2>2, <2>3 DEF FitsJob, Fits, InHand
<1>5. CASE ExecuteRetry(q)
  <2>1. job[q].pc = "batch" /\ job[q].batch \subseteq Line
    BY <1>0, <1>5, JobFields DEF ExecuteRetry
  <2>2. PICK b \in job[q].batch :
          /\ b.retry \in Tx /\ b.attempts \in 0 .. (MaxAttempts - 1)
          /\ tries' = [tries EXCEPT ![b.retry] = tries[b.retry] + 1]
          /\ InHand(job'[q]) /\ job'[q].order.retry = b.retry
          /\ job'[q].order.attempts = b.attempts /\ job'[q].order.batch = job[q].batch \ {b}
    BY <1>5, ExecuteMoves
  <2>3. \A c \in job[q].batch : /\ tries[c.retry] <= c.attempts /\ c.retry \in Tx
                                /\ \A d \in job[q].batch : d.retry = c.retry => d = c
    BY <1>1, <2>1, OrderFields DEF FitsJob, Fits
  <2>4. \A c \in job[q].batch \ {b} : c.retry # b.retry
    BY <2>3
  <2>5. \A c \in job[q].batch \ {b} : tries'[c.retry] = tries[c.retry]
    BY <1>0, <2>2, <2>3, <2>4
  <2>6. tries'[b.retry] <= b.attempts + 1
    <3>1. tries'[b.retry] = tries[b.retry] + 1 /\ tries[b.retry] \in Nat
      BY <1>0, <2>2
    <3>2. tries[b.retry] <= b.attempts /\ b.attempts \in Nat
      BY <2>2, <2>3, GatewayAssumption
    <3> QED
      BY <3>1, <3>2
  <2>7. job'[q].pc # "batch"
    BY <2>2 DEF InHand
  <2> QED
    BY <2>2, <2>3, <2>4, <2>5, <2>6, <2>7 DEF FitsJob, Fits
<1>6. CASE RetryEnds(q)
  <2>1. UNCHANGED tries
    BY <1>6 DEF RetryEnds
  <2>2. Fits(job[q].order.batch)
    BY <1>1, <1>6, EndMoves DEF FitsJob
  <2> QED
    BY <1>6, <2>1, <2>2, EndMoves DEF FitsJob, Fits, InHand
<1> QED
  BY <1>2, <1>3, <1>4, <1>5, <1>6

(* The budget of a retry row. *)
LEMMA BudgetNext ==
    ASSUME TypeOK, RowInv, BudgetInv, NEW q \in Proc, Process(q)
    PROVE  BudgetInv'
<1> SUFFICES ASSUME MaxRunners = 1
             PROVE  /\ \A p, r \in Proc : Retrying(job'[p]) /\ Retrying(job'[r]) => p = r
                    /\ \A t \in Tx : retry'[t].status = "pending" => tries'[t] <= retry'[t].attempts
                    /\ \A t \in Tx : tries'[t] <= MaxAttempts
                    /\ \A p \in Proc : FitsJob(job[p])'
  BY DEF BudgetInv
<1>0. /\ job \in [Proc -> Job] /\ job[q] \in Job /\ tries \in [Tx -> Nat]
      /\ retry \in [Tx -> RetryRow]
  BY DEF TypeOK, RetryRow
<1>1. ASSUME NEW p \in Proc, NEW r \in Proc, Retrying(job'[p]), Retrying(job'[r]) PROVE p = r
  <2>1. CASE p # q /\ r # q
    <3>1. job'[p] = job[p] /\ job'[r] = job[r]
      BY <2>1, OthersKeep
    <3> QED
      BY <1>1, <3>1 DEF BudgetInv
  <2>2. ASSUME NEW s \in Proc, s # q, Retrying(job'[s]), Retrying(job'[q]) PROVE FALSE
    <3>1. Retrying(job[s])
      BY <2>2, OthersKeep
    <3> QED
      BY <2>2, <3>1, RetryingNext
  <2> QED
    BY <1>1, <2>1, <2>2
<1>2. ASSUME NEW p \in Proc PROVE FitsJob(job[p])'
  <2>1. CASE p = q
    BY <2>1, FitsNext
  <2>2. CASE p # q /\ Retrying(job[p])
    <3>1. ~ExecuteRetry(q)
      <4>1. ExecuteRetry(q) => Retrying(job[q])
        BY DEF ExecuteRetry, Retrying
      <4> QED
        BY <2>2, <4>1 DEF BudgetInv
    <3>2. UNCHANGED tries /\ job'[p] = job[p]
      BY <2>2, <3>1, TriesKept, OthersKeep
    <3>3. FitsJob(job[p])
      BY DEF BudgetInv
    <3> QED
      BY <3>2, <3>3 DEF FitsJob, Fits, InHand
  <2>3. CASE p # q /\ ~Retrying(job[p])
    <3>1. job'[p] = job[p]
      BY <2>3, OthersKeep
    <3> QED
      BY <2>3, <3>1 DEF FitsJob, InHand, Retrying
  <2> QED
    BY <2>1, <2>2, <2>3
<1>3. ASSUME NEW t \in Tx PROVE tries'[t] <= MaxAttempts
  <2>1. tries[t] <= MaxAttempts
    BY DEF BudgetInv
  <2>2. CASE ExecuteRetry(q)
    <3>1. PICK b \in job[q].batch :
            /\ b.retry \in Tx /\ b.attempts \in 0 .. (MaxAttempts - 1)
            /\ tries' = [tries EXCEPT ![b.retry] = tries[b.retry] + 1]
      BY <2>2, ExecuteMoves
    <3>2. tries[b.retry] <= b.attempts
      BY <2>2 DEF BudgetInv, FitsJob, Fits, ExecuteRetry
    <3>3. tries[b.retry] + 1 <= MaxAttempts
      <4>1. tries[b.retry] \in Nat
        BY <1>0, <3>1
      <4> QED
        BY <3>1, <3>2, <4>1, GatewayAssumption
    <3> QED
      BY <1>0, <2>1, <3>1, <3>3
  <2> QED
    BY <2>1, <2>2, TriesKept
<1>4. ASSUME NEW t \in Tx, retry'[t].status = "pending" PROVE tries'[t] <= retry'[t].attempts
  <2>1. CASE ExecuteRetry(q)
    <3>1. PICK b \in job[q].batch :
            /\ b.retry \in Tx /\ tries' = [tries EXCEPT ![b.retry] = tries[b.retry] + 1]
            /\ retry'[b.retry].status = "processing"
            /\ \A u \in Tx : u # b.retry => retry'[u] = retry[u]
      BY <2>1, ExecuteMoves
    <3>2. t # b.retry
      BY <1>4, <3>1
    <3>3. retry'[t] = retry[t] /\ tries'[t] = tries[t]
      BY <1>0, <3>1, <3>2
    <3> QED
      BY <1>4, <3>3 DEF BudgetInv
  <2>2. CASE ~ExecuteRetry(q)
    <3>1. UNCHANGED tries
      BY <2>2, TriesKept
    <3>2. CASE retry'[t] = retry[t]
      BY <1>4, <3>1, <3>2 DEF BudgetInv
    <3>3. CASE retry'[t] # retry[t]
      <4>1. PICK u \in Tx, x \in RetryRow : RetryMove(q, u, x)
        BY <3>3, RetryEffect
      <4>2. u = t /\ retry'[t] = x
        BY <1>0, <3>3, <4>1 DEF RetryMove
      <4>3. CASE ScheduleRetry(q) /\ job[q].tx = t /\ x.attempts = 0
        <5>1. Owns(q, t)
          BY <4>3 DEF ScheduleRetry, Owns
        <5>2. tries[t] = 0
          BY <5>1 DEF RowInv
        <5> QED
          BY <3>1, <4>2, <4>3, <5>2
      <4>4. CASE /\ RetryEnds(q) /\ job[q].order.retry = t
                 /\ x.attempts = job[q].order.attempts + 1
        <5>1. InHand(job[q]) /\ FitsJob(job[q])
          BY <4>4, EndMoves DEF BudgetInv
        <5> QED
          BY <3>1, <4>2, <4>4, <5>1 DEF FitsJob
      <4> QED
        BY <1>4, <2>2, <4>1, <4>2, <4>3, <4>4 DEF RetryMove
    <3> QED
      BY <3>2, <3>3
  <2> QED
    BY <2>1, <2>2
<1> QED
  BY <1>1, <1>2, <1>3, <1>4

----------------------------------------------------------------------------
(* What the provider does on its own changes what happened, nothing else.  *)
LEMMA ProviderNext ==
    ASSUME Inv, NEW t \in Tx, ProviderActs(t)
    PROVE  Inv'
<1>1. UNCHANGED <<tx, credit, debit, invoice, retry, tries, event, opened, job, faults>>
  BY DEF ProviderActs, books, retries
<1>2. happened' \in [Tx -> SUBSET Kind]
  <2>1. PICK k \in Watched[t] : happened' = [happened EXCEPT ![t] = @ \cup {k}]
    BY DEF ProviderActs
  <2>2. k \in Kind
    BY GatewayAssumption DEF Tx, Kind
  <2> QED
    BY <2>1, <2>2 DEF Inv, TypeOK
<1>3. TypeOK'
  BY <1>1, <1>2 DEF Inv, TypeOK
<1>4. EventInv'
  BY <1>1 DEF Inv, EventInv, Handles
<1>5. LedgerInv' /\ SettledInv'
  BY <1>1 DEF Inv, LedgerInv, SettledInv, Stands
<1>6. RowInv'
  BY <1>1 DEF Inv, RowInv, Owns, Read, InHand
<1>7. BudgetInv'
  BY <1>1 DEF Inv, BudgetInv, FitsJob, Fits, InHand
<1> QED
  BY <1>3, <1>4, <1>5, <1>6, <1>7 DEF Inv

(* Nothing happens. *)
LEMMA StutterNext == ASSUME Inv, UNCHANGED vars PROVE Inv'
<1> USE DEF vars, Inv
<1>1. TypeOK' /\ EventInv'
  BY DEF TypeOK, EventInv, Handles
<1>2. LedgerInv' /\ SettledInv'
  BY DEF LedgerInv, SettledInv, Stands
<1>3. RowInv'
  BY DEF RowInv, Owns, Read, InHand
<1>4. BudgetInv'
  BY DEF BudgetInv, FitsJob, Fits, InHand
<1> QED
  BY <1>1, <1>2, <1>3, <1>4

(* Inv holds in every state of card payments: the unique key on            *)
(* webhook_events, the locked row of reconcilePayment and the lock around  *)
(* retry_failed_charges are all that the rest needs.                       *)
THEOREM Invariance == Spec => []Inv
<1>1. Init => Inv
  BY InvInit
<1>2. Inv /\ [Next]_vars => Inv'
  <2> SUFFICES ASSUME Inv, [Next]_vars PROVE Inv'
    OBVIOUS
  <2>1. ASSUME NEW q \in Proc, Process(q) PROVE Inv'
    <3>1. TypeOK' /\ RowInv'
      BY <2>1, TypeNext, RowNext DEF Inv
    <3>2. EventInv' /\ LedgerInv'
      BY <2>1, EventNext, LedgerNext DEF Inv
    <3>3. SettledInv' /\ BudgetInv'
      BY <2>1, SettledNext, BudgetNext DEF Inv
    <3> QED
      BY <3>1, <3>2, <3>3 DEF Inv
  <2>2. ASSUME NEW t \in Tx, ProviderActs(t) PROVE Inv'
    BY <2>2, ProviderNext
  <2>3. ASSUME UNCHANGED vars PROVE Inv'
    BY <2>3, StutterNext
  <2>4. Next => (\E q \in Proc : Process(q)) \/ \E t \in Tx : ProviderActs(t)
    BY DEF Next, Process
  <2> QED
    BY <2>1, <2>2, <2>3, <2>4
<1> QED
  BY <1>1, <1>2, PTL DEF Spec

(* The columns keep their types, and the number of attempts that the retry *)
(* task writes back from an old copy of its row never exceeds max_attempts. *)
THEOREM TypeCorrect == Spec => []TypeOK
<1>1. Inv => TypeOK
  BY DEF Inv
<1> QED
  BY <1>1, Invariance, PTL

(* reconcilePayment credits a transaction at most once, and reverseRefund  *)
(* debits it at most once and never without the credit, however often, in  *)
(* whatever order and on however many processes events are delivered.      *)
THEOREM CreditedOnceHolds == Spec => []CreditedOnce
<1>1. Inv => CreditedOnce
  BY DEF Inv, LedgerInv, CreditedOnce
<1> QED
  BY <1>1, Invariance, PTL

(* An invoice is paid exactly while the payment that moved it to paid      *)
(* stands: refunds re-open the invoice of their own payment and no other.  *)
THEOREM PaidIffSettledHolds == Spec => []PaidIffSettled
<1>1. Inv => PaidIffSettled
  BY DEF Inv, SettledInv, Stands, PaidIffSettled
<1> QED
  BY <1>1, Invariance, PTL

(* One retry task at a time executes a retry row at most max_attempts      *)
(* times, whatever crashes, fails or cancels the row meanwhile.            *)
THEOREM ChargeBudgetHolds == Spec => []ChargeBudget
<1>1. Inv => ChargeBudget
  BY DEF Inv, BudgetInv, ChargeBudget
<1> QED
  BY <1>1, Invariance, PTL

-----------------------------------------------------------------------------
(* The circuit breaker around every call to a gateway opens only on a real *)
(* outage, for any number of callers, any threshold and any cooldown.      *)

(* The counter is never ahead of the streak of failures the service really *)
(* showed, and the label "open" is only left by a full streak.             *)
BreakerInv == /\ BreakerTypeOK
              /\ failures = streak
              /\ state = "open" => failures >= Threshold

(* The numbers a breaker is made with. *)
LEMMA BreakerNumbers ==
    /\ Threshold \in Nat /\ Threshold > 0
    /\ ResetMs \in Nat
    /\ Cooled \in Nat /\ Cooled = ResetMs + 1
<1>1. Threshold \in Nat \ {0} /\ ResetMs \in Nat
  BY BreakerAssumption
<1> QED
  BY <1>1 DEF Cooled

(* A breaker just made satisfies it. *)
LEMMA BreakerInvInit == BreakerInit => BreakerInv
<1> SUFFICES ASSUME BreakerInit PROVE BreakerInv
  OBVIOUS
<1>1. age \in 0..Cooled
  BY BreakerNumbers DEF BreakerInit
<1>2. pc \in [Caller -> {"idle", "await"}]
  BY DEF BreakerInit
<1> QED
  BY <1>1, <1>2 DEF BreakerInit, BreakerInv, BreakerTypeOK

(* Every step of a caller or of the clock keeps it. *)
LEMMA BreakerInvNext ==
    ASSUME BreakerInv, [BreakerNext]_breaker
    PROVE  BreakerInv'
<1> USE BreakerNumbers DEF BreakerInv, BreakerTypeOK
<1>1. ASSUME NEW c \in Caller, CallRejected(c) PROVE BreakerInv'
  BY <1>1 DEF CallRejected, IsOpen, IsOpenLabel
<1>2. ASSUME NEW c \in Caller, CallAdmitted(c) PROVE BreakerInv'
  BY <1>2 DEF CallAdmitted, IsOpen, IsOpenLabel
<1>3. ASSUME NEW c \in Caller, RecordSuccess(c) PROVE BreakerInv'
  BY <1>3 DEF RecordSuccess
<1>4. ASSUME NEW c \in Caller, RecordFailure(c) PROVE BreakerInv'
  <2>1. /\ failures' = streak' /\ failures' \in Nat /\ age' \in 0..Cooled
        /\ state' = "open" => failures' >= Threshold
    BY <1>4 DEF RecordFailure
  <2>2. pc' \in [Caller -> {"idle", "await"}]
    BY <1>4 DEF RecordFailure
  <2> QED
    BY <1>4, <2>1, <2>2 DEF RecordFailure
<1>5. CASE GetState
  BY <1>5 DEF GetState, IsOpenLabel
<1>6. CASE Reset
  <2>1. age' \in 0..Cooled
    BY <1>6 DEF Reset
  <2> QED
    BY <1>6, <2>1 DEF Reset
<1>7. CASE Tick
  <2>1. age' \in 0..Cooled
    BY <1>7 DEF Tick
  <2> QED
    BY <1>7, <2>1 DEF Tick
<1>8. CASE UNCHANGED breaker
  BY <1>8 DEF breaker
<1> QED
  BY <1>1, <1>2, <1>3, <1>4, <1>5, <1>6, <1>7, <1>8 DEF BreakerNext

(* Type correctness of createCircuitBreaker's state. *)
THEOREM BreakerTypeCorrect == BreakerSpec => []BreakerTypeOK
<1>1. BreakerInv => BreakerTypeOK
  BY DEF BreakerInv
<1>2. BreakerInv /\ [BreakerNext]_breaker => BreakerInv'
  BY BreakerInvNext
<1>3. BreakerInit => BreakerInv
  BY BreakerInvInit
<1> QED
  BY <1>1, <1>2, <1>3, PTL DEF BreakerSpec

(* isOpen() turns a caller away only after Threshold failures in a row,    *)
(* whatever the overlap of the calls.                                      *)
THEOREM BreakerOpensOnOutage == BreakerSpec => []OpenMeansOutage
<1>1. BreakerInv => OpenMeansOutage
  BY BreakerNumbers DEF BreakerInv, OpenMeansOutage, IsOpen, BreakerTypeOK
<1>2. BreakerInv /\ [BreakerNext]_breaker => BreakerInv'
  BY BreakerInvNext
<1>3. BreakerInit => BreakerInv
  BY BreakerInvInit
<1> QED
  BY <1>1, <1>2, <1>3, PTL DEF BreakerSpec

(* Counting the calls in flight: one more when call() passes isOpen(), one *)
(* fewer when it settles.                                                  *)
LEMMA InFlightFinite ==
    /\ IsFiniteSet(InFlight)
    /\ Cardinality(InFlight) \in Nat
    /\ Cardinality(Caller) \in Nat
    /\ Cardinality(InFlight) <= Cardinality(Caller)
  BY BreakerAssumption, FS_Subset, FS_CardinalityType, FS_Subset DEF InFlight

(* Every step keeps the overrun within its bound until a probe goes out. *)
LEMMA OverrunStep ==
    ASSUME BreakerTypeOK, BreakerTypeOK', OverrunBounded, [BreakerNext]_breaker
    PROVE  OverrunBounded'
<1>0. /\ IsFiniteSet(InFlight) /\ Cardinality(InFlight) \in Nat
      /\ Cardinality(Caller) \in Nat /\ Cardinality(InFlight) <= Cardinality(Caller)
  BY InFlightFinite
<1>0p. /\ IsFiniteSet(InFlight') /\ Cardinality(InFlight') \in Nat
       /\ Cardinality(InFlight') <= Cardinality(Caller)
  <2>1. InFlight' \subseteq Caller
    BY DEF InFlight
  <2> QED
    BY <2>1, BreakerAssumption, FS_Subset, FS_CardinalityType
<1>1. ASSUME NEW c \in Caller, CallAdmitted(c) PROVE OverrunBounded'
  <2>1. InFlight' = InFlight \cup {c} /\ c \notin InFlight
    BY <1>1 DEF CallAdmitted, InFlight, BreakerTypeOK
  <2>2. Cardinality(InFlight') = Cardinality(InFlight) + 1
    BY <2>1, <1>0, FS_AddElement
  <2>3. CASE failures < Threshold
    <3>1. failures' = failures /\ failures \in Nat
      BY <1>1 DEF CallAdmitted, BreakerTypeOK
    <3> QED
      BY <2>3, <3>1, <1>0p, <1>0, BreakerNumbers DEF OverrunBounded
  <2>4. CASE ~(failures < Threshold)
    <3>1. age > ResetMs
      BY <2>4, <1>1, BreakerNumbers DEF CallAdmitted, IsOpen, BreakerTypeOK
    <3>2. IsOpenLabel = "half-open"
      BY <2>4, <3>1 DEF IsOpenLabel
    <3> QED
      BY <3>2, <1>1 DEF CallAdmitted, OverrunBounded
  <2> QED
    BY <2>3, <2>4
<1>2. ASSUME NEW c \in Caller, RecordFailure(c) PROVE OverrunBounded'
  <2>1. InFlight' = InFlight \ {c} /\ c \in InFlight
    BY <1>2 DEF RecordFailure, InFlight, BreakerTypeOK
  <2>2. Cardinality(InFlight') = Cardinality(InFlight) - 1
    BY <2>1, <1>0, FS_RemoveElement
  <2> QED
    BY <2>2, <1>2, <1>0, BreakerNumbers DEF RecordFailure, OverrunBounded, BreakerTypeOK
<1>3. ASSUME NEW c \in Caller, RecordSuccess(c) PROVE OverrunBounded'
  BY <1>3, <1>0, <1>0p, BreakerNumbers DEF RecordSuccess, OverrunBounded
<1>4. CASE Reset
  BY <1>4, <1>0, <1>0p, BreakerNumbers DEF Reset, OverrunBounded
<1>5. ASSUME NEW c \in Caller, CallRejected(c) PROVE OverrunBounded'
  BY <1>5 DEF CallRejected, OverrunBounded, InFlight
<1>6. CASE GetState \/ Tick \/ UNCHANGED breaker
  BY <1>6 DEF GetState, Tick, breaker, OverrunBounded, InFlight
<1> QED
  BY <1>1, <1>2, <1>3, <1>4, <1>5, <1>6 DEF BreakerNext

(* An outage costs at most Threshold - 1 failed calls and one for each     *)
(* caller before call() has kept a full cooldown, for every number of      *)
(* callers and every order in which they settle.                           *)
THEOREM BreakerOverrunBounded == BreakerSpec => []OverrunBounded
<1>1. BreakerInit => OverrunBounded
  BY BreakerNumbers, InFlightFinite DEF BreakerInit, OverrunBounded
<1>2. BreakerSpec => []BreakerTypeOK
  BY BreakerTypeCorrect
<1>3. BreakerTypeOK /\ BreakerTypeOK' /\ OverrunBounded /\ [BreakerNext]_breaker
        => OverrunBounded'
  BY OverrunStep
<1> QED
  BY <1>1, <1>2, <1>3, PTL DEF BreakerSpec
============================================================================
