----------------------------- MODULE Receivables -----------------------------
(***************************************************************************)
(* Payments, the invoices of one contract, and the allocations between    *)
(* them: routes/payments.js, controllers/billingController.js,             *)
(* paymentAllocationService, billingService and the over-allocation        *)
(* triggers of schema.sql.  Invoices are numbered in the order of their    *)
(* issue date.  A request is a sequence of autocommit statements and       *)
(* transactions; job[q] is what request or task q has left to do.          *)
(*                                                                         *)
(* The amounts requests ask for are positive.  The code does not ask for   *)
(* that: /allocate takes 0, /reallocate and /billing/allocate-payment take *)
(* a negative amount too, and such rows are left out.                      *)
(***************************************************************************)
EXTENDS Integers, FiniteSets, FiniteSetsExt, Functions

CONSTANTS Proc,     \* concurrent requests and tasks
          Payment,  \* payments of the client
          Invoice,  \* its invoices, naturals in the order of issue_date
          Amount,   \* the amount each payment is created with
          Total,    \* the total of each invoice
          Stamped,  \* invoices with a live CFDI: cancelled at SAT, never voided
          MaxCredit,\* ledger rows of one payment are counted up to this bound
          MaxBuried,\* bound: pairs with a soft-deleted allocation
          MaxEdits  \* bound: edits of a payment's amount

ASSUME ReceivablesAssumption ==
    /\ IsFiniteSet(Payment) /\ IsFiniteSet(Invoice)
    /\ Invoice \subseteq Nat /\ Stamped \subseteq Invoice /\ MaxCredit \in Nat \ {0}
    /\ MaxBuried \in Nat /\ MaxEdits \in Nat
    /\ Amount \in [Payment -> Nat \ {0}] /\ Total \in [Invoice -> Nat \ {0}]

VARIABLES alloc,      \* alloc[p][i]: the live allocation, 0 for none (the key allows one)
          dead,       \* dead[p][i]: the soft-deleted one, 0 for none, Many for several
          payment,    \* "none" before its INSERT, "live" or "deleted"
          credit,     \* rows of the payment in client_balance_ledger, up to MaxCredit
          status,     \* of each invoice
          holder,     \* who holds the row lock of a payment, Nobody if free
          job,        \* what each request or task has left to do
          amount,     \* payments.amount
          edits,      \* edits of an amount so far
          crashed,    \* some process died inside a request (for the properties)
          lowered     \* payments an edit left with less than is allocated (likewise)

money == <<alloc, dead, payment, credit>>
terms == <<amount, lowered, edits>>
vars == <<alloc, dead, payment, credit, status, holder, job, crashed, amount, lowered, edits>>

Many == -1
Nobody == "nobody"
MaxAmount == Max({Amount[p] : p \in Payment})
Terminal == {"void", "cancelled"}
Status == {"issued", "paid"} \cup Terminal

Idle == [pc |-> "idle"]
Table == [Payment -> [Invoice -> 0 .. MaxAmount]]
Job == {Idle}
    \cup [pc : {"credit", "again"}, pay : Payment]
    \cup [pc : {"billing", "commit"}, pay : Payment, want : [Invoice -> 0 .. MaxAmount], paid : SUBSET Invoice]
    \cup [pc : {"check", "insert"}, pay : Payment, inv : Invoice, amount : 1 .. MaxAmount]
    \cup [pc : {"finalize", "finalizeWrite", "release"}, inv : Invoice]
    \cup [pc : {"auto"}, pay : Payment, chosen : SUBSET Invoice, seen : Table]
    \cup [pc : {"refresh"}, todo : SUBSET Invoice]
    \cup [pc : {"refreshWrite"}, todo : SUBSET Invoice, inv : Invoice, covered : BOOLEAN]
    \cup [pc : {"reverse"}, pay : Payment, then : {"bury", "again"}]
    \cup [pc : {"list"}, pay : Payment, then : {"bury", "revive"}]
    \cup [pc : {"bury", "revive"}, pay : Payment, todo : SUBSET Invoice]
    \cup [pc : {"settle"}, inv : Invoice, as : Terminal]
    \cup [pc : {"settleWrite"}, inv : Invoice, as : Terminal, was : Status]

Free(q) == job[q] = Idle
AtRest == \A q \in Proc : Free(q)
Goto(q, next) == job' = [job EXCEPT ![q] = next]
Done(q) == Goto(q, Idle)

-----------------------------------------------------------------------------
(* Sums, the triggers and the unique key.                                  *)

Spent(a, p) == SumFunction(a[p])
Applied(a, i) == SumFunction([p \in Payment |-> a[p][i]])
Covered(a, i) == Applied(a, i) >= Total[i]
Allocated(p) == {i \in Invoice : alloc[p][i] > 0}

\* A mutation: the invoice's triggers are missing.
WithinPayment(a, p, is) == Spent(a, p) <= amount[p]

\* The four triggers as they judge a set of allocations: BEFORE INSERT sums the
\* others and the new row, BEFORE UPDATE does so for a soft-delete as well.
WithinTotals(a, p, is) == Spent(a, p) <= amount[p] /\ \A i \in is : Applied(a, i) <= Total[i]

\* uq_payment_allocations_payment_invoice: one live row for a pair.
Insertable(p, i) == alloc[p][i] = 0

Buried(p, is) == [dead EXCEPT ![p] = [i \in Invoice |->
    IF i \notin is \/ alloc[p][i] = 0 THEN @[i] ELSE IF @[i] = 0 THEN alloc[p][i] ELSE Many]]

Without(p, is) == [alloc EXCEPT ![p] = [i \in Invoice |-> IF i \in is THEN 0 ELSE @[i]]]

\* The locks of /billing/allocate-payment until it commits: the rows it inserted,
\* shared ones on the payment and the invoices they refer to, and the invoices it
\* marked paid.
Billing(q) == job[q].pc \in {"billing", "commit"}
Unclaimed(p, i) == \A q \in Proc : Billing(q) /\ job[q].pay = p => job[q].want[i] = 0
Referable(i) == \A q \in Proc : Billing(q) => i \notin job[q].paid
Writable(i) == \A q \in Proc : Billing(q) => job[q].want[i] = 0
Unlocked(p) == holder[p] = Nobody /\ \A q \in Proc : Billing(q) => job[q].pay # p

\* Unapplying, moving and deleting stop here (bound).
Room == Cardinality({k \in Payment \X Invoice : dead[k[1]][k[2]] # 0}) < MaxBuried

More(c) == Min({c + 1, MaxCredit})

-----------------------------------------------------------------------------
Init ==
    /\ alloc = [p \in Payment |-> [i \in Invoice |-> 0]]
    /\ dead = [p \in Payment |-> [i \in Invoice |-> 0]]
    /\ payment = [p \in Payment |-> "none"]
    /\ credit = [p \in Payment |-> 0]
    /\ status = [i \in Invoice |-> "issued"]
    /\ holder = [p \in Payment |-> Nobody]
    /\ job = [q \in Proc |-> Idle]
    /\ crashed = FALSE
    /\ amount = Amount /\ lowered = {} /\ edits = 0

\* POST /payments: the row, then its credit.
CreatePayment(q, p) ==
    /\ Free(q) /\ payment[p] = "none"
    /\ payment' = [payment EXCEPT ![p] = "live"]
    /\ Goto(q, [pc |-> "credit", pay |-> p])
    /\ UNCHANGED <<alloc, dead, credit, status, holder, crashed, terms>>

RecordCredit(q) ==
    /\ job[q].pc = "credit"
    /\ credit' = [credit EXCEPT ![job[q].pay] = More(@)]
    /\ Done(q)
    /\ UNCHANGED <<alloc, dead, payment, status, holder, crashed, terms>>

\* PUT and PATCH /payments/:id: nothing compares the new amount with what is
\* allocated, and the ledger keeps the old one.
EditPayment(q, p, a) ==
    /\ Free(q) /\ payment[p] = "live" /\ Unlocked(p)
    /\ edits < MaxEdits /\ edits' = edits + 1
    /\ amount' = [amount EXCEPT ![p] = a]
    /\ lowered' = IF a < Spent(alloc, p) THEN lowered \cup {p} ELSE lowered \ {p}
    /\ UNCHANGED <<money, status, holder, job, crashed>>

-----------------------------------------------------------------------------
(* POST /payments/:id/allocate: no transaction.  The INSERT is two steps,  *)
(* because its triggers read without a lock; its foreign keys wait for a   *)
(* payment row that is locked.                                             *)

Allocate(q, p, i, a) ==
    /\ Free(q) /\ payment[p] = "live" /\ status[i] \notin Terminal
    /\ Goto(q, [pc |-> "check", pay |-> p, inv |-> i, amount |-> a])
    /\ UNCHANGED <<money, status, holder, crashed, terms>>

AllocateCheck(q) ==
    LET j == job[q] IN
    /\ j.pc = "check"
    /\ IF WithinTotals([alloc EXCEPT ![j.pay][j.inv] = @ + j.amount], j.pay, {j.inv})
       THEN Goto(q, [j EXCEPT !.pc = "insert"])
       ELSE Done(q)
    /\ UNCHANGED <<money, status, holder, crashed, terms>>

AllocateInsert(q) ==
    LET j == job[q] IN
    /\ j.pc = "insert" /\ holder[j.pay] = Nobody /\ Unclaimed(j.pay, j.inv) /\ Referable(j.inv)
    /\ IF Insertable(j.pay, j.inv)
       THEN /\ alloc' = [alloc EXCEPT ![j.pay][j.inv] = j.amount]
            /\ Goto(q, [pc |-> "finalize", inv |-> j.inv])
       ELSE Done(q) /\ UNCHANGED alloc
    /\ UNCHANGED <<dead, payment, credit, status, holder, crashed, terms>>

\* finalizeIfFullyPaid reads the sum, then writes 'paid' whatever the status is.
\* The reconnection of a suspended line that follows is ServiceLine's Reconnect.
FinalizeRead(q) ==
    LET j == job[q] IN
    /\ j.pc = "finalize"
    /\ IF Covered(alloc, j.inv) THEN Goto(q, [j EXCEPT !.pc = "finalizeWrite"]) ELSE Done(q)
    /\ UNCHANGED <<money, status, holder, crashed, terms>>

FinalizeWrite(q) ==
    /\ job[q].pc = "finalizeWrite" /\ Writable(job[q].inv)
    /\ status' = [status EXCEPT ![job[q].inv] = "paid"]
    /\ Done(q)
    /\ UNCHANGED <<money, holder, crashed, terms>>

-----------------------------------------------------------------------------
(* POST /payments/:id/allocate-auto: one transaction.  It locks the        *)
(* payment, takes its snapshot with the first SUM, and locks the invoices; *)
(* the statuses are then current, the balances those of the snapshot.      *)

AutoBegin(q, p, is) ==
    /\ Free(q) /\ payment[p] = "live" /\ Unlocked(p)
    /\ Spent(alloc, p) < amount[p]
    /\ holder' = [holder EXCEPT ![p] = q]
    /\ Goto(q, [pc |-> "auto", pay |-> p, chosen |-> is, seen |-> alloc])
    /\ UNCHANGED <<money, status, crashed, terms>>

\* The waterfall: what each open invoice gets, the oldest first.
Due(seen, i) == IF Covered(seen, i) THEN 0 ELSE Total[i] - Applied(seen, i)

OlderDue(seen, open, i) == SumFunction([k \in {n \in open : n < i} |-> Due(seen, k)])

\* A mutation: the loop goes on when nothing is left.
ShareUnclamped(seen, p, open) ==
    [i \in Invoice |-> IF i \in open
        THEN Min({amount[p] - Spent(seen, p) - OlderDue(seen, open, i), Due(seen, i)}) ELSE 0]

Share(seen, p, open) ==
    LET left(i) == Max({0, amount[p] - Spent(seen, p) - OlderDue(seen, open, i)})
    IN  [i \in Invoice |-> IF i \in open THEN Min({left(i), Due(seen, i)}) ELSE 0]

\* No chosen invoice stands for all of them.  A chosen one that is not payable ends
\* the request; one this payment is already applied to is skipped.
AutoCommit(q) ==
    LET j == job[q]
        payable == {i \in Invoice : status[i] = "issued"}
        open == {i \in IF j.chosen = {} THEN payable ELSE j.chosen : Insertable(j.pay, i)}
        share == Share(j.seen, j.pay, open)
        mine == [j.seen EXCEPT ![j.pay] = [i \in Invoice |-> @[i] + share[i]]]
        paid == {i \in open : share[i] > 0 /\ Covered(mine, i)}
    IN
    /\ j.pc = "auto" /\ \A i \in Invoice : Writable(i)
    /\ IF j.chosen \subseteq payable
       THEN /\ alloc' = [alloc EXCEPT ![j.pay] = [i \in Invoice |-> @[i] + share[i]]]
            /\ status' = [i \in Invoice |-> IF i \in paid THEN "paid" ELSE status[i]]
       ELSE UNCHANGED <<alloc, status>>
    /\ holder' = [holder EXCEPT ![j.pay] = Nobody]
    /\ Done(q)
    /\ UNCHANGED <<dead, payment, credit, crashed, terms>>

-----------------------------------------------------------------------------
(* POST /billing/allocate-payment: one transaction that looks neither at   *)
(* deleted_at nor at the status.  The credit goes to the ledger through a  *)
(* connection of its own, before the commit and without being part of it.  *)

BillingAllocate(q, p, want) ==
    LET next == [alloc EXCEPT ![p] = [i \in Invoice |-> @[i] + want[i]]]
        is == {i \in Invoice : want[i] > 0}
    IN
    /\ Free(q) /\ payment[p] # "none" /\ holder[p] = Nobody
    /\ \A i \in is : /\ Insertable(p, i) /\ Unclaimed(p, i) /\ Referable(i)
                     /\ Covered(next, i) => Writable(i)
    /\ is # {} => WithinTotals(next, p, is)
    /\ Goto(q, [pc |-> "billing", pay |-> p, want |-> want, paid |-> {i \in is : Covered(next, i)}])
    /\ UNCHANGED <<money, status, holder, crashed, terms>>

BillingCredit(q) ==
    /\ job[q].pc = "billing"
    /\ credit' = [credit EXCEPT ![job[q].pay] = More(@)]
    /\ Goto(q, [job[q] EXCEPT !.pc = "commit"])
    /\ UNCHANGED <<alloc, dead, payment, status, holder, crashed, terms>>

BillingCommit(q) ==
    LET j == job[q] IN
    /\ j.pc = "commit"
    /\ alloc' = [alloc EXCEPT ![j.pay] = [i \in Invoice |-> IF j.want[i] > 0 THEN j.want[i] ELSE @[i]]]
    /\ status' = [i \in Invoice |-> IF i \in j.paid THEN "paid" ELSE status[i]]
    /\ Done(q)
    /\ UNCHANGED <<dead, payment, credit, holder, crashed, terms>>

-----------------------------------------------------------------------------
(* refreshInvoicePaidStatus for each invoice a handler touched.            *)

Refreshing(is) == IF is = {} THEN Idle ELSE [pc |-> "refresh", todo |-> is]

RefreshRead(q, i) ==
    LET j == job[q] IN
    /\ j.pc = "refresh" /\ i \in j.todo
    /\ Goto(q, [pc |-> "refreshWrite", todo |-> j.todo \ {i}, inv |-> i, covered |-> Covered(alloc, i)])
    /\ UNCHANGED <<money, status, holder, crashed, terms>>

\* A mutation: nothing goes back to 'issued'.
RefreshWriteOneWay(q) ==
    LET j == job[q] IN
    /\ j.pc = "refreshWrite" /\ Writable(j.inv)
    /\ status' = [status EXCEPT ![j.inv] = IF j.covered THEN "paid" ELSE @]
    /\ Goto(q, Refreshing(j.todo))
    /\ UNCHANGED <<money, holder, crashed, terms>>

RefreshWrite(q) ==
    LET j == job[q] IN
    /\ j.pc = "refreshWrite" /\ Writable(j.inv)
    /\ status' = [status EXCEPT ![j.inv] =
                     IF j.covered THEN "paid" ELSE IF @ = "paid" THEN "issued" ELSE @]
    /\ Goto(q, Refreshing(j.todo))
    /\ UNCHANGED <<money, holder, crashed, terms>>

\* POST /payments/:id/reallocate.
Reallocate(q, p, from, to, a) ==
    LET moved == [alloc EXCEPT ![p][from] = 0, ![p][to] = a] IN
    /\ Free(q) /\ Room /\ payment[p] = "live" /\ holder[p] = Nobody
    /\ from # to /\ alloc[p][from] > 0 /\ status[to] \notin Terminal
    /\ WithinTotals(alloc, p, {from})
    /\ Insertable(p, to) /\ Unclaimed(p, to) /\ Referable(to) /\ WithinTotals(moved, p, {to})
    /\ alloc' = moved /\ dead' = Buried(p, {from})
    /\ Goto(q, Refreshing({from, to}))
    /\ UNCHANGED <<payment, credit, status, holder, crashed, terms>>

\* POST /payments/:id/unapply.
Unapply(q, p, i) ==
    /\ Free(q) /\ Room /\ payment[p] = "live" /\ alloc[p][i] > 0
    /\ WithinTotals(alloc, p, {i})
    /\ alloc' = Without(p, {i}) /\ dead' = Buried(p, {i})
    /\ Goto(q, Refreshing({i}))
    /\ UNCHANGED <<payment, credit, status, holder, crashed, terms>>

\* POST /payments/:id/reassign: the credit goes to the other client's ledger.
Reassign(q, p) ==
    /\ Free(q) /\ payment[p] = "live" /\ Unlocked(p)
    /\ Allocated(p) = {}
    /\ credit' = [credit EXCEPT ![p] = 1]
    /\ UNCHANGED <<alloc, dead, payment, status, holder, job, crashed, terms>>

-----------------------------------------------------------------------------
(* DELETE /payments/:id and its afterDelete hook, POST /:id/restore and    *)
(* its afterRestore hook.  An error in a hook ends it, not the request.    *)

DeletePayment(q, p) ==
    /\ Free(q) /\ Room /\ payment[p] = "live" /\ Unlocked(p)
    /\ payment' = [payment EXCEPT ![p] = "deleted"]
    /\ Goto(q, [pc |-> "reverse", pay |-> p, then |-> "bury"])
    /\ UNCHANGED <<alloc, dead, credit, status, holder, crashed, terms>>

RestorePayment(q, p) ==
    /\ Free(q) /\ payment[p] = "deleted" /\ Unlocked(p)
    /\ payment' = [payment EXCEPT ![p] = "live"]
    /\ Goto(q, [pc |-> "reverse", pay |-> p, then |-> "again"])
    /\ UNCHANGED <<alloc, dead, credit, status, holder, crashed, terms>>

ReverseCredit(q) ==
    LET j == job[q] IN
    /\ j.pc = "reverse"
    /\ credit' = [credit EXCEPT ![j.pay] = 0]
    /\ Goto(q, IF j.then = "bury" THEN [pc |-> "list", pay |-> j.pay, then |-> "bury"]
                                  ELSE [pc |-> "again", pay |-> j.pay])
    /\ UNCHANGED <<alloc, dead, payment, status, holder, crashed, terms>>

\* A mutation: afterRestore only takes the credit back.
SkipCreditAgain(q) ==
    LET j == job[q] IN
    /\ j.pc = "again"
    /\ Goto(q, [pc |-> "list", pay |-> j.pay, then |-> "revive"])
    /\ UNCHANGED <<money, status, holder, crashed, terms>>

RecordCreditAgain(q) ==
    LET j == job[q] IN
    /\ j.pc = "again"
    /\ credit' = [credit EXCEPT ![j.pay] = More(@)]
    /\ Goto(q, [pc |-> "list", pay |-> j.pay, then |-> "revive"])
    /\ UNCHANGED <<alloc, dead, payment, status, holder, crashed, terms>>

\* SELECT DISTINCT invoice_id of the allocations the next UPDATE is about.
ListTouched(q) ==
    LET j == job[q]
        touched == IF j.then = "bury" THEN Allocated(j.pay) ELSE {i \in Invoice : dead[j.pay][i] # 0}
    IN
    /\ j.pc = "list"
    /\ Goto(q, IF touched = {} THEN Idle ELSE [pc |-> j.then, pay |-> j.pay, todo |-> touched])
    /\ UNCHANGED <<money, status, holder, crashed, terms>>

\* reversePaymentAllocations: the UPDATE of all live allocations of the payment.
BuryAllocations(q) ==
    LET j == job[q]
        live == Allocated(j.pay)
    IN
    /\ j.pc = "bury"
    /\ IF WithinTotals(alloc, j.pay, live)
       THEN /\ alloc' = Without(j.pay, live) /\ dead' = Buried(j.pay, live)
            /\ Goto(q, Refreshing(j.todo))
       ELSE Done(q) /\ UNCHANGED <<alloc, dead>>
    /\ UNCHANGED <<payment, credit, status, holder, crashed, terms>>

\* restorePaymentAllocations: the UPDATE revives every soft-deleted allocation,
\* or none when two would be live for one invoice or a trigger objects.
ReviveAllocations(q) ==
    LET j == job[q]
        gone == {i \in Invoice : dead[j.pay][i] # 0}
        revived == [alloc EXCEPT ![j.pay] = [i \in Invoice |-> IF i \in gone THEN dead[j.pay][i] ELSE @[i]]]
        unique == \A i \in gone : dead[j.pay][i] # Many /\ Insertable(j.pay, i)
    IN
    /\ j.pc = "revive" /\ \A i \in gone : Unclaimed(j.pay, i)
    /\ IF unique /\ WithinTotals(revived, j.pay, gone)
       THEN /\ alloc' = revived
            /\ dead' = [dead EXCEPT ![j.pay] = [i \in Invoice |-> 0]]
            /\ Goto(q, Refreshing(j.todo))
       ELSE Done(q) /\ UNCHANGED <<alloc, dead>>
    /\ UNCHANGED <<payment, credit, status, holder, crashed, terms>>

-----------------------------------------------------------------------------
(* voidInvoiceById and cancelInvoiceForSat, settled by the same function.  *)

VoidInvoice(q, i) ==
    /\ Free(q) /\ i \notin Stamped /\ Applied(alloc, i) = 0
    /\ Goto(q, [pc |-> "settle", inv |-> i, as |-> "void"])
    /\ UNCHANGED <<money, status, holder, crashed, terms>>

CancelInvoiceForSat(q, i) ==
    /\ Free(q) /\ i \in Stamped
    /\ Goto(q, [pc |-> "settle", inv |-> i, as |-> "cancelled"])
    /\ UNCHANGED <<money, status, holder, crashed, terms>>

SettleTerminal(q) ==
    LET j == job[q]
        was == status[j.inv]
    IN
    /\ j.pc = "settle"
    /\ IF j.as = "void" /\ was = "cancelled" THEN Done(q)
       ELSE Goto(q, [pc |-> "settleWrite", inv |-> j.inv, as |-> j.as, was |-> was])
    /\ UNCHANGED <<money, status, holder, crashed, terms>>

SettleWrite(q) ==
    LET j == job[q] IN
    /\ j.pc = "settleWrite" /\ Writable(j.inv)
    /\ status' = [status EXCEPT ![j.inv] = j.as]
    /\ IF j.was = "paid" THEN Goto(q, [pc |-> "release", inv |-> j.inv]) ELSE Done(q)
    /\ UNCHANGED <<money, holder, crashed, terms>>

ReleaseInvoiceAllocations(q) ==
    LET i == job[q].inv IN
    /\ job[q].pc = "release"
    /\ IF Applied(alloc, i) <= Total[i] /\ \A p \in Payment : alloc[p][i] > 0 => Spent(alloc, p) <= amount[p]
       THEN /\ alloc' = [p \in Payment |-> Without(p, {i})[p]]
            /\ dead' = [p \in Payment |-> Buried(p, {i})[p]]
       ELSE UNCHANGED <<alloc, dead>>
    /\ Done(q)
    /\ UNCHANGED <<payment, credit, status, holder, crashed, terms>>

\* The process dies: an open transaction is rolled back and its locks are gone.
Crash(q) ==
    /\ ~Free(q)
    /\ holder' = [p \in Payment |-> IF holder[p] = q THEN Nobody ELSE holder[p]]
    /\ Done(q)
    /\ crashed' = TRUE
    /\ UNCHANGED <<money, status, terms>>

-----------------------------------------------------------------------------
Request(q) ==
    \/ \E p \in Payment :
          \/ CreatePayment(q, p) \/ DeletePayment(q, p) \/ RestorePayment(q, p) \/ Reassign(q, p)
          \/ \E a \in 0 .. MaxAmount : EditPayment(q, p, a)
          \/ \E is \in SUBSET Invoice : AutoBegin(q, p, is)
          \/ \E want \in [Invoice -> 0 .. MaxAmount] : BillingAllocate(q, p, want)
          \/ \E i \in Invoice : Unapply(q, p, i)
          \/ \E i \in Invoice, a \in 1 .. MaxAmount :
                \/ Allocate(q, p, i, a)
                \/ \E to \in Invoice : Reallocate(q, p, i, to, a)
    \/ \E i \in Invoice : VoidInvoice(q, i) \/ CancelInvoiceForSat(q, i)

Step(q) ==
    \/ RecordCredit(q) \/ AllocateCheck(q) \/ AllocateInsert(q) \/ FinalizeRead(q)
    \/ FinalizeWrite(q) \/ AutoCommit(q) \/ RefreshWrite(q)
    \/ \E i \in Invoice : RefreshRead(q, i)
    \/ BillingCredit(q) \/ BillingCommit(q)
    \/ ReverseCredit(q) \/ RecordCreditAgain(q) \/ ListTouched(q) \/ BuryAllocations(q) \/ ReviveAllocations(q)
    \/ SettleTerminal(q) \/ SettleWrite(q) \/ ReleaseInvoiceAllocations(q)

Next == \E q \in Proc : Request(q) \/ Step(q) \/ Crash(q)

Spec == Init /\ [][Next]_vars

-----------------------------------------------------------------------------
(* Type correctness of the tables and of what a request has left to do. *)
TypeOK ==
    /\ alloc \in Table
    /\ dead \in [Payment -> [Invoice -> Many .. MaxAmount]]
    /\ payment \in [Payment -> {"none", "live", "deleted"}]
    /\ credit \in [Payment -> 0 .. MaxCredit]
    /\ status \in [Invoice -> Status]
    /\ crashed \in BOOLEAN
    /\ amount \in [Payment -> 0 .. MaxAmount] /\ lowered \subseteq Payment /\ edits \in 0 .. MaxEdits
    /\ holder \in [Payment -> Proc \cup {Nobody}]
    /\ job \in [Proc -> Job]

(* No invoice takes more than its total, and no payment is spent beyond its *)
(* amount: what the four triggers on payment_allocations are there for.     *)
(* They do not look at payments.amount when it changes, so a payment whose  *)
(* amount PUT or PATCH lowered below its allocations is the exception, and  *)
(* the only one: deleting, restoring and moving around such an edit adds no *)
(* other.                                                                   *)
NoOverAllocation ==
    /\ \A p \in Payment : p \in lowered \/ Spent(alloc, p) <= amount[p]
    /\ \A i \in Invoice : Applied(alloc, i) <= Total[i]

(* Between requests, as long as none died half-way, an invoice that is not  *)
(* terminal is 'paid' exactly when its live allocations cover it, whatever  *)
(* was allocated, moved, unapplied, deleted, restored or settled before.    *)
PaidIffCovered ==
    AtRest /\ ~crashed =>
        \A i \in Invoice : status[i] \in Terminal \/ (status[i] = "paid" <=> Covered(alloc, i))

(* Between requests, as long as none died half-way, a payment that exists   *)
(* is credited to its client in the balance ledger.                         *)
LiveIsCredited ==
    AtRest /\ ~crashed => \A p \in Payment : payment[p] = "live" => credit[p] > 0

(* What the triggers' own header says without an exception: "Prevent        *)
(* over-allocation of a payment".  An edit of the amount is not prevented.  *)
PaymentCoversAllocations == \A p \in Payment : Spent(alloc, p) <= amount[p]

(* routes/invoices.js: "A terminal invoice is immutable".  The code does    *)
(* not keep it: POST /billing/allocate-payment pays a void invoice, and     *)
(* restoring a payment refreshes one.                                       *)
TerminalStays ==
    [][\A i \in Invoice : status[i] \in Terminal => status'[i] \in Terminal]_vars
=============================================================================
