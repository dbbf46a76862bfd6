---------------------------- MODULE BillingCycle ----------------------------
(***************************************************************************)
(* The billing windows of one contract: billingService's                   *)
(* generateBillingPeriod and generateInvoice, the auto_invoice task and    *)
(* the five kinds of request that open or bill a window.  Every database   *)
(* statement outside a transaction is a step of its own; generateInvoice   *)
(* and the invoice of POST /invoices/generate are transactions and one     *)
(* step.  A row of billing_periods is known by its period_start, which is  *)
(* unique per contract (schema.sql).                                       *)
(*                                                                         *)
(* Time counts half months: a month is two units, a window covers the      *)
(* units s and s + 1, and a contract may start in the middle of a month.   *)
(***************************************************************************)
EXTENDS Integers, FiniteSetsExt

CONSTANTS
  Proc,        \* handlers and workers of the application
  Cron,        \* the one of them that the scheduler drives
  StartDate,   \* contracts.start_date
  BillingHalf, \* contracts.billing_day: the half of the month it falls in
  Horizon,     \* bound: no window starts after it
  MaxTime,     \* bound: the clock stops here
  MaxFaults    \* bound: crashes and failed transactions

ASSUME CronAssumption == Cron \in Proc
ASSUME DatesAssumption == /\ StartDate \in Nat
                          /\ BillingHalf \in {0, 1}
                          /\ Horizon \in Nat /\ StartDate <= Horizon
                          /\ MaxTime \in Nat /\ StartDate <= MaxTime
                          /\ MaxFaults \in Nat

VARIABLES
  now,      \* the date
  active,   \* contracts.status = 'active'
  row,      \* billing_periods.status by period_start, "none" without a row
  due,      \* billing_periods.scheduled_at
  billed,   \* ghost: the invoices that generateInvoice issued per window
  calendar, \* ghost: the windows that POST /bulk/invoices/generate opened
  pc,       \* per process: the statement it is about to run
  via,      \* per process: the route or task it serves
  pick,     \* per process: the window it holds
  faults

vars == <<now, active, row, due, billed, calendar, pc, via, pick, faults>>

Starts == 0 .. Horizon

(* auto_invoice; the requests that bill one contract, or with bulk-generate *)
(* all active ones, at once; generate-period; an invoice with items.        *)
Routes == {"task", "generate", "period", "items"}

MonthOf(t) == t - (t % 2)

TypeOK ==
  /\ now \in 0 .. MaxTime /\ active \in BOOLEAN
  /\ row \in [Starts -> {"none", "pending", "invoiced"}]
  /\ due \in [Starts -> 0 .. MonthOf(Horizon) + 1]
  /\ billed \in [Starts -> Nat]
  /\ calendar \subseteq Starts
  /\ pc \in [Proc -> {"idle", "pending", "last", "insert", "bill"}]
  /\ via \in [Proc -> Routes]
  /\ pick \in [Proc -> Starts]
  /\ faults \in 0 .. MaxFaults

Init ==
  /\ now = StartDate /\ active = TRUE
  /\ row = [s \in Starts |-> "none"]
  /\ due = [s \in Starts |-> 0]
  /\ billed = [s \in Starts |-> 0]
  /\ calendar = {}
  /\ pc = [q \in Proc |-> "idle"]
  /\ via = [q \in Proc |-> "task"]
  /\ pick = [q \in Proc |-> StartDate]
  /\ faults = 0

Goto(q, l) == pc' = [pc EXCEPT ![q] = l] /\ UNCHANGED <<via, pick>>

Hold(q, s, l) ==
  /\ pc' = [pc EXCEPT ![q] = l]
  /\ pick' = [pick EXCEPT ![q] = s]
  /\ UNCHANGED via

(* The request ends and its variables with it.                             *)
End(q) ==
  /\ pc' = [pc EXCEPT ![q] = "idle"]
  /\ via' = [via EXCEPT ![q] = "task"]
  /\ pick' = [pick EXCEPT ![q] = StartDate]

WithStatus(st) == {s \in Starts : row[s] = st}

-----------------------------------------------------------------------------
(* A handler reads the contract, the task the list of active contracts.    *)
Begin(q, r) ==
  /\ pc[q] = "idle"
  /\ q = Cron => r = "task"
  /\ r = "task" => active
  /\ via' = [via EXCEPT ![q] = r]
  /\ pc' = [pc EXCEPT ![q] = "pending"]
  /\ UNCHANGED <<now, active, row, due, billed, calendar, pick, faults>>

(* A mutation: the task bills on the very day only.                        *)
BillsThatDay(q, at) ==
  /\ via[q] # "period"
  /\ via[q] = "task" => at = now

(* Whether the request goes on to bill a window scheduled for `at':        *)
(* generate-period does not, the task only if the day has come.            *)
Bills(q, at) ==
  /\ via[q] # "period"
  /\ via[q] = "task" => at <= now

(* SELECT ... status = 'pending' ORDER BY period_end DESC LIMIT 1. No      *)
(* caller sets contract._plan, so nobody is in trial here.                 *)
FindPending(q) ==
  /\ pc[q] = "pending"
  /\ IF WithStatus("pending") # {}
       THEN LET s == Max(WithStatus("pending"))
            IN  IF Bills(q, due[s]) THEN Hold(q, s, "bill") ELSE End(q)
       ELSE Goto(q, "last")
  /\ UNCHANGED <<now, active, row, due, billed, calendar, faults>>

(* A mutation: the window after the last one, invoiced or not.             *)
NextStartAny ==
  LET known == Starts \ WithStatus("none")
  IN  IF known = {} THEN StartDate ELSE Max(known) + 2

(* The window after the last invoiced one, or the contract's first.        *)
NextStart ==
  IF WithStatus("invoiced") = {} THEN StartDate
                                 ELSE Max(WithStatus("invoiced")) + 2

(* SELECT ... status = 'invoiced' ORDER BY period_end DESC LIMIT 1.  A     *)
(* window beyond Horizon ends the request (bound).                         *)
FindLast(q) ==
  /\ pc[q] = "last"
  /\ IF NextStart \in Starts
       THEN Hold(q, NextStart, "insert")
       ELSE End(q)
  /\ UNCHANGED <<now, active, row, due, billed, calendar, faults>>

(* A mutation: the month after it.                                         *)
ScheduledNextMonth(s) == MonthOf(s) + 2 + BillingHalf

(* scheduled_at is billing_day in the month of the start.                  *)
ScheduledAt(s) == MonthOf(s) + BillingHalf

(* The key on (contract_id, period_start) refuses a second row.            *)
Insertable(s) == row[s] = "none"

InsertPeriod(q) ==
  /\ pc[q] = "insert"
  /\ IF Insertable(pick[q])
       THEN /\ row' = [row EXCEPT ![pick[q]] = "pending"]
            /\ due' = [due EXCEPT ![pick[q]] = ScheduledAt(pick[q])]
            /\ IF Bills(q, ScheduledAt(pick[q])) THEN Goto(q, "bill") ELSE End(q)
       ELSE End(q) /\ UNCHANGED <<row, due>>
  /\ UNCHANGED <<now, active, billed, calendar, faults>>

(* POST /bulk/invoices/generate, one statement: the calendar month, due    *)
(* today, where no window is pending.                                      *)
InsertCalendarMonth ==
  LET s == MonthOf(now)
  IN  /\ s \in Starts
      /\ WithStatus("pending") = {} /\ Insertable(s)
      /\ row' = [row EXCEPT ![s] = "pending"]
      /\ due' = [due EXCEPT ![s] = now]
      /\ calendar' = calendar \cup {s}
      /\ UNCHANGED <<now, active, billed, pc, via, pick, faults>>

(* A mutation: no look at the row under the lock.                          *)
BillableAlways(q) == row[pick[q]] # "none"

(* generateInvoice locks the row and bills it if it is still pending.      *)
Billable(q) == row[pick[q]] = "pending"

GenerateInvoice(q) ==
  /\ pc[q] = "bill" /\ via[q] # "items"
  /\ IF Billable(q)
       THEN /\ row' = [row EXCEPT ![pick[q]] = "invoiced"]
            /\ billed' = [billed EXCEPT ![pick[q]] = @ + 1]
       ELSE UNCHANGED <<row, billed>>
  /\ End(q)
  /\ UNCHANGED <<now, active, due, calendar, faults>>

(* The invoice of POST /invoices/generate with items looks at no status.   *)
InvoiceItems(q) ==
  /\ pc[q] = "bill" /\ via[q] = "items"
  /\ row' = [row EXCEPT ![pick[q]] = "invoiced"]
  /\ End(q)
  /\ UNCHANGED <<now, active, due, billed, calendar, faults>>

-----------------------------------------------------------------------------
(* A crash, a lost connection or a rolled back transaction ends a request  *)
(* between two of its statements.                                          *)
Abort(q) ==
  /\ pc[q] # "idle" /\ faults < MaxFaults
  /\ faults' = faults + 1
  /\ End(q)
  /\ UNCHANGED <<now, active, row, due, billed, calendar>>

Tick ==
  /\ now < MaxTime
  /\ now' = now + 1
  /\ UNCHANGED <<active, row, due, billed, calendar, pc, via, pick, faults>>

(* Suspension and reactivation, the handlers of module ServiceLine.        *)
ChangeStatus ==
  /\ active' = ~active
  /\ UNCHANGED <<now, row, due, billed, calendar, pc, via, pick, faults>>

Step(q) == \/ FindPending(q) \/ FindLast(q) \/ InsertPeriod(q)
           \/ GenerateInvoice(q) \/ InvoiceItems(q)

Next ==
  \/ \E q \in Proc : \/ \E r \in Routes : Begin(q, r)
                     \/ Step(q)
                     \/ Abort(q)
  \/ InsertCalendarMonth
  \/ Tick
  \/ ChangeStatus

Spec == Init /\ [][Next]_vars

(* The clock runs, the cron entry of auto_invoice fires again and again,   *)
(* and a statement that is sent is answered.                               *)
Fairness ==
  /\ WF_vars(Tick)
  /\ WF_vars(Begin(Cron, "task"))
  /\ \A q \in Proc : WF_vars(Step(q))

FairSpec == Spec /\ Fairness

-----------------------------------------------------------------------------
(* However tasks, retries and requests overlap, generateInvoice issues at  *)
(* most one invoice per window, and a window it billed never becomes       *)
(* pending again.  A window is billed twice only where an invoice with     *)
(* items took part (billingService.js generateInvoice).                    *)
BilledOnce ==
  \A s \in Starts : /\ billed[s] <= 1
                    /\ billed[s] = 1 => row[s] = "invoiced"

(* The windows follow each other without a gap or an overlap from the      *)
(* start of the contract, and none is opened before its predecessor is     *)
(* billed, as long as no calendar month was put in: two requests that both *)
(* saw no pending window are told apart by the unique key alone            *)
(* (billingService.js generateBillingPeriod).                              *)
Tiled ==
  calendar = {} =>
    \A s \in Starts : row[s] # "none" =>
      \/ s = StartDate
      \/ s - 2 \in WithStatus("invoiced")

(* A pending window is billed in the end, also one that is opened far      *)
(* ahead or left behind by a crash, unless the contract is not active:     *)
(* runAutoInvoice only looks at the newest pending window, and only when   *)
(* its day has come (taskRunner.js runAutoInvoice).                        *)
PendingIsBilled ==
  \A s \in Starts : row[s] = "pending" ~> (row[s] = "invoiced" \/ ~active)
=============================================================================
