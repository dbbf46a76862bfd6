------------------------------ MODULE Dunning ------------------------------
(***************************************************************************)
(* How a debt cuts a line and a payment restores it: suspension rules and  *)
(* the daily auto_suspend task, manual suspension and reconnection, the    *)
(* reconnection that follows a payment, PUT and /terminate, and renew, for *)
(* contracts that were activated before, with one invoice each.            *)
(*                                                                         *)
(* suspendContract, reconnectContract and renewPreviouslyActivated lock    *)
(* the contract row, so each is one action; between the SELECT that lists  *)
(* debtors and the transaction that acts on one, anything may happen.      *)
(***************************************************************************)
EXTENDS Integers, FiniteSets

CONSTANTS Contract,
          Due,          \* the day on which a contract's invoice is due
          Rule,         \* the active suspension_rules of the organization
          Cron,         \* the process of the scheduled task
          Request,      \* the processes of API requests
          MaxDay,       \* bounds: the last day,
          MaxRequests,  \* the number of requests,
          MaxFaults     \* and the number of crashes

Action == {"auto_suspend", "soft_suspend", "walled_garden", "auto_disconnect", "notify_only"}

ASSUME DunningAssumption ==
    /\ Due \in [Contract -> Nat]
    /\ Rule \subseteq [after : Nat \ {0}, grace : Nat, action : Action]
    /\ Cron \notin Request
    /\ MaxDay \in Nat \ {0} /\ MaxRequests \in Nat /\ MaxFaults \in Nat

VARIABLES status,   \* contracts.status; "closed" is expired, cancelled or terminated
          radius,   \* radius.status of the contract's account
          open,     \* the kinds of suspension_logs rows with restored_at IS NULL
          invoice,  \* invoices.status
          exempt,   \* clients.suspension_exempt
          day, ran, \* today, and whether today's task has started
          job,      \* what a process has left to do
          asked, faults,
          failed,   \* task runs that did not reach their end
          torn      \* contracts that a PUT left suspended without the rest of it

line == <<status, radius, open>>
client == <<invoice, exempt>>
time == <<day, ran>>
ghost == <<failed, torn>>
vars == <<status, radius, open, invoice, exempt, day, ran, job, asked, faults, failed, torn>>

Proc == {Cron} \cup Request
Kind == {"hard", "soft", "walled"}
Idle == [pc |-> "idle"]
Entry == [rule : Rule \cup {[after |-> 0, grace |-> 0, action |-> a] : a \in Action},
          contract : Contract]

Goto(p, to) == job' = [job EXCEPT ![p] = to]

\* Request processes are alike: a new request takes a definite free one.
Ask(q) == /\ job[q] = Idle /\ q = (CHOOSE r \in Request : job[r] = Idle)
          /\ asked < MaxRequests
          /\ asked' = asked + 1

\* trg_contracts_status_fsm_bu. The kind of closed status is not kept: the
\* trigger's refusal of a move between two kinds, which changes nothing, is not
\* told apart from a PUT that was not sent.
Permits(old, new) ==
    \/ new = old
    \/ old = "active"
    \/ old = "suspended" /\ new \in {"active", "closed"}
    \/ old = "closed" /\ new = "active"

Init ==
    /\ status = [c \in Contract |-> "active"]
    /\ radius = [c \in Contract |-> "active"]
    /\ open = [c \in Contract |-> {}]
    /\ invoice = [c \in Contract |-> "issued"]
    /\ exempt = [c \in Contract |-> FALSE]
    /\ day = 1 /\ ran = FALSE
    /\ job = [p \in Proc |-> Idle]
    /\ asked = 0 /\ faults = 0 /\ failed = 0 /\ torn = {}

----------------------------------------------------------------------------
\* A mutation: a debtor is listed a day late.
LateListed(c, r) ==
    /\ status[c] = "active" /\ invoice[c] = "issued" /\ ~exempt[c]
    /\ day - Due[c] > r.after /\ day - Due[c] < r.after + r.grace

(* evaluateRules: one SELECT per rule, in the order of days_past_due.      *)
Listed(c, r) ==
    /\ status[c] = "active" /\ invoice[c] = "issued" /\ ~exempt[c]
    /\ day - Due[c] >= r.after /\ day - Due[c] < r.after + r.grace

\* What is left of a run: rules to evaluate, entries to act on.
Loop(rules, list) == IF rules = {} /\ list = {} THEN Idle
                     ELSE [pc |-> "loop", rules |-> rules, list |-> list]

\* A mutation: the entry fires again on the same day.
AgainStartTask ==
    /\ job[Cron] = Idle
    /\ ran' = TRUE
    /\ Goto(Cron, Loop(Rule, {}))
    /\ UNCHANGED <<line, client, day, asked, faults, ghost>>

\* The cron entry of auto_suspend, once a day.
StartTask ==
    /\ job[Cron] = Idle /\ ~ran
    /\ ran' = TRUE
    /\ Goto(Cron, Loop(Rule, {}))
    /\ UNCHANGED <<line, client, day, asked, faults, ghost>>

\* POST /suspension/run-auto goes through the same loop.
RunAuto(q) ==
    /\ Ask(q) /\ Goto(q, Loop(Rule, {}))
    /\ UNCHANGED <<line, client, time, faults, ghost>>

\* A manual suspension; only the batch job does not look at the status first.
AskSuspend(q, c, a) ==
    /\ a = "auto_suspend" \/ status[c] # "suspended"
    /\ Ask(q)
    /\ Goto(q, Loop({}, {[rule |-> [after |-> 0, grace |-> 0, action |-> a], contract |-> c]}))
    /\ UNCHANGED <<line, client, time, faults, ghost>>

ReadRule(p) ==
    /\ job[p].pc = "loop"
    /\ \E r \in job[p].rules :
        /\ \A s \in job[p].rules : r.after <= s.after
        /\ Goto(p, Loop(job[p].rules \ {r}, job[p].list \cup
              {[rule |-> r, contract |-> c] : c \in {d \in Contract : Listed(d, r)}}))
    /\ UNCHANGED <<line, client, time, asked, faults, ghost>>

\* The next entry: rules without a branch of their own do nothing, and
\* isClientSuspensionExempt looks at the client once more.
CheckEntry(p) ==
    /\ job[p].pc = "loop" /\ job[p].rules = {}
    /\ \E e \in job[p].list :
        /\ \A f \in job[p].list : e.rule.after <= f.rule.after
        /\ Goto(p, IF exempt[e.contract] \/ e.rule.action \in {"auto_disconnect", "notify_only"}
                   THEN Loop({}, job[p].list \ {e})
                   ELSE [pc |-> "act", entry |-> e, list |-> job[p].list \ {e}])
    /\ UNCHANGED <<line, client, time, asked, faults, ghost>>

----------------------------------------------------------------------------
Failed(p) == failed' = IF p = Cron THEN failed + 1 ELSE failed

\* A mutation: the account keeps its status.
StatusOnlySuspend(p) ==
    LET c == job[p].entry.contract IN
    /\ job[p].pc = "act" /\ job[p].entry.rule.action = "auto_suspend"
    /\ Permits(status[c], "suspended")
    /\ status' = [status EXCEPT ![c] = "suspended"]
    /\ open' = [open EXCEPT ![c] = @ \cup {"hard"}]
    /\ Goto(p, Loop({}, job[p].list))
    /\ UNCHANGED <<radius, client, time, asked, faults, ghost>>

\* suspendContract: an UPDATE by id, which only the trigger can refuse.
SuspendContract(p) ==
    LET c == job[p].entry.contract IN
    /\ job[p].pc = "act" /\ job[p].entry.rule.action = "auto_suspend"
    /\ Permits(status[c], "suspended")
    /\ status' = [status EXCEPT ![c] = "suspended"]
    /\ radius' = [radius EXCEPT ![c] = IF @ = "active" THEN "suspended" ELSE @]
    /\ open' = [open EXCEPT ![c] = @ \cup {"hard"}]
    /\ Goto(p, Loop({}, job[p].list))
    /\ UNCHANGED <<client, time, asked, faults, ghost>>

\* The refusal is caught nowhere in the loop: the rest of the list is lost.
SuspendRefused(p) ==
    /\ job[p].pc = "act" /\ job[p].entry.rule.action = "auto_suspend"
    /\ ~Permits(status[job[p].entry.contract], "suspended")
    /\ Failed(p) /\ Goto(p, Idle)
    /\ UNCHANGED <<line, client, time, asked, faults, torn>>

\* softSuspendContract and walledGardenSuspendContract only write a row; it
\* is what the next synchronization reads.
Restrict(p, a, kind) ==
    LET c == job[p].entry.contract IN
    /\ job[p].pc = "act" /\ job[p].entry.rule.action = a
    /\ open' = [open EXCEPT ![c] = @ \cup {kind}]
    /\ Goto(p, Loop({}, job[p].list))
    /\ UNCHANGED <<status, radius, client, time, asked, faults, ghost>>

----------------------------------------------------------------------------
(* finalizeIfFullyPaid, and the reconnection that follows it. *)
Pay(q, c) ==
    /\ invoice[c] = "issued" /\ Ask(q)
    /\ invoice' = [invoice EXCEPT ![c] = "paid"]
    /\ Goto(q, [pc |-> "paid", c |-> c])
    /\ UNCHANGED <<line, exempt, time, faults, ghost>>

ReconnectIfSuspended(q) ==
    /\ job[q].pc = "paid"
    /\ Goto(q, IF status[job[q].c] = "suspended" THEN [pc |-> "reconnect", c |-> job[q].c] ELSE Idle)
    /\ UNCHANGED <<line, client, time, asked, faults, ghost>>

\* The gateway's reconcilePayment settles the invoice and reconnects nothing,
\* as does refreshInvoicePaidStatus after a reallocation or a restored payment.
Settle(q, c) ==
    /\ invoice[c] = "issued" /\ Ask(q)
    /\ invoice' = [invoice EXCEPT ![c] = "paid"]
    /\ UNCHANGED <<line, exempt, time, job, faults, ghost>>

\* unapply, a deleted payment, a refund: refreshInvoicePaidStatus re-opens it.
ReopenInvoice(q, c) ==
    /\ invoice[c] = "paid" /\ Ask(q)
    /\ invoice' = [invoice EXCEPT ![c] = "issued"]
    /\ UNCHANGED <<line, exempt, time, job, faults, ghost>>

SetExempt(q, c) ==
    /\ Ask(q)
    /\ exempt' = [exempt EXCEPT ![c] = ~@]
    /\ UNCHANGED <<line, invoice, time, job, faults, ghost>>

\* POST /unsuspend, /suspension/reconnect and the batch job.
AskReconnect(q, c) ==
    /\ status[c] = "suspended" /\ Ask(q)
    /\ Goto(q, [pc |-> "reconnect", c |-> c])
    /\ UNCHANGED <<line, client, time, faults, ghost>>

\* A mutation: the UPDATE does not ask for status = 'suspended'.
UnguardedReconnect(q) ==
    LET c == job[q].c IN
    /\ job[q].pc = "reconnect"
    /\ status' = [status EXCEPT ![c] = "active"]
    /\ radius' = [radius EXCEPT ![c] = IF @ = "suspended" THEN "active" ELSE @]
    /\ open' = [open EXCEPT ![c] = @ \cap {"walled"}]
    /\ torn' = torn \ {c}
    /\ Goto(q, IF "walled" \in open[c] THEN [pc |-> "lift", c |-> c] ELSE Idle)
    /\ UNCHANGED <<client, time, asked, faults, failed>>

\* reconnectContract: a line that is active by now only has its rows closed,
\* one that was closed is refused.
ReconnectContract(q) ==
    LET c == job[q].c IN
    /\ job[q].pc = "reconnect"
    /\ IF status[c] = "closed"
       THEN Goto(q, Idle) /\ UNCHANGED <<line, torn>>
       ELSE /\ status' = [status EXCEPT ![c] = "active"]
            /\ radius' = [radius EXCEPT ![c] =
                            IF status[c] = "suspended" /\ @ = "suspended" THEN "active" ELSE @]
            /\ open' = [open EXCEPT ![c] = @ \cap {"walled"}]
            /\ torn' = torn \ {c}
            /\ Goto(q, IF "walled" \in open[c] THEN [pc |-> "lift", c |-> c] ELSE Idle)
    /\ UNCHANGED <<client, time, asked, faults, failed>>

\* walledGardenReconnect
Lift(q) ==
    /\ job[q].pc = "lift"
    /\ open' = [open EXCEPT ![job[q].c] = @ \ {"walled"}]
    /\ Goto(q, Idle)
    /\ UNCHANGED <<status, radius, client, time, asked, faults, ghost>>

\* renewPreviouslyActivated closes no suspension row.
Renew(q, c) ==
    /\ status[c] \in {"suspended", "closed"} /\ Ask(q)
    /\ status' = [status EXCEPT ![c] = "active"]
    /\ radius' = [radius EXCEPT ![c] = "active"]
    /\ torn' = torn \ {c}
    /\ UNCHANGED <<open, client, time, job, faults, failed>>

----------------------------------------------------------------------------
(* PUT of a status and /terminate: a read, the write, the account and, for *)
(* a suspension, the row, each a statement of its own. A form that sends   *)
(* back the status it was shown is written too, without what follows;      *)
(* 'active' is taken from such a form only.                                *)
ReadForEdit(q, c, new) ==
    /\ new = "active" => status[c] = "active"
    /\ Ask(q)
    /\ Goto(q, [pc |-> "write", c |-> c, new |-> new, was |-> status[c]])
    /\ UNCHANGED <<line, client, time, faults, ghost>>

\* The status of q's form is the one it was shown.
Same(q) == job[q].new = job[q].was

\* What the status written by q makes of the record of unfinished suspensions.
Resuspended(q) ==
    IF job[q].new # "suspended" THEN torn \ {job[q].c}
    ELSE IF Same(q) /\ status[job[q].c] # "suspended" THEN torn \cup {job[q].c}
    ELSE torn

WriteStatus(q) ==
    LET c == job[q].c IN
    /\ job[q].pc = "write"
    /\ IF Permits(status[c], job[q].new)
       THEN /\ status' = [status EXCEPT ![c] = job[q].new]
            /\ Goto(q, IF Same(q) THEN Idle ELSE [job[q] EXCEPT !.pc = "radius"])
            /\ torn' = Resuspended(q)
       ELSE Goto(q, Idle) /\ UNCHANGED <<status, torn>>
    /\ UNCHANGED <<radius, open, client, time, asked, faults, failed>>

WriteRadius(q) ==
    LET c == job[q].c IN
    /\ job[q].pc = "radius"
    /\ radius' = [radius EXCEPT ![c] = IF job[q].new = "closed" THEN "inactive"
                                       ELSE IF @ = "active" THEN "suspended" ELSE @]
    /\ Goto(q, IF job[q].new = "closed" THEN Idle ELSE [job[q] EXCEPT !.pc = "log"])
    /\ UNCHANGED <<status, open, client, time, asked, faults, ghost>>

Abandon(p) ==
    torn' = IF job[p].pc \in {"radius", "log"} /\ job[p].new = "suspended"
            THEN torn \cup {job[p].c} ELSE torn

\* A row that cannot be written is an entry in the server's log.
WriteLog(q) ==
    /\ job[q].pc = "log"
    /\ \/ /\ open' = [open EXCEPT ![job[q].c] = @ \cup {"hard"}]
          /\ UNCHANGED <<faults, torn>>
       \/ /\ faults < MaxFaults /\ faults' = faults + 1
          /\ Abandon(q) /\ UNCHANGED open
    /\ Goto(q, Idle)
    /\ UNCHANGED <<status, radius, client, time, asked, failed>>

Crash(p) ==
    /\ job[p] # Idle /\ faults < MaxFaults
    /\ faults' = faults + 1
    /\ Abandon(p) /\ Failed(p) /\ Goto(p, Idle)
    /\ UNCHANGED <<line, client, time, asked>>

\* A day ends when its task has.
Tick ==
    /\ day < MaxDay /\ ran /\ job[Cron] = Idle
    /\ day' = day + 1 /\ ran' = FALSE
    /\ UNCHANGED <<line, client, job, asked, faults, ghost>>

----------------------------------------------------------------------------
Step(p) ==
    \/ ReadRule(p) \/ CheckEntry(p) \/ SuspendContract(p) \/ SuspendRefused(p)
    \/ Restrict(p, "soft_suspend", "soft") \/ Restrict(p, "walled_garden", "walled")
    \/ ReconnectIfSuspended(p) \/ ReconnectContract(p) \/ Lift(p)
    \/ WriteStatus(p) \/ WriteRadius(p) \/ WriteLog(p)

Begin(q) ==
    \/ RunAuto(q)
    \/ \E c \in Contract :
        \/ AskSuspend(q, c, "auto_suspend") \/ AskSuspend(q, c, "soft_suspend")
        \/ Pay(q, c) \/ Settle(q, c) \/ ReopenInvoice(q, c) \/ SetExempt(q, c)
        \/ AskReconnect(q, c) \/ Renew(q, c)
        \/ ReadForEdit(q, c, "active") \/ ReadForEdit(q, c, "suspended")
        \/ ReadForEdit(q, c, "closed")

Next == StartTask \/ Tick \/ (\E p \in Proc : Step(p) \/ Crash(p)) \/ (\E q \in Request : Begin(q))

Spec == Init /\ [][Next]_vars

(* The day passes, the task is started on it, and statements return. *)
FairSpec == /\ Spec /\ WF_vars(Tick) /\ WF_vars(StartTask)
            /\ \A p \in Proc : WF_vars(Step(p))

----------------------------------------------------------------------------
Job ==
    {Idle} \cup [pc : {"loop"}, rules : SUBSET Rule, list : SUBSET Entry]
    \cup [pc : {"act"}, entry : Entry, list : SUBSET Entry]
    \cup [pc : {"paid", "reconnect", "lift"}, c : Contract]
    \cup [pc : {"write", "radius", "log"}, c : Contract, new : {"suspended", "closed"},
          was : {"active", "suspended", "closed"}]
    \cup [pc : {"write"}, c : Contract, new : {"active"}, was : {"active"}]

(* Types; of the scheduled runs at most one a day fails. *)
TypeOK ==
    /\ status \in [Contract -> {"active", "suspended", "closed"}]
    /\ radius \in [Contract -> {"active", "suspended", "inactive"}]
    /\ open \in [Contract -> SUBSET Kind]
    /\ invoice \in [Contract -> {"issued", "paid"}] /\ exempt \in [Contract -> BOOLEAN]
    /\ day \in 1..MaxDay /\ ran \in BOOLEAN
    /\ job \in [Proc -> Job]
    /\ asked \in 0..MaxRequests /\ faults \in 0..MaxFaults
    /\ failed \in 0..day /\ torn \subseteq Contract

EditUnderWay(c) ==
    \E q \in Request : /\ job[q].pc \in {"radius", "log"}
                       /\ job[q].c = c /\ job[q].new = "suspended"

(* A suspended line does not authenticate, and the outage is on record: an *)
(* open suspension_logs row of its own. A PUT is the only exception: while *)
(* it is under way, when it died between its statements, or when it wrote  *)
(* back the suspension it had been shown over a reconnection since.        *)
SuspendedLineIsCut ==
    \A c \in Contract : status[c] = "suspended" =>
        \/ radius[c] # "active" /\ "hard" \in open[c]
        \/ EditUnderWay(c)
        \/ c \in torn

\* Some PUT writes 'active' over c, which it was shown as active.
FormRevives(c) ==
    \E q \in Request : /\ job[q].pc = "write" /\ job[q].c = c
                       /\ Same(q) /\ job[q].new = "active"
                       /\ job'[q] = Idle

(* A contract that ended is brought back by renew, or by a PUT that was    *)
(* shown the line in service and writes 'active' back: neither a stale     *)
(* list of debtors, nor a payment's late reconnection, nor a PUT of any    *)
(* other status revives it, and it never comes back suspended.             *)
ClosedStaysClosed ==
    [][\A c \in Contract : status[c] = "closed" /\ status'[c] # "closed" =>
          /\ status'[c] = "active"
          /\ (\E q \in Request : Renew(q, c)) \/ FormRevives(c)]_vars

(* evaluateRules looks at a debtor on grace_period_days days only. The     *)
(* debtor is cut in spite of failed runs as long as fewer than that fail.  *)
DebtorIsCut ==
    \A c \in Contract : \A r \in {s \in Rule : s.action = "auto_suspend"} :
        (/\ status[c] = "active" /\ invoice[c] = "issued" /\ ~exempt[c]
         /\ day = Due[c] + r.after /\ ~ran)
          ~> \/ status[c] # "active" \/ invoice[c] = "paid" \/ exempt[c]
             \/ failed >= r.grace

(* schema.sql: "Additional grace days after trigger before action is       *)
(* executed". The code acts during those days, and never after them.       *)
GraceIsGranted ==
    \A p \in Proc : job[p].pc = "act" /\ job[p].entry.rule \in Rule =>
        day - Due[job[p].entry.contract] >= job[p].entry.rule.after + job[p].entry.rule.grace

(* "When the subscriber pays, walledGardenReconnect() clears ...": nothing *)
(* calls it for a line that was never suspended.                           *)
PaymentLiftsGarden ==
    \A c \in Contract :
        (status[c] = "active" /\ invoice[c] = "paid" /\ "walled" \in open[c])
          ~> ("walled" \notin open[c] \/ invoice[c] = "issued" \/ status[c] # "active")

(* "restored_at IS NULL reliably means still suspended no matter which     *)
(* endpoint reactivated the contract": renew closes no row.                *)
OpenRowMeansSuspended ==
    \A c \in Contract : status[c] = "active" /\ (\A p \in Proc : job[p] = Idle) =>
        "hard" \notin open[c]

(* "No generic form may turn service on": the form that was shown an       *)
(* active line does, when the line was suspended or closed since.          *)
NoFormTurnsServiceOn ==
    [][\A c \in Contract : status[c] # "active" /\ status'[c] = "active" =>
          ~FormRevives(c)]_vars

(* "restored_at IS NULL reliably means still suspended", read the other    *)
(* way: without a crash, a suspended line has its open row once nobody is  *)
(* at work. Not when a PUT wrote back the suspension it had been shown.    *)
SuspensionIsOnRecord ==
    \A c \in Contract : status[c] = "suspended" /\ faults = 0 /\ (\A p \in Proc : job[p] = Idle) =>
        "hard" \in open[c]

(* A client who pays is reconnected: not when the payment falls between    *)
(* the list and the suspension, nor when it came through the gateway.      *)
SettledLineIsServed ==
    \A c \in Contract : (status[c] = "suspended" /\ invoice[c] = "paid")
        ~> (status[c] # "suspended" \/ invoice[c] # "paid")
=============================================================================
