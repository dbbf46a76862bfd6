--------------------------- MODULE WebhookOutbox ---------------------------
(***************************************************************************)
(* One row of the webhook outbox, from the dispatch that writes it to its  *)
(* settlement: services/webhookService.js, the triggers of schema.sql on   *)
(* webhooks and organizations, and the queue that carries the row's id to  *)
(* the workers.                                                            *)
(*                                                                         *)
(* Rows do not interact: every statement names one delivery or treats the  *)
(* rows of a table one by one, so one row and the requests, workers and    *)
(* sweeps that touch it are the whole protocol.  Each SQL statement is one *)
(* action; job[p] is where request, worker or sweep p stands between two   *)
(* of them.  An action that another process overtakes does what its WHERE  *)
(* clause says of the row it then finds.                                   *)
(*                                                                         *)
(* A timestamp is kept as its relation to NOW(), a claim token as the      *)
(* process that drew it.  max_retries is constant during a delivery.       *)
(***************************************************************************)
EXTENDS Naturals

CONSTANTS Proc,        \* requests, queue workers and sweeps in flight
          NoToken,     \* claim_token IS NULL
          Url,         \* endpoints an administrator registers
          MaxRetries,  \* webhooks.max_retries
          MaxEpoch,    \* bound: lifecycle changes of the organization
          Isolated     \* the tenant has a database of its own

ASSUME OutboxAssumption ==
  /\ NoToken \notin Proc /\ Url # {}
  /\ MaxRetries \in Nat /\ MaxEpoch \in Nat /\ Isolated \in BOOLEAN

VARIABLES
  url, isActive, isDeleted,   \* the webhooks row
  orgActive, orgEpoch,        \* organizations: active, outbound_delivery_epoch
  status,                     \* webhook_deliveries.status, see Stage
  epoch, target,              \* organization_epoch, target_url
  attempt, recovery,          \* attempt_number, recovery_count
  token,                      \* claim_token
  ripe,                       \* next_retry_at has come, or locked_at is stale
  revoked,                    \* revoked_at IS NOT NULL
  queued,                     \* a job with this row's id waits in the queue
  job,                        \* job[p]: what p does next
  fresh,                      \* the webhook is as it was when the row was queued
  claims                      \* claims of the row since it was queued

webhook == <<url, isActive, isDeleted>>
org     == <<orgActive, orgEpoch>>
address == <<epoch, target>>
tally   == <<attempt, recovery, claims>>
lease   == <<token, ripe, revoked, fresh>>
row     == <<status, address, tally, lease>>
vars    == <<url, isActive, isDeleted, orgActive, orgEpoch, status, epoch, target,
             attempt, recovery, token, ripe, revoked, queued, job, fresh, claims>>

(* What dispatch has read before the row exists. *)
Stage     == {"none", "owner", "target"}
Unclaimed == {"pending", "retrying"}
Settled   == {"success", "dead_letter"}
Status    == Stage \cup Unclaimed \cup {"processing"} \cup Settled
Holding   == {"check", "post", "outcome"}
Pc        == {"idle", "claim", "mismatch", "terminalize"} \cup Holding \cup
             {"exhausted", "moved", "select", "owner", "redeliver", "reset", "refuse"}

(* attempt and epoch: as read; answer: the status to write; current:       *)
(* nothing had changed under the row when it was claimed.                  *)
Job  == [pc : Pc, epoch : 0 .. MaxEpoch, attempt : 0 .. MaxRetries + 1,
         answer : Unclaimed \cup Settled, current : BOOLEAN]
Idle == [pc |-> "idle", epoch |-> 0, attempt |-> 0,
         answer |-> "pending", current |-> TRUE]

TypeOK ==
  /\ url \in Url /\ isActive \in BOOLEAN /\ isDeleted \in BOOLEAN
  /\ orgActive \in BOOLEAN /\ orgEpoch \in 0 .. MaxEpoch
  /\ status \in Status
  /\ epoch \in 0 .. MaxEpoch /\ target \in Url
  /\ attempt \in 0 .. MaxRetries + 1 /\ recovery \in 0 .. 1
  /\ token \in Proc \cup {NoToken}
  /\ ripe \in BOOLEAN /\ revoked \in BOOLEAN /\ queued \in BOOLEAN
  /\ job \in [Proc -> Job]
  /\ fresh \in BOOLEAN /\ claims \in Nat

Init ==
  /\ url \in Url /\ isActive = TRUE /\ isDeleted = FALSE
  /\ orgActive = TRUE /\ orgEpoch = 0
  /\ status = "none" /\ epoch = 0 /\ target = url
  /\ attempt = 0 /\ recovery = 0 /\ token = NoToken
  /\ ripe = FALSE /\ revoked = FALSE /\ queued = FALSE
  /\ job = [p \in Proc |-> Idle]
  /\ fresh = TRUE /\ claims = 0

Start(p, pc) == job[p].pc = "idle" /\ job' = [job EXCEPT ![p].pc = pc]
Goto(p, pc)  == job' = [job EXCEPT ![p].pc = pc]
Finish(p)    == job' = [job EXCEPT ![p] = Idle]

(* jobQueue.add: a full or unreachable queue leaves only the row. *)
Enqueue == queued' = TRUE \/ queued' = queued

(* SET status = 'dead_letter', locked_at = NULL, claim_token = NULL of the *)
(* rows a condition selects.                                               *)
DeadLetterIf(condition) ==
  IF condition
  THEN status' = "dead_letter" /\ token' = NoToken /\ ripe' = FALSE
  ELSE UNCHANGED <<status, token, ripe>>

-----------------------------------------------------------------------------
(* Administrators.  The triggers run inside their statements.              *)

(* trg_webhooks_cancel_trap_unclaimed_bu. *)
CancelDeliveries ==
  /\ DeadLetterIf(status \in Unclaimed)
  /\ revoked' = (revoked \/ status = "processing")
  /\ fresh' = FALSE
  /\ UNCHANGED <<org, address, tally, queued, job>>

UpdateWebhook ==
  /\ ~isDeleted
  /\ url' \in Url /\ isActive' \in BOOLEAN
  /\ url' # url \/ isActive' # isActive
  /\ UNCHANGED isDeleted
  /\ CancelDeliveries

DeleteOrRestoreWebhook ==
  /\ isDeleted' = ~isDeleted
  /\ UNCHANGED <<url, isActive>>
  /\ CancelDeliveries

(* trg_organizations_outbound_epoch_bu and _cancel_outbound_au, which      *)
(* reaches the rows of the shared database only.                           *)
ChangeOrganization ==
  /\ orgEpoch < MaxEpoch
  /\ orgActive' \in BOOLEAN /\ (orgActive => ~orgActive')
  /\ orgEpoch' = orgEpoch + 1
  /\ DeadLetterIf(~Isolated /\ status \in Unclaimed /\ epoch # orgEpoch')
  /\ UNCHANGED <<webhook, address, tally, revoked, fresh, queued, job>>

-----------------------------------------------------------------------------
(* dispatch: two reads, the INSERT, and the queue. *)

ReadOwner ==
  /\ status = "none" /\ orgActive
  /\ status' = "owner" /\ epoch' = orgEpoch
  /\ UNCHANGED <<webhook, org, target, tally, lease, queued, job>>

ReadTarget ==
  /\ status = "owner" /\ isActive /\ ~isDeleted
  /\ status' = "target" /\ target' = url
  /\ UNCHANGED <<webhook, org, epoch, tally, lease, queued, job>>

InsertDelivery ==
  /\ status = "target"
  /\ status' = "pending" /\ fresh' = TRUE
  /\ Enqueue
  /\ UNCHANGED <<webhook, org, address, tally, token, ripe, revoked, job>>

-----------------------------------------------------------------------------
(* deliverDurableWebhook: the worker.                                      *)

Stale == status = "processing" /\ ripe

(* The owner is read before the claim. *)
TakeJob(p) ==
  /\ queued /\ job[p].pc = "idle"
  /\ queued' = FALSE
  /\ job' = [job EXCEPT ![p].pc = IF orgActive THEN "claim" ELSE "terminalize",
                        ![p].epoch = IF orgActive THEN orgEpoch ELSE 0]
  /\ UNCHANGED <<webhook, org, row>>

(* terminalizeInactiveOrganizationDelivery, of the worker and the sweep. *)
Terminalize(p) ==
  /\ job[p].pc = "terminalize"
  /\ DeadLetterIf(status \in Unclaimed \/ Stale)
  /\ Finish(p)
  /\ UNCHANGED <<webhook, org, address, tally, revoked, fresh, queued>>

(* A mutation: the final attempt is recovered for ever. *)
ClaimableForever(p) ==
  /\ isActive /\ ~isDeleted
  /\ epoch = job[p].epoch /\ target = url /\ ~revoked
  /\ \/ status = "pending"
     \/ status = "retrying" /\ ripe
     \/ Stale

Claimable(p) ==
  /\ isActive /\ ~isDeleted
  /\ epoch = job[p].epoch /\ target = url /\ ~revoked
  /\ \/ status = "pending"
     \/ status = "retrying" /\ ripe
     \/ Stale /\ (attempt < MaxRetries + 1 \/ recovery < 1)

(* A mutation: the attempt is counted beyond the last one. *)
ClaimUncapped(p) ==
  /\ job[p].pc = "claim"
  /\ IF Claimable(p)
     THEN /\ status' = "processing" /\ token' = p /\ ripe' = FALSE
          /\ recovery' = IF status = "processing" /\ attempt >= MaxRetries + 1
                         THEN recovery + 1 ELSE recovery
          /\ attempt' = attempt + 1
          /\ claims' = claims + 1
          /\ job' = [job EXCEPT ![p] = [Idle EXCEPT !.pc = "check", !.attempt = attempt',
                                          !.current = fresh /\ epoch = orgEpoch]]
     ELSE Goto(p, "mismatch") /\ UNCHANGED <<status, tally, token, ripe>>
  /\ UNCHANGED <<webhook, org, address, revoked, fresh, queued>>

(* The claim is one UPDATE: the attempt is counted as it is claimed, and a *)
(* stale final attempt may be recovered once.                              *)
Claim(p) ==
  /\ job[p].pc = "claim"
  /\ IF Claimable(p)
     THEN /\ status' = "processing" /\ token' = p /\ ripe' = FALSE
          /\ recovery' = IF status = "processing" /\ attempt >= MaxRetries + 1
                         THEN recovery + 1 ELSE recovery
          /\ attempt'  = IF attempt < MaxRetries + 1 THEN attempt + 1 ELSE attempt
          /\ claims' = claims + 1
          /\ job' = [job EXCEPT ![p] = [Idle EXCEPT !.pc = "check", !.attempt = attempt',
                                          !.current = fresh /\ epoch = orgEpoch]]
     ELSE Goto(p, "mismatch") /\ UNCHANGED <<status, tally, token, ripe>>
  /\ UNCHANGED <<webhook, org, address, revoked, fresh, queued>>

(* The second UPDATE, for a row of an earlier organization lifecycle. *)
DropMismatch(p) ==
  /\ job[p].pc = "mismatch"
  /\ DeadLetterIf(epoch # job[p].epoch /\ (status \in Unclaimed \/ Stale))
  /\ Finish(p)
  /\ UNCHANGED <<webhook, org, address, tally, revoked, fresh, queued>>

(* A mutation: the owner is not asked again after the claim. *)
CheckNothing(p) ==
  /\ job[p].pc = "check"
  /\ Goto(p, "post")
  /\ UNCHANGED <<webhook, org, row, queued>>

(* ownerAfterClaim: the last look before any external I/O. *)
CheckOwner(p) ==
  /\ job[p].pc = "check"
  /\ job' = IF orgActive /\ epoch = orgEpoch
            THEN [job EXCEPT ![p].pc = "post"]
            ELSE [job EXCEPT ![p].pc = "outcome", ![p].answer = "dead_letter"]
  /\ UNCHANGED <<webhook, org, row, queued>>

(* httpPost: accepted, refused for good, or failed in a way that a retry   *)
(* may cure, as long as attempts are left.                                 *)
Post(p) ==
  /\ job[p].pc = "post"
  /\ \E answer \in {"success", "dead_letter", "retrying"} :
       /\ answer = "retrying" => job[p].attempt < MaxRetries + 1
       /\ job' = [job EXCEPT ![p].pc = "outcome", ![p].answer = answer]
  /\ UNCHANGED <<webhook, org, row, queued>>

(* A mutation: the outcome is written without looking at the claim. *)
SetOutcomeUnchecked(p) ==
  /\ job[p].pc = "outcome"
  /\ status' = job[p].answer /\ token' = NoToken /\ ripe' = FALSE
  /\ Finish(p)
  /\ UNCHANGED <<webhook, org, address, tally, revoked, fresh, queued>>

(* setDurableWebhookOutcome: compare-and-set on the claim token. *)
SetOutcome(p) ==
  /\ job[p].pc = "outcome"
  /\ IF status = "processing" /\ token = p
     THEN status' = job[p].answer /\ token' = NoToken /\ ripe' = FALSE
     ELSE UNCHANGED <<status, token, ripe>>
  /\ Finish(p)
  /\ UNCHANGED <<webhook, org, address, tally, revoked, fresh, queued>>

-----------------------------------------------------------------------------
(* processCurrentDatabaseRetries: the webhook_retry task, as one row sees  *)
(* its five statements.                                                    *)

(* A mutation: a revoked delivery is only dropped once it is stale. *)
SweepRevokedStale(p) ==
  /\ status \notin Stage
  /\ DeadLetterIf(Stale /\ (revoked \/ ~isActive \/ isDeleted \/ target # url))
  /\ Start(p, "exhausted")
  /\ UNCHANGED <<webhook, org, address, tally, revoked, fresh, queued>>

SweepRevoked(p) ==
  /\ status \notin Stage
  /\ DeadLetterIf(\/ revoked /\ status \in Unclaimed
                  \/ Stale /\ (revoked \/ ~isActive \/ isDeleted \/ target # url))
  /\ Start(p, "exhausted")
  /\ UNCHANGED <<webhook, org, address, tally, revoked, fresh, queued>>

SweepExhausted(p) ==
  /\ job[p].pc = "exhausted"
  /\ DeadLetterIf(Stale /\ attempt >= MaxRetries + 1 /\ recovery >= 1)
  /\ Goto(p, "moved")
  /\ UNCHANGED <<webhook, org, address, tally, revoked, fresh, queued>>

SweepMoved(p) ==
  /\ job[p].pc = "moved"
  /\ DeadLetterIf(status \in Unclaimed /\ target # url)
  /\ Goto(p, "select")
  /\ UNCHANGED <<webhook, org, address, tally, revoked, fresh, queued>>

Due == status = "pending" \/ (status = "retrying" /\ ripe) \/ Stale

SweepSelect(p) ==
  /\ job[p].pc = "select"
  /\ IF isActive /\ ~isDeleted /\ target = url /\ ~revoked /\ Due
     THEN Goto(p, "owner") ELSE Finish(p)
  /\ UNCHANGED <<webhook, org, row, queued>>

SweepRoute(p) ==
  /\ job[p].pc = "owner"
  /\ IF orgActive /\ epoch = orgEpoch
     THEN Enqueue /\ Finish(p)
     ELSE Goto(p, "terminalize") /\ UNCHANGED queued
  /\ UNCHANGED <<webhook, org, row>>

-----------------------------------------------------------------------------
(* redeliverDeadLetter: an administrator's request. *)

Redeliver(p) ==
  /\ orgActive /\ status \notin Stage
  /\ job[p].pc = "idle"
  /\ job' = [job EXCEPT ![p].pc = "redeliver", ![p].epoch = orgEpoch]
  /\ UNCHANGED <<webhook, org, row, queued>>

(* A destination that moved or that no longer resolves to a safe address   *)
(* is refused.                                                             *)
ReadDeadLetter(p) ==
  /\ job[p].pc = "redeliver"
  /\ IF status = "dead_letter" /\ ~isDeleted /\ epoch = job[p].epoch
     THEN \/ target = url /\ Goto(p, "reset")
          \/ Goto(p, "refuse")
     ELSE Finish(p)
  /\ UNCHANGED <<webhook, org, row, queued>>

(* The refusal writes dead_letter whatever the row has become. *)
RefuseRedelivery(p) ==
  /\ job[p].pc = "refuse"
  /\ DeadLetterIf(TRUE)
  /\ Finish(p)
  /\ UNCHANGED <<webhook, org, address, tally, revoked, fresh, queued>>

ResetDeadLetter(p) ==
  /\ job[p].pc = "reset"
  /\ IF status = "dead_letter"
     THEN /\ status' = "retrying" /\ ripe' = TRUE /\ token' = NoToken
          /\ attempt' = 0 /\ recovery' = 0 /\ revoked' = FALSE
          /\ fresh' = TRUE /\ claims' = 0
          /\ Enqueue
     ELSE UNCHANGED <<status, tally, lease, queued>>
  /\ Finish(p)
  /\ UNCHANGED <<webhook, org, address>>

-----------------------------------------------------------------------------
(* The clock, the queue and the processes. *)

Ripen ==
  /\ status \in {"retrying", "processing"} /\ ~ripe
  /\ ripe' = TRUE
  /\ UNCHANGED <<webhook, org, status, address, tally, token, revoked, fresh, queued, job>>

(* A restart empties the in-process queue; Redis may lose a job. *)
LoseJob ==
  /\ queued
  /\ queued' = FALSE
  /\ UNCHANGED <<webhook, org, row, job>>

(* The process dies; BullMQ may hand the job of a dead worker out again. *)
Crash(p) ==
  /\ job[p].pc # "idle"
  /\ Finish(p)
  /\ Enqueue
  /\ UNCHANGED <<webhook, org, row>>

WorkerStep(p) ==
  \/ Terminalize(p) \/ Claim(p) \/ DropMismatch(p)
  \/ CheckOwner(p) \/ Post(p) \/ SetOutcome(p)

SweepStep(p) == SweepExhausted(p) \/ SweepMoved(p) \/ SweepSelect(p) \/ SweepRoute(p)

RequestStep(p) == ReadDeadLetter(p) \/ RefuseRedelivery(p) \/ ResetDeadLetter(p)

JobStep(p) == WorkerStep(p) \/ SweepStep(p) \/ RequestStep(p)

Next ==
  \/ \E p \in Proc : TakeJob(p) \/ SweepRevoked(p) \/ Redeliver(p) \/ JobStep(p) \/ Crash(p)
  \/ UpdateWebhook \/ DeleteOrRestoreWebhook \/ ChangeOrganization
  \/ ReadOwner \/ ReadTarget \/ InsertDelivery
  \/ Ripen \/ LoseJob

Spec == Init /\ [][Next]_vars

(* Statements and posts end (they carry timeouts), time passes, the        *)
(* webhook_retry task keeps coming, and the queue neither refuses nor      *)
(* loses a job every time.                                                 *)
Fairness ==
  /\ \A p \in Proc : WF_vars(JobStep(p))
  /\ WF_vars(Ripen)
  /\ SF_vars(\E p \in Proc : SweepRevoked(p))
  /\ SF_vars(\E p \in Proc : SweepRoute(p) /\ queued')
  /\ SF_vars(\E p \in Proc : TakeJob(p))
FairSpec == Spec /\ Fairness

(* A step of p that nothing but a crash explains. *)
Dies(p) == Crash(p) /\ ~JobStep(p)

-----------------------------------------------------------------------------
(* "The claim is the documented in-flight boundary": whatever goes out was *)
(* claimed before anything changed under it, neither the webhook (not even *)
(* "after an A-to-B-to-A URL change") nor the organization's lifecycle.    *)
PostsAreCurrent == \A p \in Proc : job[p].pc = "post" => job[p].current

(* "A worker that repeatedly dies after taking the final allowed claim     *)
(* must not be reclaimed forever": one queueing of a delivery is claimed,  *)
(* and so posted, at most max_retries + 2 times.                           *)
BoundedClaims == claims <= MaxRetries + 2

(* An accepted delivery stays accepted: no late worker, stale lease, sweep *)
(* or trigger takes it back.  The one statement that can is the refusal of *)
(* a redelivery, which names the row and not its status.                   *)
SuccessIsFinal ==
  [][status = "success" /\ status' # "success" =>
       \E p \in Proc : RefuseRedelivery(p)]_vars

(* Every delivery ends as success or dead letter while its webhook keeps   *)
(* coming back into service, although jobs get lost, administrators go on  *)
(* changing the configuration, and every attempt may kill its worker.      *)
DeliverySettles ==
  <>[][\A p \in Proc : Dies(p) => job[p].pc \in Holding]_vars
  /\ []<>(isActive /\ ~isDeleted)
  => (status \in Unclaimed \cup {"processing"} ~> status \in Settled)

(* docs/webhook-events.md: "Once max_retries (default 5) attempts are      *)
(* exhausted the row is set to dead_letter status and no further automatic *)
(* retries occur."                                                         *)
AttemptsWithinMaxRetries == attempt <= MaxRetries
=============================================================================
