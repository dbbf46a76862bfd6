---------------------------- MODULE TrapOutbox ----------------------------
(***************************************************************************)
(* One row of the trap forwarding outbox: services/trapForwardingService.js*)
(* with the triggers of schema.sql on rules, webhooks and organizations.   *)
(* The protocol is the webhook outbox's, written a second time with other  *)
(* rules: a rule and a registered webhook both decide the destination, a   *)
(* changed destination cancels, an exhausted crash recovery is settled by  *)
(* the claim itself, and two more checks stand between claim and send.     *)
(*                                                                         *)
(* Rows do not interact, so one row and whatever touches it is the         *)
(* protocol.  Each SQL statement is one action.  A timestamp is kept as    *)
(* its relation to NOW(), a claim token as the process that drew it.       *)
(***************************************************************************)
EXTENDS Naturals, FiniteSets

CONSTANTS Proc,         \* queue workers and sweeps in flight
          NoToken,      \* claim_token IS NULL
          Hook,         \* the rule forwards to its registered webhook
          Direct,       \* addresses a rule may name itself: forward_to_url, _email
          Url,          \* endpoints of the registered webhook
          IsTest,       \* is_test: a synthetic delivery, which a paused rule may send
          MaxAttempts,  \* max_attempts of the row
          MaxEpoch      \* bound: lifecycle changes of the organization

ASSUME TrapAssumption ==
  /\ IsFiniteSet(Proc) /\ NoToken \notin Proc /\ Hook \notin Direct /\ Url # {}
  /\ IsTest \in BOOLEAN /\ MaxAttempts \in Nat \ {0} /\ MaxEpoch \in Nat

VARIABLES
  dest, rule,           \* the rule: destination, and "active", "paused", "deleted"
  hookUrl, hookOn,      \* the webhooks row: url, is_active and not deleted
  orgActive, orgEpoch,  \* organizations: active, outbound_delivery_epoch
  status,               \* snmp_trap_forwarding_deliveries.status, see Status
  epoch,                \* organization_epoch
  via, target,          \* target_type with rule_id or webhook_id, target_url
  attempt, recovery,    \* attempt_number, recovery_count
  token,                \* claim_token
  ripe,                 \* next_attempt_at has come, or locked_at is stale
  revoked,              \* revoked_at IS NOT NULL
  queued,               \* a job with this row's id waits in the queue
  job,                  \* job[p]: what p does next
  fresh,                \* rule and webhook are as they were at the INSERT
  sends, accepted       \* requests that went out; one of them was accepted

config  == <<dest, rule, hookUrl, hookOn>>
org     == <<orgActive, orgEpoch>>
address == <<epoch, via, target>>
tally   == <<attempt, recovery>>
wire    == <<sends, accepted>>
vars    == <<dest, rule, hookUrl, hookOn, orgActive, orgEpoch, status, epoch,
             via, target, attempt, recovery, token, ripe, revoked, queued, job,
             fresh, sends, accepted>>

Unclaimed == {"pending", "retrying"}
Settled   == {"success", "dead_letter", "cancelled"}
Status    == {"none", "prepared"} \cup Unclaimed \cup {"processing"} \cup Settled
Holding   == {"reread", "owner", "source", "webhook", "send", "outcome"}
Pc        == {"idle", "preflight", "cancel", "claim", "lifecycle", "select"}
             \cup Holding

(* attempt: as read; answer: the status to write; current: nothing had     *)
(* changed under the row when it was claimed.                              *)
Job  == [pc : Pc, attempt : 0 .. MaxAttempts, answer : Unclaimed \cup Settled,
         current : BOOLEAN]
Idle == [pc |-> "idle", attempt |-> 0, answer |-> "pending", current |-> TRUE]

TypeOK ==
  /\ dest \in Direct \cup {Hook} /\ rule \in {"active", "paused", "deleted"}
  /\ hookUrl \in Url /\ hookOn \in BOOLEAN
  /\ orgActive \in BOOLEAN /\ orgEpoch \in 0 .. MaxEpoch
  /\ status \in Status /\ epoch \in 0 .. MaxEpoch
  /\ via \in Direct \cup {Hook} /\ target \in Direct \cup Url
  /\ attempt \in 0 .. MaxAttempts /\ recovery \in 0 .. 1
  /\ token \in Proc \cup {NoToken}
  /\ ripe \in BOOLEAN /\ revoked \in BOOLEAN /\ queued \in BOOLEAN
  /\ job \in [Proc -> Job]
  /\ fresh \in BOOLEAN /\ sends \in Nat /\ accepted \in BOOLEAN

Init ==
  /\ dest \in Direct \cup {Hook} /\ rule = "active"
  /\ hookUrl \in Url /\ hookOn = TRUE
  /\ orgActive = TRUE /\ orgEpoch = 0
  /\ status = "none" /\ epoch = 0
  /\ via = dest /\ target = hookUrl
  /\ attempt = 0 /\ recovery = 0 /\ token = NoToken
  /\ ripe = FALSE /\ revoked = FALSE /\ queued = FALSE
  /\ job = [p \in Proc |-> Idle]
  /\ fresh = TRUE /\ sends = 0 /\ accepted = FALSE

Goto(p, pc) == job' = [job EXCEPT ![p].pc = pc]
Finish(p)   == job' = [job EXCEPT ![p] = Idle]

(* setDeliveryOutcome will be called with this status. *)
Conclude(p, answer) ==
  job' = [job EXCEPT ![p] = [Idle EXCEPT !.pc = "outcome", !.answer = answer]]

(* jobQueue.add: a full or unreachable queue leaves only the row. *)
Enqueue == queued' = TRUE \/ queued' = queued

Stale == status = "processing" /\ ripe

(* SET status = 'cancelled', locked_at = NULL, claim_token = NULL of the   *)
(* rows a condition selects.                                               *)
CancelIf(condition) ==
  IF condition
  THEN status' = "cancelled" /\ token' = NoToken /\ ripe' = FALSE
  ELSE UNCHANGED <<status, token, ripe>>

-----------------------------------------------------------------------------
(* Administrators.  The triggers run inside their statements, and a trap   *)
(* or test being prepared holds the rule's row lock.                       *)

Revoke(concerned) ==
  /\ CancelIf(concerned /\ status \in Unclaimed)
  /\ revoked' = (revoked \/ (concerned /\ status = "processing"))
  /\ fresh' = (fresh /\ ~concerned)
  /\ UNCHANGED <<org, address, tally, queued, job, wire>>

(* trg_stfr_cancel_unclaimed_bu: destination, is_active, deleted_at, or    *)
(* one of the match fields.                                                *)
ChangeRule ==
  /\ status # "prepared"
  /\ dest' \in Direct \cup {Hook} /\ rule' \in {"active", "paused", "deleted"}
  /\ UNCHANGED <<hookUrl, hookOn>>
  /\ Revoke(TRUE)

(* trg_webhooks_cancel_trap_unclaimed_bu, for the rows of this webhook. *)
ChangeWebhook ==
  /\ hookUrl' \in Url /\ hookOn' \in BOOLEAN
  /\ hookUrl' # hookUrl \/ hookOn' # hookOn
  /\ UNCHANGED <<dest, rule>>
  /\ Revoke(via = Hook)

(* trg_organizations_outbound_epoch_bu and _cancel_outbound_au.  The       *)
(* receiver's transaction has locked the organizations before it prepares. *)
ChangeOrganization ==
  /\ orgEpoch < MaxEpoch
  /\ status = "prepared" => IsTest
  /\ orgActive' \in BOOLEAN /\ (orgActive => ~orgActive')
  /\ orgEpoch' = orgEpoch + 1
  /\ CancelIf(status \in Unclaimed /\ epoch # orgEpoch')
  /\ UNCHANGED <<config, address, tally, revoked, fresh, queued, job, wire>>

-----------------------------------------------------------------------------
(* prepareTrapDeliveries and queueTestDelivery: the snapshot is taken with *)
(* the rule locked, the row is written, the id is queued after the commit. *)

Prepare ==
  /\ status = "none" /\ orgActive
  /\ IF IsTest THEN rule # "deleted" ELSE rule = "active"
  /\ dest = Hook => hookOn
  /\ status' = "prepared" /\ epoch' = orgEpoch
  /\ via' = dest /\ target' = IF dest = Hook THEN hookUrl ELSE dest
  /\ UNCHANGED <<config, org, tally, token, ripe, revoked, queued, job, fresh, wire>>

InsertDelivery ==
  /\ status = "prepared"
  /\ status' = "pending" /\ fresh' = TRUE
  /\ Enqueue
  /\ UNCHANGED <<config, org, address, tally, token, ripe, revoked, job, wire>>

-----------------------------------------------------------------------------
(* attemptDelivery: the worker.                                            *)

(* checkSchemaReadiness: ready, or an installation whose sources cannot be *)
(* attributed (or SNMP switched off).  On a failure that may pass the job  *)
(* ends and the row is left to the sweep, as after LoseJob.                *)
TakeJob(p) ==
  /\ queued /\ job[p].pc = "idle"
  /\ queued' = FALSE
  /\ \E pc \in {"preflight", "cancel"} : Goto(p, pc)
  /\ UNCHANGED <<config, org, status, address, tally, token, ripe, revoked, fresh, wire>>

(* Pending and retrying rows, and stale leases, of an installation that    *)
(* cannot forward, or of a snapshot that has changed.                      *)
CancelUnclaimed(p) ==
  /\ job[p].pc = "cancel"
  /\ CancelIf(status \in Unclaimed \/ Stale)
  /\ Finish(p)
  /\ UNCHANGED <<config, org, address, tally, revoked, fresh, queued, wire>>

(* snapshotMatchesCurrentRule, on one SELECT of row, rule, webhook, owner. *)
SnapshotMatches ==
  /\ orgActive /\ epoch = orgEpoch
  /\ rule = "active" \/ (IsTest /\ rule = "paused")
  /\ via = dest
  /\ via = Hook => hookOn /\ target = hookUrl

Preflight(p) ==
  /\ job[p].pc = "preflight"
  /\ Goto(p, IF SnapshotMatches THEN "claim" ELSE "cancel")
  /\ UNCHANGED <<config, org, status, address, tally, token, ripe, revoked, fresh, queued, wire>>

(* A mutation: a revoked lease is recovered like any other. *)
ClaimableRevoked ==
  \/ status \in Unclaimed /\ attempt < MaxAttempts /\ (status = "pending" \/ ripe)
  \/ Stale

Claimable ==
  /\ ~revoked
  /\ \/ status \in Unclaimed /\ attempt < MaxAttempts /\ (status = "pending" \/ ripe)
     \/ Stale

(* The letter in front of the token: F a first claim of the attempt, S a   *)
(* stale one that costs an attempt, R the one recovery of the last, X the  *)
(* end of recoveries.                                                      *)
Letter ==
  CASE status # "processing"                        -> "F"
    [] status = "processing" /\ attempt < MaxAttempts -> "S"
    [] status = "processing" /\ attempt >= MaxAttempts /\ recovery < 1 -> "R"
    [] OTHER                                         -> "X"

(* A mutation: every stale lease costs an attempt, the last one too. *)
ClaimUncapped(p) ==
  /\ job[p].pc = "claim"
  /\ IF Claimable
     THEN /\ status' = "processing" /\ token' = p /\ ripe' = FALSE
          /\ attempt' = attempt + 1 /\ UNCHANGED recovery
          /\ job' = [job EXCEPT ![p].pc = "reread", ![p].current = fresh /\ epoch = orgEpoch]
     ELSE Finish(p) /\ UNCHANGED <<status, token, ripe, tally>>
  /\ UNCHANGED <<config, org, address, revoked, fresh, queued, wire>>

(* The claim is one UPDATE. *)
Claim(p) ==
  /\ job[p].pc = "claim"
  /\ IF Claimable
     THEN /\ status' = IF Letter = "X" THEN "dead_letter" ELSE "processing"
          /\ token' = p /\ ripe' = FALSE
          /\ attempt' = IF Letter \in {"F", "S"} THEN attempt + 1 ELSE attempt
          /\ recovery' = IF Letter = "R" THEN recovery + 1 ELSE recovery
          /\ job' = [job EXCEPT ![p].pc = "reread", ![p].current = fresh /\ epoch = orgEpoch]
     ELSE Finish(p) /\ UNCHANGED <<status, token, ripe, tally>>
  /\ UNCHANGED <<config, org, address, revoked, fresh, queued, wire>>

(* The claimed row is read back by its token, and the snapshot compared a  *)
(* second time.                                                            *)
Reread(p) ==
  /\ job[p].pc = "reread"
  /\ \/ /\ token # p \/ status = "dead_letter"
        /\ Finish(p)
     \/ /\ token = p /\ status # "dead_letter" /\ ~SnapshotMatches
        /\ Conclude(p, "cancelled")
     \/ /\ token = p /\ status # "dead_letter" /\ SnapshotMatches
        /\ job' = [job EXCEPT ![p].pc = "owner", ![p].attempt = attempt]
  /\ UNCHANGED <<config, org, status, address, tally, token, ripe, revoked, fresh, queued, wire>>

Exhausted(p) == job[p].attempt >= MaxAttempts

(* authoritativeOrganizationDeliveryState, which may fail. *)
CheckOwner(p) ==
  /\ job[p].pc = "owner"
  /\ \/ Conclude(p, IF Exhausted(p) THEN "dead_letter" ELSE "retrying")
     \/ ~(orgActive /\ epoch = orgEpoch) /\ Conclude(p, "cancelled")
     \/ orgActive /\ epoch = orgEpoch /\ Goto(p, "source")
  /\ UNCHANGED <<config, org, status, address, tally, token, ripe, revoked, fresh, queued, wire>>

(* lockSharedDeviceByIp, or the readiness of a test: the source is bound   *)
(* to the queued device, or not, or the transaction failed.                *)
CheckSource(p) ==
  /\ job[p].pc = "source"
  /\ \/ Conclude(p, "retrying")
     \/ Conclude(p, "cancelled")
     \/ Goto(p, IF via = Hook THEN "webhook" ELSE "send")
  /\ UNCHANGED <<config, org, status, address, tally, token, ripe, revoked, fresh, queued, wire>>

(* getActiveWebhook, for its secret and timeout.  A query or a decryption  *)
(* that throws is a failed attempt without a request.                      *)
CheckWebhook(p) ==
  /\ job[p].pc = "webhook"
  /\ \/ IF hookOn /\ hookUrl = target THEN Goto(p, "send") ELSE Conclude(p, "cancelled")
     \/ Conclude(p, IF Exhausted(p) THEN "dead_letter" ELSE "retrying")
  /\ UNCHANGED <<config, org, status, address, tally, token, ripe, revoked, fresh, queued, wire>>

(* safeHttpsPost or sendEmail.  A request that timed out may have been     *)
(* accepted all the same.                                                  *)
SendTrap(p) ==
  /\ job[p].pc = "send"
  /\ sends' = sends + 1
  /\ \/ accepted' = TRUE /\ Conclude(p, "success")
     \/ /\ accepted' \in {accepted, TRUE}
        /\ \E answer \in {"dead_letter", "retrying"} :
             /\ Exhausted(p) => answer = "dead_letter"
             /\ Conclude(p, answer)
  /\ UNCHANGED <<config, org, status, address, tally, token, ripe, revoked, fresh, queued>>

(* A mutation: the outcome is written without looking at the claim. *)
SetOutcomeUnchecked(p) ==
  /\ job[p].pc = "outcome"
  /\ status' = job[p].answer /\ token' = NoToken /\ ripe' = FALSE
  /\ Finish(p)
  /\ UNCHANGED <<config, org, address, tally, revoked, fresh, queued, wire>>

(* setDeliveryOutcome: compare-and-set on the claim token. *)
SetOutcome(p) ==
  /\ job[p].pc = "outcome"
  /\ IF status = "processing" /\ token = p
     THEN status' = job[p].answer /\ token' = NoToken /\ ripe' = FALSE
     ELSE UNCHANGED <<status, token, ripe>>
  /\ Finish(p)
  /\ UNCHANGED <<config, org, address, tally, revoked, fresh, queued, wire>>

-----------------------------------------------------------------------------
(* processRetries in the webhook_retry task, as one row sees it.           *)

SweepRevoked(p) ==
  /\ status \notin {"none", "prepared"} /\ job[p].pc = "idle"
  /\ CancelIf(revoked /\ (status \in Unclaimed \/ Stale))
  /\ Goto(p, "lifecycle")
  /\ UNCHANGED <<config, org, address, tally, revoked, fresh, queued, wire>>

(* The installation cannot attribute sources, or SNMP is switched off. *)
SweepUnavailable(p) ==
  /\ status \notin {"none", "prepared"} /\ job[p].pc = "idle"
  /\ Goto(p, "cancel")
  /\ UNCHANGED <<config, org, status, address, tally, token, ripe, revoked, fresh, queued, wire>>

SweepLifecycle(p) ==
  /\ job[p].pc = "lifecycle"
  /\ CancelIf((~orgActive \/ epoch # orgEpoch) /\ (status \in Unclaimed \/ Stale))
  /\ Goto(p, "select")
  /\ UNCHANGED <<config, org, address, tally, revoked, fresh, queued, wire>>

(* The due rows are selected and their ids queued. *)
SweepSelect(p) ==
  /\ job[p].pc = "select"
  /\ IF orgActive /\ epoch = orgEpoch /\ Claimable THEN Enqueue ELSE UNCHANGED queued
  /\ Finish(p)
  /\ UNCHANGED <<config, org, status, address, tally, token, ripe, revoked, fresh, wire>>

-----------------------------------------------------------------------------
(* The clock, the queue and the processes. *)

Ripen ==
  /\ status \in {"retrying", "processing"} /\ ~ripe
  /\ ripe' = TRUE
  /\ UNCHANGED <<config, org, status, address, tally, token, revoked, fresh, queued, job, wire>>

(* A restart empties the in-process queue, Redis may lose a job, and a     *)
(* worker defers its row when readiness cannot be determined.              *)
LoseJob ==
  /\ queued
  /\ queued' = FALSE
  /\ UNCHANGED <<config, org, status, address, tally, token, ripe, revoked, fresh, job, wire>>

(* The process dies, and its job with it (attempts: 1) or not. *)
Crash(p) ==
  /\ job[p].pc # "idle"
  /\ Finish(p)
  /\ Enqueue
  /\ UNCHANGED <<config, org, status, address, tally, token, ripe, revoked, fresh, wire>>

WorkerStep(p) ==
  \/ Preflight(p) \/ CancelUnclaimed(p) \/ Claim(p) \/ Reread(p) \/ CheckOwner(p)
  \/ CheckSource(p) \/ CheckWebhook(p) \/ SendTrap(p) \/ SetOutcome(p)

SweepStep(p) == SweepLifecycle(p) \/ SweepSelect(p)

JobStep(p) == WorkerStep(p) \/ SweepStep(p)

Next ==
  \/ \E p \in Proc :
       \/ TakeJob(p) \/ SweepRevoked(p) \/ SweepUnavailable(p)
       \/ JobStep(p) \/ Crash(p)
  \/ ChangeRule \/ ChangeWebhook \/ ChangeOrganization
  \/ Prepare \/ InsertDelivery
  \/ Ripen \/ LoseJob

Spec == Init /\ [][Next]_vars

-----------------------------------------------------------------------------
(* docs/snmp-trap-forwarding.md: a claimed attempt "may finish against its *)
(* immutable destination snapshot, but it is not retried after the         *)
(* revocation".  Whatever is sent was claimed before anything changed      *)
(* under the row: rule, webhook (an A-to-B-to-A edit included) or          *)
(* organization.                                                           *)
SendsAreCurrent == \A p \in Proc : job[p].pc = "send" => job[p].current

Phase ==
  CASE status \in {"none", "prepared"} -> "none"
    [] status = "success"              -> "delivered"
    [] status = "dead_letter"          -> "failed"
    [] status = "cancelled"            -> "cancelled"
    [] OTHER                           -> "open"

Delivery == INSTANCE DurableDelivery
            WITH Budget <- MaxAttempts + 1, phase <- Phase

(* The leases, sweeps, retries and crash recoveries of attemptDelivery     *)
(* implement the plain delivery: at most max_attempts + 1 requests, a      *)
(* success only after an accepted one, and no settled row ever changed by  *)
(* a late worker, a sweep or a trigger.                                    *)
ImplementsDelivery == Delivery!Spec

(* docs/snmp-trap-forwarding.md, the status Retrying: "The last attempt    *)
(* failed and another is scheduled".                                       *)
RetryingIsScheduled == status = "retrying" /\ ~revoked => attempt < MaxAttempts
=============================================================================
