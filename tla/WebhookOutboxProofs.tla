------------------------ MODULE WebhookOutboxProofs ------------------------
(***************************************************************************)
(* What holds of an outbox row for every number of requests, workers and   *)
(* sweeps, every set of endpoints and every max_retries.                   *)
(*                                                                         *)
(* Inv is inductive.  FreshInv is the revocation protocol: a row somebody  *)
(* could still claim is either unchanged since it was queued or revoked.   *)
(* CurrentInv carries that from the claim over the second look at the      *)
(* organization to the post.  CountInv ties the claims to the two counters *)
(* in the row, and HolderInv keeps the owner of the current token honest   *)
(* about them.                                                             *)
(***************************************************************************)
EXTENDS WebhookOutbox, TLAPS

(* Nobody works on a row that dispatch has not inserted yet. *)
StageInv ==
  /\ status \in Stage => ~queued /\ \A p \in Proc : job[p].pc = "idle"
  /\ status \in Stage \cup {"pending"} => attempt = 0 /\ recovery = 0

FreshInv == status \in Unclaimed \cup {"processing"} /\ ~revoked => fresh

CurrentInv ==
  /\ epoch <= orgEpoch
  /\ \A p \in Proc : /\ job[p].pc = "check" => job[p].current \/ epoch < orgEpoch
                     /\ job[p].pc = "post" => job[p].current

CountInv ==
  /\ claims = attempt + recovery
  /\ status \in Unclaimed => attempt <= MaxRetries

HolderInv ==
  \A p \in Proc :
    /\ job[p].pc \in Holding /\ token = p /\ status = "processing" => job[p].attempt = attempt
    /\ job[p].pc = "outcome" => job[p].answer # "pending"
    /\ job[p].pc = "outcome" /\ job[p].answer = "retrying" => job[p].attempt <= MaxRetries

Inv == TypeOK /\ StageInv /\ FreshInv /\ CurrentInv /\ CountInv /\ HolderInv

-----------------------------------------------------------------------------
(* Types of the work records. *)
LEMMA JobTypes ==
  /\ Idle \in Job
  /\ \A n \in 0 .. MaxRetries + 1, c \in BOOLEAN :
       [Idle EXCEPT !.pc = "check", !.attempt = n, !.current = c] \in Job
<1>1. 0 \in 0 .. MaxEpoch /\ 0 \in 0 .. MaxRetries + 1
  BY OutboxAssumption
<1>2. Idle \in Job
  BY <1>1 DEF Idle, Job, Pc, Unclaimed
<1>3. ASSUME NEW n \in 0 .. MaxRetries + 1, NEW c \in BOOLEAN
      PROVE  [Idle EXCEPT !.pc = "check", !.attempt = n, !.current = c] \in Job
  BY <1>1 DEF Idle, Job, Pc, Holding, Unclaimed
<1> QED
  BY <1>2, <1>3

(* Each way a step of p moves its job keeps the type of job. *)
LEMMA JobMoves ==
  ASSUME job \in [Proc -> Job], NEW p \in Proc
  PROVE  /\ Finish(p) => job' \in [Proc -> Job]
         /\ \A pc \in Pc : Goto(p, pc) \/ Start(p, pc) => job' \in [Proc -> Job]
         /\ \A pc \in Pc, e \in 0 .. MaxEpoch :
              job' = [job EXCEPT ![p].pc = pc, ![p].epoch = e] => job' \in [Proc -> Job]
         /\ \A pc \in Pc, r \in Unclaimed \cup Settled :
              job' = [job EXCEPT ![p].pc = pc, ![p].answer = r] => job' \in [Proc -> Job]
<1>1. Finish(p) => job' \in [Proc -> Job]
  BY JobTypes DEF Finish
<1>2. \A pc \in Pc : Goto(p, pc) \/ Start(p, pc) => job' \in [Proc -> Job]
  BY DEF Goto, Start, Job
<1>3. ASSUME NEW pc \in Pc, NEW e \in 0 .. MaxEpoch,
             job' = [job EXCEPT ![p].pc = pc, ![p].epoch = e]
      PROVE  job' \in [Proc -> Job]
  <2>1. [job[p] EXCEPT !.pc = pc, !.epoch = e] \in Job
    BY DEF Job
  <2>2. job' = [job EXCEPT ![p] = [job[p] EXCEPT !.pc = pc, !.epoch = e]]
    BY <1>3
  <2> QED
    BY <2>1, <2>2
<1>4. ASSUME NEW pc \in Pc, NEW r \in Unclaimed \cup Settled,
             job' = [job EXCEPT ![p].pc = pc, ![p].answer = r]
      PROVE  job' \in [Proc -> Job]
  <2>1. [job[p] EXCEPT !.pc = pc, !.answer = r] \in Job
    BY DEF Job
  <2>2. job' = [job EXCEPT ![p] = [job[p] EXCEPT !.pc = pc, !.answer = r]]
    BY <1>4
  <2> QED
    BY <2>1, <2>2
<1> QED
  BY <1>1, <1>2, <1>3, <1>4

(* Every statement, post and outside event keeps the types. *)
LEMMA TypeNext == Inv /\ [Next]_vars => TypeOK'
<1> SUFFICES ASSUME Inv, [Next]_vars PROVE TypeOK'
  OBVIOUS
<1> USE OutboxAssumption
<1>1. ASSUME NEW p \in Proc, TakeJob(p) PROVE TypeOK'
  <2>1. job' \in [Proc -> Job]
    <3>0. /\ 0 \in 0 .. MaxEpoch /\ orgEpoch \in 0 .. MaxEpoch
          /\ "claim" \in Pc /\ "terminalize" \in Pc
      BY DEF Inv, TypeOK, Pc
    <3>1. CASE orgActive
      BY <1>1, <3>0, <3>1, JobMoves DEF TakeJob, Inv, TypeOK
    <3>2. CASE ~orgActive
      BY <1>1, <3>0, <3>2, JobMoves DEF TakeJob, Inv, TypeOK
    <3> QED
      BY <3>1, <3>2 DEF Inv, TypeOK
  <2> QED
    BY <1>1, <2>1 DEF TakeJob, Inv, TypeOK, Stage, Unclaimed, Settled, Status, webhook, org,
       address, tally, lease, row
<1>2. ASSUME NEW p \in Proc, Terminalize(p) PROVE TypeOK'
  <2>1. job' \in [Proc -> Job]
    BY <1>2, JobMoves DEF Terminalize, Pc, Inv, TypeOK
  <2> QED
    BY <1>2, <2>1
    DEF Terminalize, DeadLetterIf, Stale, Inv, TypeOK, Stage, Unclaimed, Settled, Status,
       webhook, org, address, tally, lease, row
<1>3. ASSUME NEW p \in Proc, Claim(p) PROVE TypeOK'
  <2> USE DEF Inv, TypeOK
  <2>1. CASE Claimable(p)
    <3>1. attempt' \in 0 .. MaxRetries + 1 /\ recovery' \in 0 .. 1 /\ claims' \in Nat
      BY <1>3, <2>1 DEF Claim, Claimable, Stale
    <3>2. (fresh /\ epoch = orgEpoch) \in BOOLEAN
      OBVIOUS
    <3>3. job' = [job EXCEPT ![p] = [Idle EXCEPT !.pc = "check", !.attempt = attempt',
                                       !.current = fresh /\ epoch = orgEpoch]]
      BY <1>3, <2>1 DEF Claim
    <3>4. job' \in [Proc -> Job]
      BY <3>1, <3>2, <3>3, JobTypes
    <3> QED
      BY <1>3, <2>1, <3>1, <3>4 DEF Claim, Status, webhook, org, address
  <2>2. CASE ~Claimable(p)
    <3>1. job' \in [Proc -> Job]
      BY <1>3, <2>2, JobMoves DEF Claim, Pc
    <3> QED
      BY <1>3, <2>2, <3>1 DEF Claim, webhook, org, address, tally
  <2> QED
    BY <2>1, <2>2
<1>4. ASSUME NEW p \in Proc, DropMismatch(p) PROVE TypeOK'
  <2>1. job' \in [Proc -> Job]
    BY <1>4, JobMoves DEF DropMismatch, Pc, Inv, TypeOK
  <2> QED
    BY <1>4, <2>1
    DEF DropMismatch, DeadLetterIf, Stale, Inv, TypeOK, Stage, Unclaimed, Settled, Status,
       webhook, org, address, tally, lease, row
<1>5. ASSUME NEW p \in Proc, CheckOwner(p) PROVE TypeOK'
  <2>1. "post" \in Pc /\ "outcome" \in Pc /\ "dead_letter" \in Unclaimed \cup Settled
    BY DEF Pc, Holding, Settled
  <2>2. job' \in [Proc -> Job]
    <3>1. CASE orgActive /\ epoch = orgEpoch
      BY <1>5, <2>1, <3>1, JobMoves DEF CheckOwner, Goto, Inv, TypeOK
    <3>2. CASE ~(orgActive /\ epoch = orgEpoch)
      BY <1>5, <2>1, <3>2, JobMoves DEF CheckOwner, Inv, TypeOK
    <3> QED
      BY <3>1, <3>2
  <2> QED
    BY <1>5, <2>2 DEF CheckOwner, Inv, TypeOK, Stage, Unclaimed, Settled, Status, webhook,
       org, address, tally, lease, row
<1>6. ASSUME NEW p \in Proc, Post(p) PROVE TypeOK'
  <2>1. PICK r \in {"success", "dead_letter", "retrying"} :
          job' = [job EXCEPT ![p].pc = "outcome", ![p].answer = r]
    BY <1>6 DEF Post
  <2>2. r \in Unclaimed \cup Settled /\ "outcome" \in Pc
    BY DEF Unclaimed, Settled, Pc, Holding
  <2>3. job' \in [Proc -> Job]
    BY <2>1, <2>2, JobMoves DEF Inv, TypeOK
  <2> QED
    BY <1>6, <2>3 DEF Post, Inv, TypeOK, Stage, Unclaimed, Settled, Status, webhook, org,
       address, tally, lease, row
<1>7. ASSUME NEW p \in Proc, SetOutcome(p) PROVE TypeOK'
  <2>1. job[p].answer \in Status
    BY DEF Inv, TypeOK, Job, Status
  <2>2. job' \in [Proc -> Job]
    BY <1>7, JobMoves DEF SetOutcome, Inv, TypeOK
  <2>3. status' \in Status /\ token' \in Proc \cup {NoToken} /\ ripe' \in BOOLEAN
    BY <1>7, <2>1 DEF SetOutcome, Inv, TypeOK
  <2> QED
    BY <1>7, <2>2, <2>3 DEF SetOutcome, Inv, TypeOK, webhook, org, address, tally
<1>8. ASSUME NEW p \in Proc, SweepRevoked(p) PROVE TypeOK'
  <2>1. job' \in [Proc -> Job]
    BY <1>8, JobMoves DEF SweepRevoked, Pc, Inv, TypeOK
  <2> QED
    BY <1>8, <2>1
    DEF SweepRevoked, DeadLetterIf, Stale, Inv, TypeOK, Stage, Unclaimed, Settled, Status,
       webhook, org, address, tally, lease, row
<1>9. ASSUME NEW p \in Proc, SweepExhausted(p) PROVE TypeOK'
  <2>1. job' \in [Proc -> Job]
    BY <1>9, JobMoves DEF SweepExhausted, Pc, Inv, TypeOK
  <2> QED
    BY <1>9, <2>1
    DEF SweepExhausted, DeadLetterIf, Stale, Inv, TypeOK, Stage, Unclaimed, Settled, Status,
       webhook, org, address, tally, lease, row
<1>10. ASSUME NEW p \in Proc, SweepMoved(p) PROVE TypeOK'
  <2>1. job' \in [Proc -> Job]
    BY <1>10, JobMoves DEF SweepMoved, Pc, Inv, TypeOK
  <2> QED
    BY <1>10, <2>1
    DEF SweepMoved, DeadLetterIf, Inv, TypeOK, Stage, Unclaimed, Settled, Status, webhook,
       org, address, tally, lease, row
<1>11. ASSUME NEW p \in Proc, SweepSelect(p) PROVE TypeOK'
  <2>1. job' \in [Proc -> Job]
    BY <1>11, JobMoves DEF SweepSelect, Pc, Inv, TypeOK
  <2> QED
    BY <1>11, <2>1
    DEF SweepSelect, Inv, TypeOK, Stage, Unclaimed, Settled, Status, webhook, org, address,
       tally, lease, row
<1>12. ASSUME NEW p \in Proc, SweepRoute(p) PROVE TypeOK'
  <2>1. job' \in [Proc -> Job]
    BY <1>12, JobMoves DEF SweepRoute, Pc, Inv, TypeOK
  <2> QED
    BY <1>12, <2>1
    DEF SweepRoute, Enqueue, Inv, TypeOK, Stage, Unclaimed, Settled, Status, webhook, org,
       address, tally, lease, row
<1>13. ASSUME NEW p \in Proc, Redeliver(p) PROVE TypeOK'
  <2>1. job' \in [Proc -> Job]
    BY <1>13, JobMoves DEF Redeliver, Pc, Inv, TypeOK
  <2> QED
    BY <1>13, <2>1
    DEF Redeliver, Inv, TypeOK, Stage, Unclaimed, Settled, Status, webhook, org, address,
       tally, lease, row
<1>14. ASSUME NEW p \in Proc, ReadDeadLetter(p) PROVE TypeOK'
  <2>1. job' \in [Proc -> Job]
    BY <1>14, JobMoves DEF ReadDeadLetter, Pc, Inv, TypeOK
  <2> QED
    BY <1>14, <2>1
    DEF ReadDeadLetter, Inv, TypeOK, Stage, Unclaimed, Settled, Status, webhook, org,
       address, tally, lease, row
<1>15. ASSUME NEW p \in Proc, RefuseRedelivery(p) PROVE TypeOK'
  <2>1. job' \in [Proc -> Job]
    BY <1>15, JobMoves DEF RefuseRedelivery, Pc, Inv, TypeOK
  <2> QED
    BY <1>15, <2>1
    DEF RefuseRedelivery, DeadLetterIf, Inv, TypeOK, Stage, Unclaimed, Settled, Status,
       webhook, org, address, tally, lease, row
<1>16. ASSUME NEW p \in Proc, ResetDeadLetter(p) PROVE TypeOK'
  <2>1. job' \in [Proc -> Job]
    BY <1>16, JobMoves DEF ResetDeadLetter, Inv, TypeOK
  <2>2. 0 \in 0 .. MaxRetries + 1 /\ 0 \in 0 .. 1 /\ "retrying" \in Status
    BY DEF Status, Unclaimed
  <2>3. CASE status = "dead_letter"
    <3>1. queued' \in BOOLEAN
      BY <1>16, <2>3 DEF ResetDeadLetter, Enqueue, Inv, TypeOK
    <3>2. /\ status' = "retrying" /\ ripe' = TRUE /\ token' = NoToken
          /\ attempt' = 0 /\ recovery' = 0 /\ claims' = 0
          /\ revoked' = FALSE /\ fresh' = TRUE
          /\ UNCHANGED <<url, isActive, isDeleted, orgActive, orgEpoch, epoch, target>>
      BY <1>16, <2>3 DEF ResetDeadLetter, webhook, org, address
    <3> QED
      BY <2>1, <2>2, <3>1, <3>2 DEF Inv, TypeOK
  <2>4. CASE status # "dead_letter"
    BY <1>16, <2>1, <2>4 DEF ResetDeadLetter, Inv, TypeOK, webhook, org, address, tally, lease
  <2> QED
    BY <2>3, <2>4
<1>17. ASSUME NEW p \in Proc, Crash(p) PROVE TypeOK'
  <2>1. job' \in [Proc -> Job]
    BY <1>17, JobMoves DEF Crash, Pc, Inv, TypeOK
  <2> QED
    BY <1>17, <2>1
    DEF Crash, Enqueue, Inv, TypeOK, Stage, Unclaimed, Settled, Status, webhook, org,
       address, tally, lease, row
<1>18. CASE UpdateWebhook
  BY <1>18
  DEF UpdateWebhook, CancelDeliveries, DeadLetterIf, Inv, TypeOK, Stage, Unclaimed, Settled,
       Status, webhook, org, address, tally, lease, row
<1>19. CASE DeleteOrRestoreWebhook
  BY <1>19
  DEF DeleteOrRestoreWebhook, CancelDeliveries, DeadLetterIf, Inv, TypeOK, Stage, Unclaimed,
       Settled, Status, webhook, org, address, tally, lease, row
<1>20. CASE ChangeOrganization
  <2>1. orgEpoch' \in 0 .. MaxEpoch /\ orgActive' \in BOOLEAN
    BY <1>20 DEF ChangeOrganization, Inv, TypeOK
  <2>2. status' \in Status /\ token' \in Proc \cup {NoToken} /\ ripe' \in BOOLEAN
    BY <1>20 DEF ChangeOrganization, DeadLetterIf, Inv, TypeOK, Status, Settled
  <2> QED
    BY <1>20, <2>1, <2>2 DEF ChangeOrganization, Inv, TypeOK, webhook, address, tally
<1>21. CASE ReadOwner
  BY <1>21
  DEF ReadOwner, Inv, TypeOK, Stage, Unclaimed, Settled, Status, webhook, org, address,
       tally, lease, row
<1>22. CASE ReadTarget
  BY <1>22
  DEF ReadTarget, Inv, TypeOK, Stage, Unclaimed, Settled, Status, webhook, org, address,
       tally, lease, row
<1>23. CASE InsertDelivery
  BY <1>23
  DEF InsertDelivery, Enqueue, Inv, TypeOK, Stage, Unclaimed, Settled, Status, webhook, org,
       address, tally, lease, row
<1>24. CASE Ripen
  BY <1>24
  DEF Ripen, Inv, TypeOK, Stage, Unclaimed, Settled, Status, webhook, org, address, tally,
       lease, row
<1>25. CASE LoseJob
  BY <1>25
  DEF LoseJob, Inv, TypeOK, Stage, Unclaimed, Settled, Status, webhook, org, address, tally,
       lease, row
<1>26. CASE UNCHANGED vars
  BY <1>26
  DEF vars, Inv, TypeOK, Stage, Unclaimed, Settled, Status, webhook, org, address, tally,
       lease, row
<1> QED
  BY <1>1, <1>2, <1>3, <1>4, <1>5, <1>6, <1>7, <1>8, <1>9, <1>10, <1>11, <1>12, <1>13, <1>14,
       <1>15, <1>16, <1>17, <1>18, <1>19, <1>20, <1>21, <1>22, <1>23, <1>24, <1>25, <1>26
     DEF Next, JobStep, WorkerStep, SweepStep, RequestStep

(* What the row says of itself survives every step. *)
LEMMA RowNext == Inv /\ [Next]_vars => StageInv' /\ FreshInv' /\ CountInv'
<1> SUFFICES ASSUME Inv, [Next]_vars PROVE StageInv' /\ FreshInv' /\ CountInv'
  OBVIOUS
<1> USE OutboxAssumption
<1>1. ASSUME NEW p \in Proc, TakeJob(p) PROVE StageInv' /\ FreshInv' /\ CountInv'
  BY <1>1
  DEF TakeJob, Idle, Job, Inv, TypeOK, StageInv, FreshInv, CountInv, Stage, Unclaimed,
       Settled, webhook, org, address, tally, lease, row
<1>2. ASSUME NEW p \in Proc, Terminalize(p) PROVE StageInv' /\ FreshInv' /\ CountInv'
  BY <1>2
  DEF Terminalize, DeadLetterIf, Finish, Stale, Idle, Job, Inv, TypeOK, StageInv, FreshInv,
       CountInv, Stage, Unclaimed, Settled, webhook, org, address, tally, lease, row
<1>3. ASSUME NEW p \in Proc, Claim(p) PROVE StageInv' /\ FreshInv' /\ CountInv'
  BY <1>3
  DEF Claim, Claimable, Goto, Stale, Idle, Job, Inv, TypeOK, StageInv, FreshInv, CountInv,
       Stage, Unclaimed, Settled, webhook, org, address, tally, lease, row
<1>4. ASSUME NEW p \in Proc, DropMismatch(p) PROVE StageInv' /\ FreshInv' /\ CountInv'
  BY <1>4
  DEF DropMismatch, DeadLetterIf, Finish, Stale, Idle, Job, Inv, TypeOK, StageInv, FreshInv,
       CountInv, Stage, Unclaimed, Settled, webhook, org, address, tally, lease, row
<1>5. ASSUME NEW p \in Proc, CheckOwner(p) PROVE StageInv' /\ FreshInv' /\ CountInv'
  BY <1>5
  DEF CheckOwner, Idle, Job, Inv, TypeOK, StageInv, FreshInv, CountInv, Stage, Unclaimed,
       Settled, webhook, org, address, tally, lease, row
<1>6. ASSUME NEW p \in Proc, Post(p) PROVE StageInv' /\ FreshInv' /\ CountInv'
  BY <1>6
  DEF Post, Idle, Job, Inv, TypeOK, StageInv, FreshInv, CountInv, Stage, Unclaimed, Settled,
       webhook, org, address, tally, lease, row
<1>7. ASSUME NEW p \in Proc, SetOutcome(p) PROVE StageInv' /\ FreshInv' /\ CountInv'
  BY <1>7
  DEF SetOutcome, Finish, Idle, Job, HolderInv, Holding, Inv, TypeOK, StageInv, FreshInv,
       CountInv, Stage, Unclaimed, Settled, webhook, org, address, tally, lease, row
<1>8. ASSUME NEW p \in Proc, SweepRevoked(p) PROVE StageInv' /\ FreshInv' /\ CountInv'
  BY <1>8
  DEF SweepRevoked, DeadLetterIf, Start, Stale, Idle, Job, Inv, TypeOK, StageInv, FreshInv,
       CountInv, Stage, Unclaimed, Settled, webhook, org, address, tally, lease, row
<1>9. ASSUME NEW p \in Proc, SweepExhausted(p) PROVE StageInv' /\ FreshInv' /\ CountInv'
  BY <1>9
  DEF SweepExhausted, DeadLetterIf, Goto, Stale, Idle, Job, Inv, TypeOK, StageInv, FreshInv,
       CountInv, Stage, Unclaimed, Settled, webhook, org, address, tally, lease, row
<1>10. ASSUME NEW p \in Proc, SweepMoved(p) PROVE StageInv' /\ FreshInv' /\ CountInv'
  BY <1>10
  DEF SweepMoved, DeadLetterIf, Goto, Idle, Job, Inv, TypeOK, StageInv, FreshInv, CountInv,
       Stage, Unclaimed, Settled, webhook, org, address, tally, lease, row
<1>11. ASSUME NEW p \in Proc, SweepSelect(p) PROVE StageInv' /\ FreshInv' /\ CountInv'
  BY <1>11
  DEF SweepSelect, Goto, Finish, Idle, Job, Inv, TypeOK, StageInv, FreshInv, CountInv, Stage,
       Unclaimed, Settled, webhook, org, address, tally, lease, row
<1>12. ASSUME NEW p \in Proc, SweepRoute(p) PROVE StageInv' /\ FreshInv' /\ CountInv'
  BY <1>12
  DEF SweepRoute, Goto, Finish, Enqueue, Idle, Job, Inv, TypeOK, StageInv, FreshInv,
       CountInv, Stage, Unclaimed, Settled, webhook, org, address, tally, lease, row
<1>13. ASSUME NEW p \in Proc, Redeliver(p) PROVE StageInv' /\ FreshInv' /\ CountInv'
  BY <1>13
  DEF Redeliver, Idle, Job, Inv, TypeOK, StageInv, FreshInv, CountInv, Stage, Unclaimed,
       Settled, webhook, org, address, tally, lease, row
<1>14. ASSUME NEW p \in Proc, ReadDeadLetter(p) PROVE StageInv' /\ FreshInv' /\ CountInv'
  BY <1>14
  DEF ReadDeadLetter, Goto, Finish, Idle, Job, Inv, TypeOK, StageInv, FreshInv, CountInv,
       Stage, Unclaimed, Settled, webhook, org, address, tally, lease, row
<1>15. ASSUME NEW p \in Proc, RefuseRedelivery(p) PROVE StageInv' /\ FreshInv' /\ CountInv'
  BY <1>15
  DEF RefuseRedelivery, DeadLetterIf, Finish, Idle, Job, Inv, TypeOK, StageInv, FreshInv,
       CountInv, Stage, Unclaimed, Settled, webhook, org, address, tally, lease, row
<1>16. ASSUME NEW p \in Proc, ResetDeadLetter(p) PROVE StageInv' /\ FreshInv' /\ CountInv'
  BY <1>16
  DEF ResetDeadLetter, Finish, Enqueue, Idle, Job, Inv, TypeOK, StageInv, FreshInv, CountInv,
       Stage, Unclaimed, Settled, webhook, org, address, tally, lease, row
<1>17. ASSUME NEW p \in Proc, Crash(p) PROVE StageInv' /\ FreshInv' /\ CountInv'
  BY <1>17
  DEF Crash, Finish, Enqueue, Idle, Job, Inv, TypeOK, StageInv, FreshInv, CountInv, Stage,
       Unclaimed, Settled, webhook, org, address, tally, lease, row
<1>18. CASE UpdateWebhook
  BY <1>18
  DEF UpdateWebhook, CancelDeliveries, DeadLetterIf, Inv, TypeOK, StageInv, FreshInv,
       CountInv, Stage, Unclaimed, Settled, webhook, org, address, tally, lease, row
<1>19. CASE DeleteOrRestoreWebhook
  BY <1>19
  DEF DeleteOrRestoreWebhook, CancelDeliveries, DeadLetterIf, Inv, TypeOK, StageInv,
       FreshInv, CountInv, Stage, Unclaimed, Settled, webhook, org, address, tally, lease, row
<1>20. CASE ChangeOrganization
  BY <1>20
  DEF ChangeOrganization, DeadLetterIf, Inv, TypeOK, StageInv, FreshInv, CountInv, Stage,
       Unclaimed, Settled, webhook, org, address, tally, lease, row
<1>21. CASE ReadOwner
  BY <1>21
  DEF ReadOwner, Inv, TypeOK, StageInv, FreshInv, CountInv, Stage, Unclaimed, Settled,
       webhook, org, address, tally, lease, row
<1>22. CASE ReadTarget
  BY <1>22
  DEF ReadTarget, Inv, TypeOK, StageInv, FreshInv, CountInv, Stage, Unclaimed, Settled,
       webhook, org, address, tally, lease, row
<1>23. CASE InsertDelivery
  BY <1>23
  DEF InsertDelivery, Enqueue, Inv, TypeOK, StageInv, FreshInv, CountInv, Stage, Unclaimed,
       Settled, webhook, org, address, tally, lease, row
<1>24. CASE Ripen
  BY <1>24
  DEF Ripen, Inv, TypeOK, StageInv, FreshInv, CountInv, Stage, Unclaimed, Settled, webhook,
       org, address, tally, lease, row
<1>25. CASE LoseJob
  BY <1>25
  DEF LoseJob, Inv, TypeOK, StageInv, FreshInv, CountInv, Stage, Unclaimed, Settled, webhook,
       org, address, tally, lease, row
<1>26. CASE UNCHANGED vars
  BY <1>26
  DEF vars, Inv, TypeOK, StageInv, FreshInv, CountInv, Stage, Unclaimed, Settled, webhook,
       org, address, tally, lease, row
<1> QED
  BY <1>1, <1>2, <1>3, <1>4, <1>5, <1>6, <1>7, <1>8, <1>9, <1>10, <1>11, <1>12, <1>13, <1>14,
       <1>15, <1>16, <1>17, <1>18, <1>19, <1>20, <1>21, <1>22, <1>23, <1>24, <1>25, <1>26
     DEF Next, JobStep, WorkerStep, SweepStep, RequestStep

(* What a process relies on between two of its statements is still true. *)
LEMMA JobNext == Inv /\ [Next]_vars => CurrentInv' /\ HolderInv'
<1> SUFFICES ASSUME Inv, [Next]_vars PROVE CurrentInv' /\ HolderInv'
  OBVIOUS
<1> USE OutboxAssumption
<1>1. ASSUME NEW p \in Proc, TakeJob(p) PROVE CurrentInv' /\ HolderInv'
  BY <1>1
  DEF TakeJob, Idle, Job, Inv, TypeOK, CurrentInv, HolderInv, StageInv, Stage, Unclaimed,
       Settled, Holding, webhook, org, address, tally, lease, row
<1>2. ASSUME NEW p \in Proc, Terminalize(p) PROVE CurrentInv' /\ HolderInv'
  BY <1>2
  DEF Terminalize, DeadLetterIf, Finish, Stale, Idle, Job, Inv, TypeOK, CurrentInv,
       HolderInv, StageInv, Stage, Unclaimed, Settled, Holding, webhook, org, address, tally,
       lease, row
<1>3. ASSUME NEW p \in Proc, Claim(p) PROVE CurrentInv' /\ HolderInv'
  <2> USE DEF Inv, TypeOK
  <2>1. CASE Claimable(p)
    <3> DEFINE r == [Idle EXCEPT !.pc = "check", !.attempt = attempt',
                                 !.current = fresh /\ epoch = orgEpoch]
    <3>1. fresh
      BY <2>1 DEF Claimable, Stale, FreshInv, Unclaimed
    <3>2. job' = [job EXCEPT ![p] = r] /\ token' = p /\ UNCHANGED <<epoch, orgEpoch>>
      BY <1>3, <2>1 DEF Claim, org, address
    <3>3. r.pc = "check" /\ r.attempt = attempt'
      BY DEF Idle
    <3>4. epoch = orgEpoch => r.current
      BY <3>1 DEF Idle
    <3> HIDE DEF r
    <3>5. job'[p] = r /\ \A q \in Proc \ {p} : job'[q] = job[q]
      BY <3>2
    <3>6. CurrentInv'
      BY <3>2, <3>3, <3>4, <3>5 DEF CurrentInv
    <3>7. HolderInv'
      BY <3>2, <3>3, <3>5 DEF HolderInv, Holding
    <3> QED
      BY <3>6, <3>7
  <2>2. CASE ~Claimable(p)
    BY <1>3, <2>2 DEF Claim, Goto, CurrentInv, HolderInv, Holding, Job, org, address, tally
  <2> QED
    BY <2>1, <2>2
<1>4. ASSUME NEW p \in Proc, DropMismatch(p) PROVE CurrentInv' /\ HolderInv'
  BY <1>4
  DEF DropMismatch, DeadLetterIf, Finish, Stale, Idle, Job, Inv, TypeOK, CurrentInv,
       HolderInv, StageInv, Stage, Unclaimed, Settled, Holding, webhook, org, address, tally,
       lease, row
<1>5. ASSUME NEW p \in Proc, CheckOwner(p) PROVE CurrentInv' /\ HolderInv'
  BY <1>5
  DEF CheckOwner, Idle, Job, Inv, TypeOK, CurrentInv, HolderInv, StageInv, Stage, Unclaimed,
       Settled, Holding, webhook, org, address, tally, lease, row
<1>6. ASSUME NEW p \in Proc, Post(p) PROVE CurrentInv' /\ HolderInv'
  BY <1>6
  DEF Post, Idle, Job, Inv, TypeOK, CurrentInv, HolderInv, StageInv, Stage, Unclaimed,
       Settled, Holding, webhook, org, address, tally, lease, row
<1>7. ASSUME NEW p \in Proc, SetOutcome(p) PROVE CurrentInv' /\ HolderInv'
  BY <1>7
  DEF SetOutcome, Finish, Idle, Job, Inv, TypeOK, CurrentInv, HolderInv, StageInv, Stage,
       Unclaimed, Settled, Holding, webhook, org, address, tally, lease, row
<1>8. ASSUME NEW p \in Proc, SweepRevoked(p) PROVE CurrentInv' /\ HolderInv'
  BY <1>8
  DEF SweepRevoked, DeadLetterIf, Start, Stale, Idle, Job, Inv, TypeOK, CurrentInv,
       HolderInv, StageInv, Stage, Unclaimed, Settled, Holding, webhook, org, address, tally,
       lease, row
<1>9. ASSUME NEW p \in Proc, SweepExhausted(p) PROVE CurrentInv' /\ HolderInv'
  BY <1>9
  DEF SweepExhausted, DeadLetterIf, Goto, Stale, Idle, Job, Inv, TypeOK, CurrentInv,
       HolderInv, StageInv, Stage, Unclaimed, Settled, Holding, webhook, org, address, tally,
       lease, row
<1>10. ASSUME NEW p \in Proc, SweepMoved(p) PROVE CurrentInv' /\ HolderInv'
  BY <1>10
  DEF SweepMoved, DeadLetterIf, Goto, Idle, Job, Inv, TypeOK, CurrentInv, HolderInv,
       StageInv, Stage, Unclaimed, Settled, Holding, webhook, org, address, tally, lease, row
<1>11. ASSUME NEW p \in Proc, SweepSelect(p) PROVE CurrentInv' /\ HolderInv'
  BY <1>11
  DEF SweepSelect, Goto, Finish, Idle, Job, Inv, TypeOK, CurrentInv, HolderInv, StageInv,
       Stage, Unclaimed, Settled, Holding, webhook, org, address, tally, lease, row
<1>12. ASSUME NEW p \in Proc, SweepRoute(p) PROVE CurrentInv' /\ HolderInv'
  BY <1>12
  DEF SweepRoute, Goto, Finish, Enqueue, Idle, Job, Inv, TypeOK, CurrentInv, HolderInv,
       StageInv, Stage, Unclaimed, Settled, Holding, webhook, org, address, tally, lease, row
<1>13. ASSUME NEW p \in Proc, Redeliver(p) PROVE CurrentInv' /\ HolderInv'
  BY <1>13
  DEF Redeliver, Idle, Job, Inv, TypeOK, CurrentInv, HolderInv, StageInv, Stage, Unclaimed,
       Settled, Holding, webhook, org, address, tally, lease, row
<1>14. ASSUME NEW p \in Proc, ReadDeadLetter(p) PROVE CurrentInv' /\ HolderInv'
  BY <1>14
  DEF ReadDeadLetter, Goto, Finish, Idle, Job, Inv, TypeOK, CurrentInv, HolderInv, StageInv,
       Stage, Unclaimed, Settled, Holding, webhook, org, address, tally, lease, row
<1>15. ASSUME NEW p \in Proc, RefuseRedelivery(p) PROVE CurrentInv' /\ HolderInv'
  BY <1>15
  DEF RefuseRedelivery, DeadLetterIf, Finish, Idle, Job, Inv, TypeOK, CurrentInv, HolderInv,
       StageInv, Stage, Unclaimed, Settled, Holding, webhook, org, address, tally, lease, row
<1>16. ASSUME NEW p \in Proc, ResetDeadLetter(p) PROVE CurrentInv' /\ HolderInv'
  BY <1>16
  DEF ResetDeadLetter, Finish, Enqueue, Idle, Job, Inv, TypeOK, CurrentInv, HolderInv,
       StageInv, Stage, Unclaimed, Settled, Holding, webhook, org, address, tally, lease, row
<1>17. ASSUME NEW p \in Proc, Crash(p) PROVE CurrentInv' /\ HolderInv'
  BY <1>17
  DEF Crash, Finish, Enqueue, Idle, Job, Inv, TypeOK, CurrentInv, HolderInv, StageInv, Stage,
       Unclaimed, Settled, Holding, webhook, org, address, tally, lease, row
<1>18. CASE UpdateWebhook
  BY <1>18
  DEF UpdateWebhook, CancelDeliveries, DeadLetterIf, Inv, TypeOK, CurrentInv, HolderInv,
       StageInv, Stage, Unclaimed, Settled, Holding, webhook, org, address, tally, lease, row
<1>19. CASE DeleteOrRestoreWebhook
  BY <1>19
  DEF DeleteOrRestoreWebhook, CancelDeliveries, DeadLetterIf, Inv, TypeOK, CurrentInv,
       HolderInv, StageInv, Stage, Unclaimed, Settled, Holding, webhook, org, address, tally,
       lease, row
<1>20. CASE ChangeOrganization
  BY <1>20
  DEF ChangeOrganization, DeadLetterIf, Inv, TypeOK, CurrentInv, HolderInv, StageInv, Stage,
       Unclaimed, Settled, Holding, webhook, org, address, tally, lease, row
<1>21. CASE ReadOwner
  BY <1>21
  DEF ReadOwner, Inv, TypeOK, CurrentInv, HolderInv, StageInv, Stage, Unclaimed, Settled,
       Holding, webhook, org, address, tally, lease, row
<1>22. CASE ReadTarget
  BY <1>22
  DEF ReadTarget, Inv, TypeOK, CurrentInv, HolderInv, StageInv, Stage, Unclaimed, Settled,
       Holding, webhook, org, address, tally, lease, row
<1>23. CASE InsertDelivery
  BY <1>23
  DEF InsertDelivery, Enqueue, Inv, TypeOK, CurrentInv, HolderInv, StageInv, Stage,
       Unclaimed, Settled, Holding, webhook, org, address, tally, lease, row
<1>24. CASE Ripen
  BY <1>24
  DEF Ripen, Inv, TypeOK, CurrentInv, HolderInv, StageInv, Stage, Unclaimed, Settled,
       Holding, webhook, org, address, tally, lease, row
<1>25. CASE LoseJob
  BY <1>25
  DEF LoseJob, Inv, TypeOK, CurrentInv, HolderInv, StageInv, Stage, Unclaimed, Settled,
       Holding, webhook, org, address, tally, lease, row
<1>26. CASE UNCHANGED vars
  BY <1>26
  DEF vars, Inv, TypeOK, CurrentInv, HolderInv, StageInv, Stage, Unclaimed, Settled, Holding,
       webhook, org, address, tally, lease, row
<1> QED
  BY <1>1, <1>2, <1>3, <1>4, <1>5, <1>6, <1>7, <1>8, <1>9, <1>10, <1>11, <1>12, <1>13, <1>14,
       <1>15, <1>16, <1>17, <1>18, <1>19, <1>20, <1>21, <1>22, <1>23, <1>24, <1>25, <1>26
     DEF Next, JobStep, WorkerStep, SweepStep, RequestStep

(* The first state. *)
LEMMA InvInit == Init => Inv
<1> SUFFICES ASSUME Init PROVE Inv
  OBVIOUS
<1> USE OutboxAssumption
<1>1. TypeOK
  <2>1. 0 \in 0 .. MaxEpoch /\ 0 \in 0 .. MaxRetries + 1 /\ 0 \in 0 .. 1
    OBVIOUS
  <2>2. job \in [Proc -> Job]
    BY JobTypes DEF Init
  <2> QED
    BY <2>1, <2>2 DEF Init, TypeOK, Status, Stage
<1>2. StageInv /\ FreshInv /\ CurrentInv /\ CountInv /\ HolderInv
  BY DEF Init, Idle, StageInv, FreshInv, CurrentInv, CountInv, HolderInv, Stage, Unclaimed,
       Holding
<1> QED
  BY <1>1, <1>2 DEF Inv

(* Every step keeps the invariant. *)
LEMMA InvNext == Inv /\ [Next]_vars => Inv'
  BY TypeNext, RowNext, JobNext DEF Inv

-----------------------------------------------------------------------------
(* Type correctness: in particular attempt_number and recovery_count never *)
(* leave their ranges.                                                     *)
THEOREM OutboxTypeCorrect == Spec => []TypeOK
<1>1. Inv => TypeOK
  BY DEF Inv
<1> QED
  BY <1>1, InvInit, InvNext, PTL DEF Spec

(* For any number of workers, sweeps, administrators and crashes, a worker *)
(* that posts claimed its row before anything had changed under it.        *)
THEOREM PostsStayCurrent == Spec => []PostsAreCurrent
<1>1. Inv => PostsAreCurrent
  BY DEF Inv, CurrentInv, PostsAreCurrent
<1> QED
  BY <1>1, InvInit, InvNext, PTL DEF Spec

(* For every max_retries, the row is claimed at most max_retries + 2 times *)
(* per queueing, however often its workers die.                            *)
THEOREM ClaimsAreBounded == Spec => []BoundedClaims
<1>1. Inv => BoundedClaims
  BY OutboxAssumption DEF Inv, TypeOK, CountInv, BoundedClaims
<1> QED
  BY <1>1, InvInit, InvNext, PTL DEF Spec

(* Only the unguarded UPDATE of a refused redelivery takes a success back. *)
THEOREM SuccessStays == Spec => SuccessIsFinal
<1>1. Inv /\ [Next]_vars =>
        [status = "success" /\ status' # "success" => \E p \in Proc : RefuseRedelivery(p)]_vars
  <2> SUFFICES ASSUME Inv, [Next]_vars, status = "success", status' # "success"
               PROVE  \E p \in Proc : RefuseRedelivery(p)
    BY DEF vars
  <2> USE DEF Stage, Unclaimed, webhook, org, address, tally, lease, row
  <2>1. ASSUME NEW p \in Proc, TakeJob(p) PROVE FALSE
    BY <2>1 DEF TakeJob
  <2>2. ASSUME NEW p \in Proc, Terminalize(p) PROVE FALSE
    BY <2>2 DEF Terminalize, DeadLetterIf, Stale
  <2>3. ASSUME NEW p \in Proc, Claim(p) PROVE FALSE
    BY <2>3 DEF Claim, Claimable, Stale
  <2>4. ASSUME NEW p \in Proc, DropMismatch(p) PROVE FALSE
    BY <2>4 DEF DropMismatch, DeadLetterIf, Stale
  <2>5. ASSUME NEW p \in Proc, CheckOwner(p) PROVE FALSE
    BY <2>5 DEF CheckOwner
  <2>6. ASSUME NEW p \in Proc, Post(p) PROVE FALSE
    BY <2>6 DEF Post
  <2>7. ASSUME NEW p \in Proc, SetOutcome(p) PROVE FALSE
    BY <2>7 DEF SetOutcome
  <2>8. ASSUME NEW p \in Proc, SweepRevoked(p) PROVE FALSE
    BY <2>8 DEF SweepRevoked, DeadLetterIf, Stale
  <2>9. ASSUME NEW p \in Proc, SweepExhausted(p) PROVE FALSE
    BY <2>9 DEF SweepExhausted, DeadLetterIf, Stale
  <2>10. ASSUME NEW p \in Proc, SweepMoved(p) PROVE FALSE
    BY <2>10 DEF SweepMoved, DeadLetterIf
  <2>11. ASSUME NEW p \in Proc, SweepSelect(p) PROVE FALSE
    BY <2>11 DEF SweepSelect
  <2>12. ASSUME NEW p \in Proc, SweepRoute(p) PROVE FALSE
    BY <2>12 DEF SweepRoute
  <2>13. ASSUME NEW p \in Proc, Redeliver(p) PROVE FALSE
    BY <2>13 DEF Redeliver
  <2>14. ASSUME NEW p \in Proc, ReadDeadLetter(p) PROVE FALSE
    BY <2>14 DEF ReadDeadLetter
  <2>15. ASSUME NEW p \in Proc, ResetDeadLetter(p) PROVE FALSE
    BY <2>15 DEF ResetDeadLetter
  <2>16. ASSUME NEW p \in Proc, Crash(p) PROVE FALSE
    BY <2>16 DEF Crash
  <2>17. CASE UpdateWebhook
    BY <2>17 DEF UpdateWebhook, CancelDeliveries, DeadLetterIf
  <2>18. CASE DeleteOrRestoreWebhook
    BY <2>18 DEF DeleteOrRestoreWebhook, CancelDeliveries, DeadLetterIf
  <2>19. CASE ChangeOrganization
    BY <2>19 DEF ChangeOrganization, DeadLetterIf
  <2>20. CASE ReadOwner
    BY <2>20 DEF ReadOwner
  <2>21. CASE ReadTarget
    BY <2>21 DEF ReadTarget
  <2>22. CASE InsertDelivery
    BY <2>22 DEF InsertDelivery
  <2>23. CASE Ripen
    BY <2>23 DEF Ripen
  <2>24. CASE LoseJob
    BY <2>24 DEF LoseJob
  <2>25. CASE UNCHANGED vars
    BY <2>25 DEF vars
  <2> QED
    BY <2>1, <2>2, <2>3, <2>4, <2>5, <2>6, <2>7, <2>8, <2>9, <2>10, <2>11, <2>12, <2>13,
       <2>14, <2>15, <2>16, <2>17, <2>18, <2>19, <2>20, <2>21, <2>22, <2>23, <2>24, <2>25
       DEF Next, JobStep, WorkerStep, SweepStep, RequestStep
<1> QED
  BY <1>1, InvInit, InvNext, PTL DEF Spec, SuccessIsFinal
=============================================================================
