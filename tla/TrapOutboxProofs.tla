-------------------------- MODULE TrapOutboxProofs --------------------------
(***************************************************************************)
(* What holds of a trap forwarding delivery for every number of workers    *)
(* and sweeps, every set of destinations and every max_attempts, and that  *)
(* it implements the plain delivery of module DurableDelivery.             *)
(*                                                                         *)
(* Inv is inductive.  FreshInv and CurrentInv carry the revocation         *)
(* protocol from the trigger over the claim and the second look at the     *)
(* snapshot to the request.  BudgetInv counts the requests together with   *)
(* those some process may still send for a claim it has made, and bounds   *)
(* both by the two counters in the row.                                    *)
(***************************************************************************)
EXTENDS TrapOutbox, FiniteSetTheorems, TLAPS

(* Nobody works on a row that is not inserted yet. *)
StageInv ==
  status \in {"none", "prepared"} =>
    ~queued /\ attempt = 0 /\ recovery = 0 /\ \A p \in Proc : job[p].pc = "idle"

FreshInv == status \in Unclaimed \cup {"processing"} /\ ~revoked => fresh

Sending == {"owner", "source", "webhook", "send"}

CurrentInv ==
  /\ epoch <= orgEpoch
  /\ \A p \in Proc : /\ job[p].pc = "reread" => job[p].current \/ epoch < orgEpoch
                     /\ job[p].pc \in Sending => job[p].current

AnswerInv ==
  \A p \in Proc : job[p].pc = "outcome" /\ job[p].answer = "success" => accepted

(* The processes that may still send for a claim. *)
Owing == {p \in Proc : \/ job[p].pc \in Sending
                       \/ job[p].pc = "reread" /\ token = p /\ status # "dead_letter"}

BudgetInv == sends + Cardinality(Owing) <= attempt + recovery

Inv == TypeOK /\ StageInv /\ FreshInv /\ CurrentInv /\ AnswerInv /\ BudgetInv

-----------------------------------------------------------------------------
(* How a step of p moves its work record. *)
LEMMA Moves ==
  ASSUME job \in [Proc -> Job], NEW p \in Proc
  PROVE  /\ Finish(p) => /\ job' \in [Proc -> Job] /\ job'[p].pc = "idle"
                         /\ \A q \in Proc \ {p} : job'[q] = job[q]
         /\ \A pc \in Pc :
              Goto(p, pc) => /\ job' \in [Proc -> Job] /\ job'[p].pc = pc
                             /\ job'[p].current = job[p].current
                             /\ \A q \in Proc \ {p} : job'[q] = job[q]
         /\ \A a \in Unclaimed \cup Settled :
              Conclude(p, a) => /\ job' \in [Proc -> Job]
                                /\ job'[p].pc = "outcome" /\ job'[p].answer = a
                                /\ \A q \in Proc \ {p} : job'[q] = job[q]
<1>1. Idle \in Job /\ Idle.pc = "idle"
  BY TrapAssumption DEF Idle, Job, Pc, Unclaimed
<1>2. ASSUME NEW a \in Unclaimed \cup Settled
      PROVE  /\ [Idle EXCEPT !.pc = "outcome", !.answer = a] \in Job
             /\ [Idle EXCEPT !.pc = "outcome", !.answer = a].pc = "outcome"
             /\ [Idle EXCEPT !.pc = "outcome", !.answer = a].answer = a
  <2>1. 0 \in 0 .. MaxAttempts
    BY TrapAssumption
  <2> QED
    BY <2>1 DEF Idle, Job, Pc, Holding
<1>3. ASSUME Finish(p)
      PROVE  /\ job' \in [Proc -> Job] /\ job'[p].pc = "idle"
             /\ \A q \in Proc \ {p} : job'[q] = job[q]
  BY <1>1, <1>3 DEF Finish
<1>4. ASSUME NEW pc \in Pc, Goto(p, pc)
      PROVE  /\ job' \in [Proc -> Job] /\ job'[p].pc = pc /\ job'[p].current = job[p].current
             /\ \A q \in Proc \ {p} : job'[q] = job[q]
  BY <1>4 DEF Goto, Job
<1>5. ASSUME NEW a \in Unclaimed \cup Settled, Conclude(p, a)
      PROVE  /\ job' \in [Proc -> Job] /\ job'[p].pc = "outcome" /\ job'[p].answer = a
             /\ \A q \in Proc \ {p} : job'[q] = job[q]
  <2> DEFINE rec == [Idle EXCEPT !.pc = "outcome", !.answer = a]
  <2>1. job' = [job EXCEPT ![p] = rec]
    BY <1>5 DEF Conclude
  <2>2. rec \in Job /\ rec.pc = "outcome" /\ rec.answer = a
    BY <1>2
  <2> HIDE DEF rec
  <2> QED
    BY <2>1, <2>2
<1> QED
  BY <1>3, <1>4, <1>5

(* The work record after a claim, and after the row was read back. *)
LEMMA ClaimMoves ==
  ASSUME TypeOK, NEW p \in Proc
  PROVE  /\ job' = [job EXCEPT ![p].pc = "reread", ![p].current = fresh /\ epoch = orgEpoch]
              => /\ job' \in [Proc -> Job] /\ job'[p].pc = "reread"
                 /\ job'[p].current <=> fresh /\ epoch = orgEpoch
                 /\ \A q \in Proc \ {p} : job'[q] = job[q]
         /\ job' = [job EXCEPT ![p].pc = "owner", ![p].attempt = attempt]
              => /\ job' \in [Proc -> Job] /\ job'[p].pc = "owner"
                 /\ job'[p].current = job[p].current
                 /\ \A q \in Proc \ {p} : job'[q] = job[q]
<1> DEFINE c == fresh /\ epoch = orgEpoch
           rec == [job[p] EXCEPT !.pc = "reread", !.current = c]
           own == [job[p] EXCEPT !.pc = "owner", !.attempt = attempt]
<1>0. job \in [Proc -> Job] /\ job[p] \in Job /\ attempt \in 0 .. MaxAttempts
  BY DEF TypeOK
<1>1. c \in BOOLEAN
  OBVIOUS
<1>2. rec \in Job /\ rec.pc = "reread" /\ rec.current = c
  <2> HIDE DEF c
  <2> QED
    BY <1>0, <1>1 DEF Job, Pc, Holding
<1>3. own \in Job /\ own.pc = "owner" /\ own.current = job[p].current
  BY <1>0 DEF Job, Pc, Holding
<1>4. ASSUME job' = [job EXCEPT ![p].pc = "reread", ![p].current = fresh /\ epoch = orgEpoch]
      PROVE  /\ job' \in [Proc -> Job] /\ job'[p].pc = "reread"
             /\ job'[p].current <=> fresh /\ epoch = orgEpoch
             /\ \A q \in Proc \ {p} : job'[q] = job[q]
  <2>1. job' = [job EXCEPT ![p] = rec]
    BY <1>4
  <2> HIDE DEF rec
  <2> QED
    BY <1>0, <1>2, <2>1
<1>5. ASSUME job' = [job EXCEPT ![p].pc = "owner", ![p].attempt = attempt]
      PROVE  /\ job' \in [Proc -> Job] /\ job'[p].pc = "owner"
             /\ job'[p].current = job[p].current
             /\ \A q \in Proc \ {p} : job'[q] = job[q]
  <2>1. job' = [job EXCEPT ![p] = own]
    BY <1>5
  <2> HIDE DEF own
  <2> QED
    BY <1>0, <1>3, <2>1
<1> QED
  BY <1>4, <1>5

(* Where the step of a process takes its own work record; the others keep  *)
(* theirs.                                                                 *)
LEMMA JobEffect ==
  ASSUME TypeOK, NEW p \in Proc,
         TakeJob(p) \/ SweepRevoked(p) \/ SweepUnavailable(p) \/ JobStep(p) \/ Crash(p)
  PROVE  /\ job' \in [Proc -> Job]
         /\ \A q \in Proc \ {p} : job'[q] = job[q]
         /\ job'[p].pc = "reread" => Claim(p) /\ Claimable
         /\ job'[p].pc = "owner" => Reread(p) /\ token = p /\ status # "dead_letter" /\ SnapshotMatches
         /\ job'[p].pc \in Sending => /\ job'[p].current = job[p].current
                                      /\ job'[p].pc = "owner" \/ job[p].pc \in Sending
         /\ job'[p].pc = "outcome" /\ job'[p].answer = "success" => accepted'
<1> DEFINE Effect == /\ job' \in [Proc -> Job]
                     /\ \A q \in Proc \ {p} : job'[q] = job[q]
                     /\ job'[p].pc = "reread" => Claim(p) /\ Claimable
                     /\ job'[p].pc = "owner" =>
                          Reread(p) /\ token = p /\ status # "dead_letter" /\ SnapshotMatches
                     /\ job'[p].pc \in Sending =>
                          /\ job'[p].current = job[p].current
                          /\ job'[p].pc = "owner" \/ job[p].pc \in Sending
                     /\ job'[p].pc = "outcome" /\ job'[p].answer = "success" => accepted'
<1>0. job \in [Proc -> Job]
  BY DEF TypeOK
<1>1. ASSUME Finish(p) PROVE Effect
  BY <1>0, <1>1, Moves DEF Sending
<1>2. ASSUME NEW pc \in {"preflight", "cancel", "claim", "lifecycle", "select"}, Goto(p, pc)
      PROVE  Effect
  <2>1. pc \in Pc
    BY DEF Pc
  <2> QED
    BY <1>0, <1>2, <2>1, Moves DEF Sending
<1>3. ASSUME NEW a \in {"dead_letter", "retrying", "cancelled"}, Conclude(p, a) PROVE Effect
  <2>1. a \in Unclaimed \cup Settled
    BY DEF Unclaimed, Settled
  <2> QED
    BY <1>0, <1>3, <2>1, Moves DEF Sending
<1>4. ASSUME NEW pc \in {"source", "webhook", "send"}, Goto(p, pc), job[p].pc \in Sending
      PROVE  Effect
  <2>1. pc \in Pc /\ pc \in Sending /\ pc # "owner"
    BY DEF Pc, Holding, Sending
  <2> QED
    BY <1>0, <1>4, <2>1, Moves DEF Sending
<1>5. ASSUME TakeJob(p) PROVE Effect
  BY <1>2, <1>5 DEF TakeJob
<1>6. ASSUME SweepRevoked(p) \/ SweepUnavailable(p) \/ SweepLifecycle(p) PROVE Effect
  BY <1>2, <1>6 DEF SweepRevoked, SweepUnavailable, SweepLifecycle
<1>7. ASSUME SweepSelect(p) \/ Crash(p) \/ CancelUnclaimed(p) \/ SetOutcome(p) PROVE Effect
  BY <1>1, <1>7 DEF SweepSelect, Crash, CancelUnclaimed, SetOutcome
<1>8. ASSUME Preflight(p) PROVE Effect
  BY <1>2, <1>8 DEF Preflight
<1>9. ASSUME Claim(p) PROVE Effect
  <2>1. CASE Claimable
    BY <1>9, <2>1, ClaimMoves DEF Claim, Sending
  <2>2. CASE ~Claimable
    BY <1>1, <1>9, <2>2 DEF Claim
  <2> QED
    BY <2>1, <2>2
<1>10. ASSUME Reread(p) PROVE Effect
  <2>1. CASE job' = [job EXCEPT ![p].pc = "owner", ![p].attempt = attempt]
              /\ token = p /\ status # "dead_letter" /\ SnapshotMatches
    BY <1>10, <2>1, ClaimMoves DEF Reread, Sending
  <2> QED
    BY <1>1, <1>3, <1>10, <2>1 DEF Reread
<1>11. ASSUME CheckOwner(p) \/ CheckSource(p) \/ CheckWebhook(p) PROVE Effect
  <2>1. job[p].pc \in Sending
    BY <1>11 DEF CheckOwner, CheckSource, CheckWebhook, Sending
  <2> QED
    BY <1>3, <1>4, <1>11, <2>1 DEF CheckOwner, CheckSource, CheckWebhook
<1>12. ASSUME SendTrap(p) PROVE Effect
  <2>1. CASE accepted' = TRUE /\ Conclude(p, "success")
    <3>1. "success" \in Unclaimed \cup Settled
      BY DEF Settled
    <3> QED
      BY <1>0, <2>1, <3>1, Moves DEF Sending
  <2> QED
    BY <1>3, <1>12, <2>1 DEF SendTrap
<1> QED
  BY <1>5, <1>6, <1>7, <1>8, <1>9, <1>10, <1>11, <1>12 DEF JobStep, WorkerStep, SweepStep

(* What the step of a process does to the row: it leaves it alone, cancels *)
(* it, claims it or writes its outcome.                                    *)
RowAlone == UNCHANGED <<status, token, ripe, attempt, recovery>>

RowCancelled ==
  /\ status \in Unclaimed \cup {"processing"}
  /\ status' = "cancelled" /\ token' = NoToken /\ ripe' = FALSE
  /\ UNCHANGED <<attempt, recovery>>

RowClaimed(p) ==
  /\ status \in Unclaimed \cup {"processing"} /\ ~revoked
  /\ status' \in {"processing", "dead_letter"} /\ token' = p /\ ripe' = FALSE
  /\ \/ attempt' = attempt + 1 /\ attempt < MaxAttempts /\ recovery' = recovery
     \/ attempt' = attempt /\ recovery' = recovery + 1 /\ recovery < 1
     \/ attempt' = attempt /\ recovery' = recovery /\ status' = "dead_letter"

RowSettled(p) ==
  /\ status = "processing" /\ job[p].pc = "outcome"
  /\ status' = job[p].answer /\ token' = NoToken /\ ripe' = FALSE
  /\ UNCHANGED <<attempt, recovery>>

(* What a step of p does to the row. *)
LEMMA RowEffect ==
  ASSUME TypeOK, NEW p \in Proc,
         TakeJob(p) \/ SweepRevoked(p) \/ SweepUnavailable(p) \/ JobStep(p) \/ Crash(p)
  PROVE  /\ RowAlone \/ RowCancelled \/ RowClaimed(p) \/ RowSettled(p)
         /\ UNCHANGED <<dest, rule, hookUrl, hookOn, orgActive, orgEpoch, epoch, via, target,
                        revoked, fresh>>
         /\ queued' \in BOOLEAN
         /\ \/ UNCHANGED <<sends, accepted>>
            \/ /\ job[p].pc = "send" /\ job'[p].pc = "outcome" /\ RowAlone
               /\ sends' = sends + 1 /\ accepted' \in {accepted, TRUE}
         /\ status \in {"none", "prepared"} => TakeJob(p) \/ JobStep(p) \/ Crash(p)
         /\ Claim(p) /\ Claimable => RowClaimed(p)
<1> DEFINE Rest == UNCHANGED <<dest, rule, hookUrl, hookOn, orgActive, orgEpoch, epoch, via,
                               target, revoked, fresh>>
           Calm == UNCHANGED <<sends, accepted>> /\ queued' \in BOOLEAN
           Tally == UNCHANGED <<attempt, recovery>>
<1>0. queued \in BOOLEAN /\ recovery \in 0 .. 1 /\ attempt \in 0 .. MaxAttempts
  BY DEF TypeOK
<1>1. ASSUME NEW c, c => status \in Unclaimed \/ Stale, CancelIf(c), Tally
      PROVE  RowAlone \/ RowCancelled
  BY <1>1 DEF CancelIf, Stale, RowAlone, RowCancelled
<1>2. ASSUME TakeJob(p) \/ SweepUnavailable(p) \/ Crash(p) \/ Preflight(p) \/ Reread(p)
               \/ CheckOwner(p) \/ CheckSource(p) \/ CheckWebhook(p) \/ SweepSelect(p)
      PROVE  RowAlone /\ Rest /\ Calm
  BY <1>0, <1>2
  DEF TakeJob, SweepUnavailable, Crash, Preflight, Reread, CheckOwner, CheckSource,
      CheckWebhook, SweepSelect, Enqueue, RowAlone, config, org, address, tally, wire
<1>3. ASSUME SweepRevoked(p) \/ CancelUnclaimed(p) \/ SweepLifecycle(p)
      PROVE  (RowAlone \/ RowCancelled) /\ Rest /\ Calm
  BY <1>0, <1>1, <1>3
  DEF SweepRevoked, CancelUnclaimed, SweepLifecycle, config, org, address, tally, wire
<1>4. ASSUME Claim(p)
      PROVE  ((RowAlone /\ ~Claimable) \/ RowClaimed(p)) /\ Rest /\ Calm
  <2>1. CASE Claimable
    <3>1. status \in Unclaimed \cup {"processing"} /\ ~revoked
      BY <2>1 DEF Claimable, Stale
    <3>2. /\ Letter \in {"F", "S", "R", "X"}
          /\ Letter \in {"F", "S"} => attempt < MaxAttempts
          /\ Letter = "R" => recovery < 1
      BY <1>0, <2>1, TrapAssumption DEF Claimable, Letter, Stale
    <3>3. /\ status' = IF Letter = "X" THEN "dead_letter" ELSE "processing"
          /\ token' = p /\ ripe' = FALSE
          /\ attempt' = IF Letter \in {"F", "S"} THEN attempt + 1 ELSE attempt
          /\ recovery' = IF Letter = "R" THEN recovery + 1 ELSE recovery
          /\ Rest /\ Calm
      BY <1>0, <1>4, <2>1 DEF Claim, config, org, address, wire
    <3> QED
      BY <3>1, <3>2, <3>3 DEF RowClaimed
  <2>2. CASE ~Claimable
    BY <1>0, <1>4, <2>2 DEF Claim, RowAlone, config, org, address, tally, wire
  <2> QED
    BY <2>1, <2>2
<1>5. ASSUME SetOutcome(p) PROVE (RowAlone \/ RowSettled(p)) /\ Rest /\ Calm
  BY <1>0, <1>5 DEF SetOutcome, RowAlone, RowSettled, config, org, address, tally, wire
<1>6. ASSUME SendTrap(p)
      PROVE  /\ RowAlone /\ Rest /\ queued' \in BOOLEAN
             /\ job[p].pc = "send" /\ job'[p].pc = "outcome"
             /\ sends' = sends + 1 /\ accepted' \in {accepted, TRUE}
  <2>1. PICK a \in {"success", "dead_letter", "retrying"} : Conclude(p, a)
    BY <1>6 DEF SendTrap
  <2>2. a \in Unclaimed \cup Settled
    BY DEF Unclaimed, Settled
  <2>3. job'[p].pc = "outcome"
    BY <2>1, <2>2, Moves DEF TypeOK
  <2> QED
    BY <1>0, <1>6, <2>3 DEF SendTrap, RowAlone, config, org, address, tally
<1>7. status \in {"none", "prepared"} => TakeJob(p) \/ JobStep(p) \/ Crash(p)
  BY DEF SweepRevoked, SweepUnavailable
<1> QED
  BY <1>2, <1>3, <1>4, <1>5, <1>6, <1>7 DEF JobStep, WorkerStep, SweepStep

-----------------------------------------------------------------------------
(* The first state. *)
LEMMA InvInit == Init => Inv
<1> SUFFICES ASSUME Init PROVE Inv
  OBVIOUS
<1>1. TypeOK
  <2>1. Idle \in Job /\ 0 \in 0 .. MaxAttempts /\ 0 \in 0 .. MaxEpoch
    BY TrapAssumption DEF Idle, Job, Pc, Unclaimed
  <2>2. job \in [Proc -> Job]
    BY <2>1 DEF Init
  <2>3. /\ dest \in Direct \cup {Hook} /\ via \in Direct \cup {Hook}
        /\ hookUrl \in Url /\ target \in Direct \cup Url
        /\ rule \in {"active", "paused", "deleted"} /\ status \in Status
        /\ token \in Proc \cup {NoToken}
    BY DEF Init, Status
  <2>4. /\ hookOn \in BOOLEAN /\ orgActive \in BOOLEAN /\ ripe \in BOOLEAN
        /\ revoked \in BOOLEAN /\ queued \in BOOLEAN /\ fresh \in BOOLEAN
        /\ accepted \in BOOLEAN
    BY Zenon DEF Init
  <2>5. /\ orgEpoch \in 0 .. MaxEpoch /\ epoch \in 0 .. MaxEpoch
        /\ attempt \in 0 .. MaxAttempts /\ recovery \in 0 .. 1 /\ sends \in Nat
    BY <2>1 DEF Init
  <2> QED
    BY <2>2, <2>3, <2>4, <2>5 DEF TypeOK
<1>2. \A p \in Proc : job[p].pc = "idle"
  BY DEF Init, Idle
<1>3. StageInv /\ FreshInv /\ AnswerInv
  BY <1>2 DEF Init, StageInv, FreshInv, AnswerInv, Unclaimed
<1>4. CurrentInv
  BY <1>2 DEF Init, CurrentInv, Sending
<1>5. BudgetInv
  <2>1. Owing = {}
    BY <1>2 DEF Owing, Sending
  <2> QED
    BY <2>1, FS_EmptySet DEF Init, BudgetInv
<1> QED
  BY <1>1, <1>3, <1>4, <1>5 DEF Inv

(* The step of a process keeps Inv. *)
LEMMA ProcNext ==
  ASSUME Inv, NEW p \in Proc,
         TakeJob(p) \/ SweepRevoked(p) \/ SweepUnavailable(p) \/ JobStep(p) \/ Crash(p)
  PROVE  Inv'
<1> USE TrapAssumption
<1>0. TypeOK /\ job \in [Proc -> Job]
  BY DEF Inv, TypeOK
<1>1. /\ job' \in [Proc -> Job]
      /\ \A q \in Proc \ {p} : job'[q] = job[q]
      /\ job'[p].pc = "reread" => Claim(p) /\ Claimable
      /\ job'[p].pc = "owner" => Reread(p) /\ token = p /\ status # "dead_letter" /\ SnapshotMatches
      /\ job'[p].pc \in Sending => /\ job'[p].current = job[p].current
                                   /\ job'[p].pc = "owner" \/ job[p].pc \in Sending
      /\ job'[p].pc = "outcome" /\ job'[p].answer = "success" => accepted'
  BY <1>0, JobEffect
<1>2. /\ RowAlone \/ RowCancelled \/ RowClaimed(p) \/ RowSettled(p)
      /\ UNCHANGED <<dest, rule, hookUrl, hookOn, orgActive, orgEpoch, epoch, via, target,
                     revoked, fresh>>
      /\ queued' \in BOOLEAN
      /\ \/ UNCHANGED <<sends, accepted>>
         \/ /\ job[p].pc = "send" /\ job'[p].pc = "outcome" /\ RowAlone
            /\ sends' = sends + 1 /\ accepted' \in {accepted, TRUE}
      /\ status \in {"none", "prepared"} => TakeJob(p) \/ JobStep(p) \/ Crash(p)
      /\ Claim(p) /\ Claimable => RowClaimed(p)
  BY <1>0, RowEffect
<1>3. status \notin {"none", "prepared"}
  <2>1. ASSUME status \in {"none", "prepared"} PROVE FALSE
    <3>1. ~queued /\ job[p].pc = "idle"
      BY <2>1 DEF Inv, StageInv
    <3> QED
      BY <1>2, <2>1, <3>1
      DEF TakeJob, JobStep, WorkerStep, SweepStep, Crash, Preflight, CancelUnclaimed, Claim,
          Reread, CheckOwner, CheckSource, CheckWebhook, SendTrap, SetOutcome,
          SweepLifecycle, SweepSelect
  <2> QED
    BY <2>1
<1>4. job[p].answer \in Unclaimed \cup Settled
  BY <1>0 DEF Job
<1>5. status' \in Status \ {"none", "prepared"} /\ token' \in Proc \cup {NoToken}
        /\ ripe' \in BOOLEAN
  BY <1>0, <1>2, <1>3, <1>4
  DEF TypeOK, RowAlone, RowCancelled, RowClaimed, RowSettled, Status, Unclaimed, Settled
<1>6. attempt' \in 0 .. MaxAttempts /\ recovery' \in 0 .. 1
  BY <1>0, <1>2 DEF TypeOK, RowAlone, RowCancelled, RowClaimed, RowSettled
<1>7. TypeOK'
  <2>1. sends' \in Nat
    <3>1. sends \in Nat /\ (sends' = sends \/ sends' = sends + 1)
      BY <1>0, <1>2, Zenon DEF TypeOK
    <3> QED
      BY <3>1
  <2>2. accepted' \in BOOLEAN
    <3>1. accepted' = accepted \/ accepted' = TRUE
      BY <1>2, Zenon
    <3>2. accepted \in BOOLEAN
      BY <1>0 DEF TypeOK
    <3> QED
      BY <3>1, <3>2, Zenon
  <2> QED
    BY <1>0, <1>1, <1>2, <1>5, <1>6, <2>1, <2>2 DEF TypeOK
<1>8. StageInv'
  BY <1>5 DEF StageInv
<1>9. FreshInv'
  BY <1>2, <1>4
  DEF Inv, FreshInv, RowAlone, RowCancelled, RowClaimed, RowSettled, Unclaimed, Settled
<1>10. CurrentInv'
  <2>1. epoch' <= orgEpoch'
    BY <1>2 DEF Inv, CurrentInv
  <2>2. ASSUME NEW q \in Proc
        PROVE  /\ job'[q].pc = "reread" => job'[q].current \/ epoch' < orgEpoch'
               /\ job'[q].pc \in Sending => job'[q].current
    <3>1. CASE q # p
      BY <1>1, <1>2, <3>1 DEF Inv, CurrentInv
    <3>2. CASE q = p /\ job'[p].pc = "reread"
      <4>1. job'[p].current <=> fresh /\ epoch = orgEpoch
        BY <1>0, <1>1, <3>2, ClaimMoves DEF Claim
      <4>2. fresh
        BY <1>1, <3>2 DEF Inv, FreshInv, Claimable, Stale
      <4>3. epoch <= orgEpoch /\ epoch \in Nat /\ orgEpoch \in Nat
        BY <1>0 DEF Inv, CurrentInv, TypeOK
      <4> QED
        BY <1>2, <3>2, <4>1, <4>2, <4>3 DEF Sending
    <3>3. CASE q = p /\ job'[p].pc = "owner"
      <4>1. epoch = orgEpoch /\ job[p].pc = "reread" /\ epoch \in Nat
        BY <1>0, <1>1, <3>3 DEF Reread, SnapshotMatches, TypeOK
      <4>2. job[p].current
        BY <4>1 DEF Inv, CurrentInv
      <4> QED
        BY <1>1, <3>3, <4>2 DEF Sending
    <3>4. CASE q = p /\ job'[p].pc \in Sending /\ job'[p].pc # "owner"
      BY <1>1, <3>4 DEF Inv, CurrentInv, Sending
    <3>5. CASE q = p /\ job'[p].pc \notin Sending \cup {"reread"}
      BY <3>5
    <3> QED
      BY <3>1, <3>2, <3>3, <3>4, <3>5
  <2> QED
    BY <2>1, <2>2 DEF CurrentInv
<1>11. AnswerInv'
  <2>1. accepted => accepted'
    BY <1>2, Zenon
  <2> QED
    BY <1>1, <2>1 DEF Inv, AnswerInv
<1>12. BudgetInv'
  <2>0. /\ IsFiniteSet(Owing) /\ Cardinality(Owing) \in Nat
        /\ sends \in Nat /\ attempt \in Nat /\ recovery \in Nat
        /\ sends + Cardinality(Owing) <= attempt + recovery
    <3>1. IsFiniteSet(Owing)
      BY FS_Subset DEF Owing
    <3> QED
      BY <1>0, <3>1, FS_CardinalityType DEF Inv, BudgetInv, TypeOK
  <2>1. \A q \in Proc \ {p} : q \in Owing' => q \in Owing
    BY <1>1, <1>2 DEF Owing, RowAlone, RowCancelled, RowClaimed, RowSettled
  <2>2. p \in Owing' => p \in Owing \/ (job'[p].pc = "reread" /\ status' # "dead_letter")
    BY <1>1 DEF Owing, Reread
  <2>3. CASE sends' = sends + 1 /\ job[p].pc = "send" /\ job'[p].pc = "outcome" /\ RowAlone
    <3>1. p \in Owing /\ Owing' \subseteq Owing \ {p}
      BY <2>1, <2>3 DEF Owing, Sending
    <3>2. IsFiniteSet(Owing \ {p}) /\ Cardinality(Owing \ {p}) = Cardinality(Owing) - 1
      BY <2>0, <3>1, FS_RemoveElement
    <3>3. Cardinality(Owing') <= Cardinality(Owing) - 1 /\ Cardinality(Owing') \in Nat
      BY <3>1, <3>2, FS_Subset, FS_CardinalityType
    <3> QED
      BY <2>0, <2>3, <3>3 DEF BudgetInv, RowAlone
  <2>4. CASE /\ sends' = sends /\ RowClaimed(p)
             /\ attempt' + recovery' = attempt + recovery + 1
    <3>1. Owing' \subseteq Owing \cup {p}
      BY <2>1 DEF Owing
    <3>2. /\ IsFiniteSet(Owing \cup {p})
          /\ Cardinality(Owing \cup {p}) <= Cardinality(Owing) + 1
      <4>1. /\ IsFiniteSet(Owing \cup {p})
            /\ Cardinality(Owing \cup {p}) =
                  IF p \in Owing THEN Cardinality(Owing) ELSE Cardinality(Owing) + 1
        BY <2>0, FS_AddElement
      <4> QED
        BY <2>0, <4>1
    <3>3. /\ Cardinality(Owing') <= Cardinality(Owing \cup {p})
          /\ Cardinality(Owing') \in Nat /\ Cardinality(Owing \cup {p}) \in Nat
      BY <3>1, <3>2, FS_Subset, FS_CardinalityType
    <3> QED
      BY <2>0, <2>4, <3>2, <3>3 DEF BudgetInv
  <2>5. CASE /\ sends' = sends /\ attempt' + recovery' = attempt + recovery
             /\ RowClaimed(p) => status' = "dead_letter"
    <3>1. Owing' \subseteq Owing
      <4>1. ASSUME p \in Owing' PROVE p \in Owing
        BY <1>1, <1>2, <2>2, <2>5, <4>1
      <4> QED
        BY <2>1, <4>1 DEF Owing
    <3>2. Cardinality(Owing') <= Cardinality(Owing) /\ Cardinality(Owing') \in Nat
      BY <2>0, <3>1, FS_Subset, FS_CardinalityType
    <3> QED
      BY <2>0, <2>5, <3>2 DEF BudgetInv
  <2>6. ~RowClaimed(p) => attempt' = attempt /\ recovery' = recovery
    BY <1>2 DEF RowAlone, RowCancelled, RowSettled
  <2>7. RowClaimed(p) => \/ attempt' + recovery' = attempt + recovery + 1
                         \/ attempt' + recovery' = attempt + recovery /\ status' = "dead_letter"
    BY <2>0 DEF RowClaimed
  <2> QED
    BY <1>2, <2>3, <2>4, <2>5, <2>6, <2>7
<1> QED
  BY <1>7, <1>8, <1>9, <1>10, <1>11, <1>12 DEF Inv

(* The clock, the queue, the administrators and the transaction that       *)
(* prepares and inserts the row move no work record and send nothing.      *)
Outside == ChangeRule \/ ChangeWebhook \/ ChangeOrganization \/ Prepare \/ InsertDelivery
             \/ Ripen \/ LoseJob

(* What administrators, clock and queue do. *)
LEMMA OutsideEffect ==
  ASSUME Inv, Outside
  PROVE  /\ UNCHANGED <<job, attempt, recovery, sends, accepted>>
         /\ \/ status' = status /\ token' = token
            \/ status \in Unclaimed /\ status' = "cancelled" /\ token' = NoToken
            \/ status = "none" /\ status' = "prepared" /\ token' = token
            \/ status = "prepared" /\ status' = "pending" /\ token' = token
<1> DEFINE Row == \/ status' = status /\ token' = token
                  \/ status \in Unclaimed /\ status' = "cancelled" /\ token' = NoToken
           Calm == UNCHANGED <<job, attempt, recovery, sends, accepted>>
<1>1. ASSUME NEW c, CancelIf(c), c => status \in Unclaimed PROVE Row
  BY <1>1 DEF CancelIf
<1>2. ASSUME NEW c, Revoke(c) PROVE Row /\ Calm
  <2>1. CancelIf(c /\ status \in Unclaimed)
    BY <1>2 DEF Revoke
  <2> QED
    BY <1>1, <1>2, <2>1 DEF Revoke, tally, wire
<1>3. ASSUME ChangeRule \/ ChangeWebhook PROVE Row /\ Calm
  BY <1>2, <1>3 DEF ChangeRule, ChangeWebhook
<1>4. ASSUME ChangeOrganization PROVE Row /\ Calm
  BY <1>1, <1>4 DEF ChangeOrganization, tally, wire
<1>5. ASSUME Prepare
      PROVE  status = "none" /\ status' = "prepared" /\ token' = token /\ Calm
  BY <1>5 DEF Prepare, tally, wire
<1>6. ASSUME InsertDelivery
      PROVE  status = "prepared" /\ status' = "pending" /\ token' = token /\ Calm
  BY <1>6 DEF InsertDelivery, tally, wire
<1>7. ASSUME Ripen \/ LoseJob PROVE Row /\ Calm
  BY <1>7 DEF Ripen, LoseJob, tally, wire
<1> QED
  BY <1>3, <1>4, <1>5, <1>6, <1>7 DEF Outside

(* They keep the types. *)
LEMMA OutsideType ==
  ASSUME Inv, Outside
  PROVE  TypeOK' /\ StageInv' /\ FreshInv' /\ epoch' <= orgEpoch'
         /\ (epoch' < orgEpoch' \/ ~(epoch < orgEpoch) \/ \A p \in Proc : job[p].pc = "idle")
<1> USE TrapAssumption
<1> DEFINE Goal == TypeOK' /\ StageInv' /\ FreshInv' /\ epoch' <= orgEpoch'
         /\ (epoch' < orgEpoch' \/ ~(epoch < orgEpoch) \/ \A p \in Proc : job[p].pc = "idle")
<1>0. TypeOK /\ StageInv /\ FreshInv /\ epoch <= orgEpoch
  BY DEF Inv, CurrentInv
<1>1. ASSUME NEW c \in BOOLEAN, Revoke(c),
             dest' \in Direct \cup {Hook}, rule' \in {"active", "paused", "deleted"},
             hookUrl' \in Url, hookOn' \in BOOLEAN
      PROVE  Goal
  <2>1. /\ status' \in Status /\ token' \in Proc \cup {NoToken}
        /\ ripe' \in BOOLEAN /\ revoked' \in BOOLEAN /\ fresh' \in BOOLEAN
    BY <1>0, <1>1 DEF Revoke, CancelIf, TypeOK, Status, Settled
  <2>2. UNCHANGED <<orgActive, orgEpoch, epoch, via, target, attempt, recovery, queued, job,
                    sends, accepted>>
    BY <1>1 DEF Revoke, org, address, tally, wire
  <2>3. TypeOK'
    BY <1>0, <1>1, <2>1, <2>2 DEF TypeOK
  <2>4. StageInv' /\ FreshInv'
    <3>1. CASE status \in Unclaimed /\ c
      BY <1>1, <3>1 DEF Revoke, CancelIf, StageInv, FreshInv, Unclaimed
    <3>2. CASE ~(status \in Unclaimed /\ c)
      <4>1. status' = status /\ (c /\ status = "processing" => revoked')
        BY <1>1, <3>2 DEF Revoke, CancelIf
      <4>2. (revoked => revoked') /\ (fresh /\ ~c => fresh')
        BY <1>1, Zenon DEF Revoke
      <4> QED
        BY <1>0, <2>2, <3>2, <4>1, <4>2 DEF StageInv, FreshInv
    <3> QED
      BY <3>1, <3>2
  <2> QED
    BY <1>0, <2>2, <2>3, <2>4
<1>2. ASSUME ChangeRule PROVE Goal
  BY <1>0, <1>1, <1>2 DEF ChangeRule, TypeOK
<1>3. ASSUME ChangeWebhook PROVE Goal
  <2>1. (via = Hook) \in BOOLEAN
    OBVIOUS
  <2> QED
    BY <1>0, <1>1, <1>3, <2>1 DEF ChangeWebhook, TypeOK
<1>4. ASSUME ChangeOrganization PROVE Goal
  <2>1. /\ status' \in Status /\ token' \in Proc \cup {NoToken} /\ ripe' \in BOOLEAN
        /\ orgActive' \in BOOLEAN /\ orgEpoch' \in 0 .. MaxEpoch /\ orgEpoch' = orgEpoch + 1
    <3>1. status' \in Status /\ token' \in Proc \cup {NoToken} /\ ripe' \in BOOLEAN
      BY <1>0, <1>4, Zenon DEF ChangeOrganization, CancelIf, TypeOK, Status, Settled
    <3>2. orgActive' \in BOOLEAN /\ orgEpoch' = orgEpoch + 1 /\ orgEpoch < MaxEpoch
      BY <1>4 DEF ChangeOrganization
    <3>3. orgEpoch' \in 0 .. MaxEpoch
      BY <1>0, <3>2 DEF TypeOK
    <3> QED
      BY <3>1, <3>2, <3>3
  <2>2. UNCHANGED <<dest, rule, hookUrl, hookOn, epoch, via, target, attempt, recovery,
                    revoked, fresh, queued, job, sends, accepted>>
    BY <1>4 DEF ChangeOrganization, config, address, tally, wire
  <2>3. TypeOK'
    BY <1>0, <2>1, <2>2 DEF TypeOK
  <2>4. StageInv' /\ FreshInv'
    BY <1>0, <1>4, <2>2 DEF ChangeOrganization, CancelIf, StageInv, FreshInv, Unclaimed
  <2>5. epoch' < orgEpoch'
    BY <1>0, <2>1, <2>2 DEF TypeOK
  <2> QED
    BY <1>0, <2>1, <2>2, <2>3, <2>4, <2>5 DEF TypeOK
<1>5. ASSUME Prepare PROVE Goal
  <2>1. /\ status' = "prepared" /\ epoch' = orgEpoch /\ via' = dest
        /\ target' = (IF dest = Hook THEN hookUrl ELSE dest) /\ status = "none"
        /\ UNCHANGED <<dest, rule, hookUrl, hookOn, orgActive, orgEpoch, attempt, recovery,
                       token, ripe, revoked, queued, job, fresh, sends, accepted>>
    BY <1>5 DEF Prepare, config, org, tally, wire
  <2>2. TypeOK'
    BY <1>0, <2>1 DEF TypeOK, Status
  <2>3. StageInv' /\ FreshInv' /\ \A p \in Proc : job[p].pc = "idle"
    BY <1>0, <2>1 DEF StageInv, FreshInv, Unclaimed
  <2>4. epoch' <= orgEpoch'
    BY <1>0, <2>1 DEF TypeOK
  <2> QED
    BY <2>2, <2>3, <2>4
<1>6. ASSUME InsertDelivery PROVE Goal
  <2>1. /\ status' = "pending" /\ fresh' = TRUE /\ queued' \in BOOLEAN
        /\ UNCHANGED <<dest, rule, hookUrl, hookOn, orgActive, orgEpoch, epoch, via, target,
                       attempt, recovery, token, ripe, revoked, job, sends, accepted>>
    BY <1>0, <1>6 DEF InsertDelivery, Enqueue, config, org, address, tally, wire, TypeOK
  <2> QED
    BY <1>0, <2>1 DEF TypeOK, Status, Unclaimed, StageInv, FreshInv
<1>7. ASSUME Ripen \/ LoseJob PROVE Goal
  <2>1. /\ ripe' \in BOOLEAN /\ queued' \in BOOLEAN /\ (queued' => queued)
        /\ UNCHANGED <<dest, rule, hookUrl, hookOn, orgActive, orgEpoch, status, epoch, via,
                       target, attempt, recovery, token, revoked, job, fresh, sends, accepted>>
    <3>1. CASE Ripen
      BY <1>0, <3>1 DEF Ripen, config, org, address, tally, wire, TypeOK
    <3>2. CASE LoseJob
      BY <1>0, <3>2 DEF LoseJob, config, org, address, tally, wire, TypeOK
    <3> QED
      BY <1>7, <3>1, <3>2
  <2> QED
    BY <1>0, <2>1 DEF TypeOK, StageInv, FreshInv
<1> QED
  BY <1>2, <1>3, <1>4, <1>5, <1>6, <1>7 DEF Outside

(* They keep the invariant. *)
LEMMA OutsideNext ==
  ASSUME Inv, Outside
  PROVE  Inv'
<1>1. /\ UNCHANGED <<job, attempt, recovery, sends, accepted>>
      /\ \/ status' = status /\ token' = token
         \/ status \in Unclaimed /\ status' = "cancelled" /\ token' = NoToken
         \/ status = "none" /\ status' = "prepared" /\ token' = token
         \/ status = "prepared" /\ status' = "pending" /\ token' = token
  BY OutsideEffect
<1>2. /\ TypeOK' /\ StageInv' /\ FreshInv' /\ epoch' <= orgEpoch'
      /\ epoch' < orgEpoch' \/ ~(epoch < orgEpoch) \/ \A p \in Proc : job[p].pc = "idle"
  BY OutsideType
<1>3. CurrentInv'
  BY <1>1, <1>2 DEF Inv, CurrentInv, Sending
<1>4. AnswerInv'
  BY <1>1 DEF Inv, AnswerInv
<1>5. BudgetInv'
  <2>1. Owing' \subseteq Owing
    BY <1>1, TrapAssumption DEF Owing, Unclaimed
  <2>2. IsFiniteSet(Owing)
    BY FS_Subset, TrapAssumption DEF Owing
  <2>3. /\ Cardinality(Owing') <= Cardinality(Owing)
        /\ Cardinality(Owing') \in Nat /\ Cardinality(Owing) \in Nat
    BY <2>1, <2>2, FS_Subset, FS_CardinalityType
  <2>4. sends \in Nat /\ attempt \in Nat /\ recovery \in Nat
    BY DEF Inv, TypeOK
  <2> QED
    BY <1>1, <2>3, <2>4 DEF Inv, BudgetInv
<1> QED
  BY <1>2, <1>3, <1>4, <1>5 DEF Inv

-----------------------------------------------------------------------------
(* Inv holds in every reachable state. *)
THEOREM Invariance == Spec => []Inv
<1>1. ASSUME Inv, [Next]_vars PROVE Inv'
  <2>1. CASE UNCHANGED vars
    BY <1>1, <2>1
    DEF vars, Inv, TypeOK, StageInv, FreshInv, CurrentInv, AnswerInv, BudgetInv, Owing
  <2> QED
    BY <1>1, <2>1, ProcNext, OutsideNext DEF Next, Outside
<1> QED
  BY InvInit, <1>1, PTL DEF Spec

(* Every column of the row and every work record stays in its type: the    *)
(* two counters never pass max_attempts and one recovery.                  *)
THEOREM TypeCorrect == Spec => []TypeOK
<1>1. Inv => TypeOK
  BY DEF Inv
<1> QED
  BY Invariance, <1>1, PTL

(* A trap is only sent for a claim made before rule, webhook or            *)
(* organization changed, for any number of workers, sweeps and edits.      *)
THEOREM SendsAreCurrentHolds == Spec => []SendsAreCurrent
<1>1. Inv => SendsAreCurrent
  BY DEF Inv, CurrentInv, SendsAreCurrent, Sending
<1> QED
  BY Invariance, <1>1, PTL

(* The step of a process is a step of the plain delivery, or none. *)
LEMMA ProcRefines ==
  ASSUME Inv, NEW p \in Proc,
         TakeJob(p) \/ SweepRevoked(p) \/ SweepUnavailable(p) \/ JobStep(p) \/ Crash(p)
  PROVE  [Delivery!Next]_<<Phase, sends, accepted>>
<1>0. TypeOK
  BY DEF Inv
<1>1. /\ RowAlone \/ RowCancelled \/ RowClaimed(p) \/ RowSettled(p)
      /\ \/ UNCHANGED <<sends, accepted>>
         \/ /\ job[p].pc = "send" /\ job'[p].pc = "outcome" /\ RowAlone
            /\ sends' = sends + 1 /\ accepted' \in {accepted, TRUE}
  BY <1>0, RowEffect
<1>2. CASE RowAlone /\ UNCHANGED <<sends, accepted>>
  BY <1>2 DEF RowAlone, Phase
<1>3. CASE /\ job[p].pc = "send" /\ RowAlone
           /\ sends' = sends + 1 /\ accepted' \in {accepted, TRUE}
  <2>1. Phase # "none" /\ Phase' = Phase
    BY <1>3 DEF Inv, StageInv, RowAlone, Phase
  <2>2. sends < MaxAttempts + 1
    <3>1. IsFiniteSet(Owing) /\ p \in Owing
      BY <1>3, FS_Subset, TrapAssumption DEF Owing, Sending
    <3>2. Cardinality(Owing) \in Nat /\ Cardinality(Owing) # 0
      BY <3>1, FS_CardinalityType, FS_EmptySet
    <3>3. /\ sends \in Nat /\ attempt \in 0 .. MaxAttempts /\ recovery \in 0 .. 1
          /\ sends + Cardinality(Owing) <= attempt + recovery
      BY DEF Inv, TypeOK, BudgetInv
    <3> QED
      BY <3>2, <3>3, TrapAssumption
  <2>3. Delivery!Send
    BY <1>3, <2>1, <2>2 DEF Delivery!Send
  <2> QED
    BY <2>3 DEF Delivery!Next
<1>4. CASE RowCancelled /\ UNCHANGED <<sends, accepted>>
  <2>1. Delivery!Settle
    BY <1>4 DEF RowCancelled, Phase, Unclaimed, Delivery!Settle, Delivery!Settled
  <2> QED
    BY <2>1 DEF Delivery!Next
<1>5. CASE RowClaimed(p) /\ UNCHANGED <<sends, accepted>>
  <2>1. Phase = "open" /\ Phase' \in {"open", "failed"}
    BY <1>5 DEF RowClaimed, Phase, Unclaimed
  <2>2. CASE Phase' = "failed"
    <3>1. Delivery!Settle
      BY <1>5, <2>1, <2>2 DEF Delivery!Settle, Delivery!Settled
    <3> QED
      BY <3>1 DEF Delivery!Next
  <2> QED
    BY <1>5, <2>1, <2>2
<1>6. CASE RowSettled(p) /\ UNCHANGED <<sends, accepted>>
  <2>1. Phase = "open" /\ job[p].answer \in Unclaimed \cup Settled
    BY <1>0, <1>6 DEF RowSettled, Phase, TypeOK, Job
  <2>2. Phase' \in {"open", "delivered", "failed", "cancelled"}
          /\ (Phase' = "delivered" => accepted)
    BY <1>6, <2>1 DEF RowSettled, Phase, Unclaimed, Settled, Inv, AnswerInv
  <2>3. CASE Phase' # "open"
    <3>1. Delivery!Settle
      BY <1>6, <2>1, <2>2, <2>3 DEF Delivery!Settle, Delivery!Settled
    <3> QED
      BY <3>1 DEF Delivery!Next
  <2> QED
    BY <1>6, <2>1, <2>3
<1> QED
  BY <1>1, <1>2, <1>3, <1>4, <1>5, <1>6

(* What they do is a step or a stutter of the plain delivery. *)
LEMMA OutsideRefines ==
  ASSUME Inv, Outside
  PROVE  [Delivery!Next]_<<Phase, sends, accepted>>
<1>1. /\ UNCHANGED <<sends, accepted>>
      /\ \/ status' = status
         \/ status \in Unclaimed /\ status' = "cancelled"
         \/ status = "none" /\ status' = "prepared"
         \/ status = "prepared" /\ status' = "pending"
  BY OutsideEffect
<1>2. CASE status' = status \/ (status = "none" /\ status' = "prepared")
  BY <1>1, <1>2 DEF Phase
<1>3. CASE status \in Unclaimed /\ status' = "cancelled"
  <2>1. Delivery!Settle
    BY <1>1, <1>3 DEF Phase, Unclaimed, Delivery!Settle, Delivery!Settled
  <2> QED
    BY <2>1 DEF Delivery!Next
<1>4. CASE status = "prepared" /\ status' = "pending"
  <2>1. Delivery!Queue
    BY <1>1, <1>4 DEF Phase, Delivery!Queue
  <2> QED
    BY <2>1 DEF Delivery!Next
<1> QED
  BY <1>1, <1>2, <1>3, <1>4

(* attemptDelivery, the sweep and the triggers implement the plain         *)
(* delivery: at most max_attempts + 1 requests, success only after an      *)
(* accepted one, and no settled delivery ever changed, for every number of *)
(* processes, of crashes and of lost jobs.                                 *)
THEOREM Refinement == Spec => ImplementsDelivery
<1>1. Init => Delivery!Init
  BY DEF Init, Delivery!Init, Phase
<1>2. ASSUME Inv, [Next]_vars PROVE [Delivery!Next]_<<Phase, sends, accepted>>
  <2>1. CASE UNCHANGED vars
    BY <2>1 DEF vars, Phase
  <2> QED
    BY <1>2, <2>1, ProcRefines, OutsideRefines DEF Next, Outside
<1> QED
  BY Invariance, <1>1, <1>2, PTL DEF Spec, ImplementsDelivery, Delivery!Spec
=============================================================================
