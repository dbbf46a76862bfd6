---------------------------- MODULE ServiceLine ----------------------------
(***************************************************************************)
(* One PPPoE service line from its pending contract to its removal: the    *)
(* contracts row, its RADIUS account, the credentials derived from them    *)
(* (FreeRADIUS SQL rows and the RouterOS local PPP secret), the subscriber *)
(* session they admit, and the installation order that gates the first     *)
(* activation.                                                             *)
(*                                                                         *)
(* Sources: services/testWindowService.js, contractActivationService.js,   *)
(* lifecycleService.js, suspensionService.js, radiusService.js and         *)
(* routes/contracts.js, routes/workOrders.js.                              *)
(*                                                                         *)
(* Granularity.  Every handler locks the contracts row first, so each      *)
(* transaction is one action.  What a handler does after its commit, and   *)
(* what the handlers that use no transaction do statement by statement, is *)
(* kept in job[p], the work that request or worker p still has to do; any  *)
(* other action may run between two of its steps, and a crash drops it.    *)
(*                                                                         *)
(* Data.  A timestamp is kept as its relation to NOW().  The line is of a  *)
(* PPPoE type with exactly one live RADIUS account.  The gates that only   *)
(* refuse a request (permissions, signatures, acceptance readings, plan    *)
(* and client links) are left out: a refused request changes nothing.      *)
(***************************************************************************)
EXTENDS Naturals, FiniteSets

CONSTANTS Proc,        \* HTTP requests and scheduled workers in flight
          HasNas,      \* radius.nas_id is set
          Archived,    \* the contract also has a soft-deleted RADIUS identity
          Syncs,       \* the radius_sync task is scheduled
          Forms        \* the statuses that the bodies of PUT requests carry

VARIABLES
  status,     \* contracts.status
  activated,  \* contracts.first_activated_at IS NOT NULL
  deleted,    \* contracts.deleted_at IS NOT NULL
  expires,    \* contracts.test_window_expires_at: NULL, in the future, past
  marker,     \* contracts.test_window_cleanup_pending
  radius,     \* radius.status
  rows,       \* radcheck/radreply: none, with an Expiration bound, permanent
  secret,     \* the RouterOS local PPP secret exists
  session,    \* the live session: none, with a Session-Timeout, unbounded
  bound,      \* the last Expiration/Session-Timeout handed out still runs
  install,    \* newest new_install order and its visit
  tested,     \* a technician speed test is bound to that visit
  job         \* job[p]: the work p has left after its last commit

contract == <<status, activated, deleted, expires, marker>>
network  == <<radius, rows, secret, session, bound>>
field    == <<install, tested>>
vars     == <<status, activated, deleted, expires, marker,
              radius, rows, secret, session, bound, install, tested, job>>

Terminal  == {"cancelled", "terminated", "expired"}
Status    == {"pending", "active", "suspended"} \cup Terminal
Install   == {"none", "new", "void", "assigned", "visiting", "completed", "done"}
OpenOrder == {"new", "void", "assigned", "visiting", "completed"}
Pc        == {"idle", "sweep", "nas", "disconnect", "bound", "settle", "radius",
              "put", "terminate", "kick", "push", "sync", "password", "limit", "visit"}

ASSUME LineAssumption ==
  HasNas \in BOOLEAN /\ Archived \in BOOLEAN /\ Syncs \in BOOLEAN /\ Forms \subseteq Status

(* ok: every confirmation so far was positive; for a PUT, that it decided  *)
(* to shut the line down first; for radius_sync, that it read a permanent  *)
(* line.  new: the status a PUT or a termination writes, or "none".  was:  *)
(* the status a PUT read.                                                  *)
Job == [pc : Pc, ok : BOOLEAN, new : Status \cup {"none"}, was : Status \cup {"none"}]

TypeOK ==
  /\ status \in Status
  /\ activated \in BOOLEAN /\ deleted \in BOOLEAN /\ marker \in BOOLEAN
  /\ expires \in {"null", "open", "elapsed"}
  /\ radius \in {"inactive", "active", "suspended"}
  /\ rows \in {"none", "window", "full"}
  /\ secret \in BOOLEAN
  /\ session \in {"none", "bounded", "free"}
  /\ bound \in {"over", "running"}
  /\ install \in Install
  /\ tested \in BOOLEAN
  /\ job \in [Proc -> Job]

Work(pc)       == [pc |-> pc, ok |-> TRUE, new |-> "none", was |-> "none"]
Idle           == Work("idle")
Take(p, w)     == job[p].pc = "idle" /\ job' = [job EXCEPT ![p] = w]
Goto(p, pc)    == job' = [job EXCEPT ![p].pc = pc]
Fail(p, pc)    == job' = [job EXCEPT ![p].pc = pc, ![p].ok = FALSE]
Finish(p)      == job' = [job EXCEPT ![p] = Idle]

(* routes/contracts.js POST: a new line is pending and offline.  The       *)
(* reconnect and renew handlers also accept an imported line that is       *)
(* suspended although it was never activated.                              *)
Init ==
  /\ \/ status = "pending" /\ radius = "inactive"
     \/ status = "suspended" /\ radius \in {"inactive", "suspended"}
  /\ activated = FALSE /\ deleted = FALSE
  /\ expires = "null" /\ marker = FALSE
  /\ rows = "none" /\ secret = FALSE /\ session = "none" /\ bound = "over"
  /\ install = "none" /\ tested = FALSE
  /\ job = [p \in Proc |-> Idle]

-----------------------------------------------------------------------------
(* Installation order and visit: prepareActivation, startOrder and the     *)
(* work-order status handler.                                              *)

(* Only an order whose visit is missing gets a new one: the evidence of an *)
(* older visit never counts for the new one.                               *)
PrepareActivation ==
  /\ status = "pending" /\ ~deleted
  /\ \/ install \in {"none", "done"} /\ install' = "new"
     \/ install = "void" /\ install' = "assigned"
  /\ tested' = FALSE
  /\ UNCHANGED <<contract, network, job>>

StartOrder ==
  /\ install = "new"
  /\ install' = "assigned"
  /\ tested' = FALSE
  /\ UNCHANGED <<contract, network, job>>

(* A completion of the visit that is still in flight will be refused: the  *)
(* locked work order no longer has the status it read.                     *)
RefuseVisit == job' = [p \in Proc |-> IF job[p].pc = "visit" THEN Idle ELSE job[p]]

CancelVisit ==
  /\ install \in {"assigned", "visiting"}
  /\ install' = "void"
  /\ RefuseVisit
  /\ UNCHANGED <<contract, network, tested>>

(* commissioningGateError reads the contract before the transaction that   *)
(* locks the work order and completes it.                                  *)
CheckVisit(p) ==
  /\ install = "visiting" /\ tested
  /\ expires = "null" /\ ~marker /\ ~deleted
  /\ Take(p, Work("visit"))
  /\ UNCHANGED <<contract, network, field>>

CompleteVisit(p) ==
  /\ job[p].pc = "visit"
  /\ install' = IF install = "visiting" THEN "completed" ELSE install
  /\ Finish(p)
  /\ UNCHANGED <<contract, network, tested>>

-----------------------------------------------------------------------------
(* testWindowService.js: the bounded test window. *)

Operable == install \in {"assigned", "visiting"}

(* A mutation: the Expiration row is not written for a pending line. *)
StartWindowUnbounded ==
  /\ Operable
  /\ status = "pending" /\ ~deleted /\ ~marker
  /\ expires = "open" => radius = "active"
  /\ secret' = (secret /\ ~HasNas)
  /\ expires' = "open" /\ bound' = "running"
  /\ radius' = "active" /\ rows' = "full"
  /\ install' = "visiting"
  /\ UNCHANGED <<status, activated, deleted, marker, session, tested, job>>

(* startWindow: the local secret is deleted under the row locks before the *)
(* window is stamped.  A window that is already open keeps its expiry.     *)
StartWindow ==
  /\ Operable
  /\ status = "pending" /\ ~deleted /\ ~marker
  /\ expires = "open" => radius = "active"      \* syncFreeradiusContract throws
  /\ secret' = (secret /\ ~HasNas)
  /\ expires' = "open" /\ bound' = "running"
  /\ radius' = "active" /\ rows' = "window"
  /\ install' = "visiting"
  /\ UNCHANGED <<status, activated, deleted, marker, session, tested, job>>

(* completeWindow, with markPendingCleanup in the same transaction. *)
CompleteWindow(p) ==
  /\ Operable
  /\ status = "pending" /\ ~deleted /\ ~marker /\ expires = "open"
  /\ install' = "visiting" /\ tested' = TRUE
  /\ marker' = TRUE
  /\ radius' = "inactive" /\ rows' = "none"
  /\ Take(p, Work("nas"))
  /\ UNCHANGED <<status, activated, deleted, expires, secret, session, bound>>

(* cleanupMarkedWindow: the transaction shared by End and by the sweep.    *)
(* An active line is never disabled, only its stale marker is cleared.     *)
CleanupMarkedWindow(p, onlyIfExpired) ==
  \/ /\ status = "active"
     /\ marker' = FALSE /\ expires' = "null"
     /\ Finish(p)
     /\ UNCHANGED <<status, activated, deleted, network, field>>
  \/ /\ status # "active"
     /\ \/ ~marker /\ expires = "null"
        \/ onlyIfExpired /\ ~marker /\ expires = "open"
     /\ Finish(p)
     /\ UNCHANGED <<contract, network, field>>
  \/ /\ status # "active"
     /\ marker \/ expires = "elapsed" \/ (expires = "open" /\ ~onlyIfExpired)
     /\ marker' = TRUE
     /\ radius' = "inactive" /\ rows' = "none"
     /\ job' = [job EXCEPT ![p] = Work("nas")]
     /\ UNCHANGED <<status, activated, deleted, expires, secret, session, bound, field>>

EndWindow(p) == job[p].pc = "idle" /\ CleanupMarkedWindow(p, FALSE)

(* A mutation: sweep looks for elapsed windows only. *)
SweepSelectElapsed(p) ==
  /\ expires = "elapsed"
  /\ Take(p, Work("sweep"))
  /\ UNCHANGED <<contract, network, field>>

(* sweep: the SELECT, and later the cleanup of a selected row. *)
SweepSelect(p) ==
  /\ marker \/ expires = "elapsed"
  /\ Take(p, Work("sweep"))
  /\ UNCHANGED <<contract, network, field>>

SweepClean(p) == job[p].pc = "sweep" /\ CleanupMarkedWindow(p, TRUE)

-----------------------------------------------------------------------------
(* finalizeMarkedCleanup: the external half of a committed shutdown.  None *)
(* of its steps holds a lock.                                              *)

(* disableNasBestEffort.  An archived identity blocks the release whatever *)
(* the router answers.                                                     *)
DeleteSecret(p) ==
  /\ job[p].pc = "nas"
  /\ secret' = (secret /\ ~HasNas)
  /\ IF Archived THEN Fail(p, "disconnect") ELSE Goto(p, "disconnect")
  /\ UNCHANGED <<contract, radius, rows, session, bound, field>>

(* RouterOS does not answer; the delete may or may not have happened. *)
DeleteSecretFails(p) ==
  /\ job[p].pc = "nas" /\ HasNas
  /\ secret' = FALSE \/ secret' = secret
  /\ Fail(p, "disconnect")
  /\ UNCHANGED <<contract, radius, rows, session, bound, field>>

(* disconnectBestEffort: an ACK, or a NAK when there is no session. *)
Disconnect(p) ==
  /\ job[p].pc = "disconnect"
  /\ session' = "none"
  /\ Goto(p, "settle")
  /\ UNCHANGED <<contract, radius, rows, secret, bound, field>>

(* Timeout, socket error, missing NAS secret or a mixed answer. *)
DisconnectFails(p) ==
  /\ job[p].pc = "disconnect"
  /\ session' \in {session, "none"}
  /\ Fail(p, "settle")
  /\ UNCHANGED <<contract, radius, rows, secret, bound, field>>

(* No NAS to address: a second query asks whether the bound has elapsed. *)
DisconnectNoTarget(p) ==
  /\ job[p].pc = "disconnect" /\ ~HasNas
  /\ Goto(p, "bound")
  /\ UNCHANGED <<contract, network, field>>

ReadBound(p) ==
  /\ job[p].pc = "bound"
  /\ IF expires = "elapsed" THEN Goto(p, "settle") ELSE Fail(p, "settle")
  /\ UNCHANGED <<contract, network, field>>

(* A mutation: the marker is released whatever the router answered. *)
SettleUnconfirmed(p) ==
  /\ job[p].pc = "settle"
  /\ marker' = (marker /\ (status = "active" \/ Archived))
  /\ expires' = IF marker /\ ~marker' THEN "null" ELSE expires
  /\ IF job[p].new = "none" THEN Finish(p) ELSE Goto(p, "radius")
  /\ UNCHANGED <<status, activated, deleted, network, field>>

(* setCleanupMarker or releaseCleanupMarker.  PUT goes on with its own     *)
(* unguarded update of the RADIUS account.                                 *)
Settle(p) ==
  /\ job[p].pc = "settle"
  /\ IF job[p].ok
     THEN /\ marker' = (marker /\ (status = "active" \/ Archived))
          /\ expires' = IF marker /\ ~marker' THEN "null" ELSE expires
     ELSE /\ marker' = (marker \/ status # "active")
          /\ UNCHANGED expires
  /\ IF job[p].new = "none" THEN Finish(p) ELSE Goto(p, "radius")
  /\ UNCHANGED <<status, activated, deleted, network, field>>

-----------------------------------------------------------------------------
(* Shutdown of a non-active line inside another handler's transaction.     *)

(* requiresExternalCleanup: only the pristine shape may skip the marker.   *)
NeedsCleanup ==
  \/ activated \/ expires # "null" \/ marker
  \/ Archived \/ HasNas \/ radius # "inactive" \/ rows # "none"
  \/ session # "none"

(* prepareExternalCleanup; cancelOrder and cancelActivation inline it. *)
Shutdown ==
  /\ marker' = NeedsCleanup
  /\ expires' = IF NeedsCleanup THEN expires ELSE "null"
  /\ radius' = "inactive" /\ rows' = "none"
  /\ UNCHANGED <<secret, session, bound>>

ShutdownWork(w) == IF NeedsCleanup THEN Work("nas") ELSE w

(* lifecycleService.cancelOrder, and cancelActivation, which delegates to  *)
(* it when an order exists and otherwise cancels the contract itself.  A   *)
(* contract that is no longer pending is left alone.                       *)
CancelOrder(p) ==
  /\ install \in OpenOrder /\ job[p].pc = "idle"
  /\ install' = "none"
  /\ \/ /\ status = "pending"
        /\ status' = "cancelled"
        /\ Shutdown
        /\ job' = [q \in Proc |-> IF q = p THEN ShutdownWork(Work("kick"))
                                ELSE IF job[q].pc = "visit" THEN Idle ELSE job[q]]
        /\ UNCHANGED <<activated, deleted, tested>>
     \/ /\ status # "pending"
        /\ RefuseVisit
        /\ UNCHANGED <<contract, network, tested>>

CancelUnprepared(p) ==
  /\ status = "pending" /\ ~deleted /\ install \notin OpenOrder
  /\ status' = "cancelled"
  /\ Shutdown
  /\ Take(p, ShutdownWork(Work("kick")))
  /\ UNCHANGED <<activated, deleted, field>>

(* A line that never was live goes back to pending through the cleanup:    *)
(* POST /renew from any closed state, reconnectContract from suspended.    *)
ResetToPending(p) ==
  /\ status \in {"suspended"} \cup Terminal /\ ~activated /\ ~deleted
  /\ status' = "pending"
  /\ Shutdown
  /\ Take(p, ShutdownWork(Idle))
  /\ UNCHANGED <<activated, deleted, field>>

DeleteContract(p) ==
  /\ status \in Terminal /\ ~deleted
  /\ deleted' = TRUE
  /\ Shutdown
  /\ Take(p, ShutdownWork(Idle))
  /\ UNCHANGED <<status, activated, field>>

RestoreContract ==
  /\ deleted
  /\ deleted' = FALSE
  /\ UNCHANGED <<status, activated, expires, marker, network, field, job>>

-----------------------------------------------------------------------------
(* Permanent service. *)

(* completeOrder for a new installation: the one gate to first service.    *)
CompleteOrder(p) ==
  /\ install = "completed" /\ tested
  /\ status = "pending" /\ ~deleted /\ ~marker /\ expires = "null"
  /\ status' = "active" /\ activated' = TRUE
  /\ radius' = "active" /\ rows' = "full"
  /\ install' = "done"
  /\ Take(p, IF HasNas THEN Work("push") ELSE Idle)
  /\ UNCHANGED <<deleted, expires, marker, secret, session, bound, tested>>

(* renewPreviouslyActivated.  The window columns are not written. *)
Renew(p) ==
  /\ status \in {"suspended"} \cup Terminal /\ activated /\ ~deleted
  /\ status' = "active"
  /\ radius' = "active" /\ rows' = "full"
  /\ Take(p, IF HasNas THEN Work("push") ELSE Idle)
  /\ UNCHANGED <<activated, deleted, expires, marker, secret, session, bound, field>>

(* retryNetworkActivation and regenerate-pppoe (the weaker guard) read an  *)
(* active line, then push its secret.                                      *)
RetryPush(p) ==
  /\ HasNas /\ status = "active" /\ ~deleted
  /\ Take(p, Work("push"))
  /\ UNCHANGED <<contract, network, field>>

(* pushSubscriber, which may fail without the caller noticing. *)
Push(p) ==
  /\ job[p].pc = "push"
  /\ secret' = TRUE \/ secret' = secret
  /\ Finish(p)
  /\ UNCHANGED <<contract, radius, rows, session, bound, field>>

(* trg_contracts_status_fsm_bu; a write that keeps the status passes. *)
StatusTrigger == [s \in Status |->
  CASE s = "pending"   -> {"active", "cancelled"}
    [] s = "active"    -> {"suspended"} \cup Terminal
    [] s = "suspended" -> {"pending", "active", "cancelled", "terminated"}
    [] OTHER           -> {"pending", "active"}]

Permits(new) == new = status \/ new \in StatusTrigger[status]

(* suspendContract: the disconnect is sent before the commit, so a session *)
(* that outlives it is one that it missed or one that dialled in again.    *)
Suspend ==
  /\ Permits("suspended")
  /\ status' = "suspended"
  /\ radius' = IF radius = "active" THEN "suspended" ELSE radius
  /\ session' \in {session, "none"}
  /\ UNCHANGED <<activated, deleted, expires, marker, rows, secret, bound, field, job>>

(* A mutation: the proof of an earlier activation is not asked for. *)
ReconnectWithoutProof ==
  /\ status = "suspended" /\ ~deleted
  /\ status' = "active"
  /\ radius' = IF radius = "suspended" THEN "active" ELSE radius
  /\ UNCHANGED <<activated, deleted, expires, marker, rows, secret, session, bound, field, job>>

(* reconnectContract for a line that was live before. *)
Reconnect ==
  /\ status = "suspended" /\ activated /\ ~deleted
  /\ status' = "active"
  /\ radius' = IF radius = "suspended" THEN "active" ELSE radius
  /\ UNCHANGED <<activated, deleted, expires, marker, rows, secret, session, bound, field, job>>

-----------------------------------------------------------------------------
(* PUT/PATCH of a contract, and /terminate: an unlocked read, a write, and *)
(* the RADIUS account in a statement of its own.                           *)

(* With window state, or from pending, the shutdown comes first. *)
Quiesces == status # "active" /\ (status = "pending" \/ marker \/ expires # "null")

(* 'active' and 'pending' are taken from a form that was shown them only;  *)
(* a form that sends back the status it was shown shuts nothing down.      *)
ReadForUpdate(p, new) ==
  /\ ~deleted /\ (new \in {"pending", "active"} => status = new)
  /\ Take(p, [pc |-> "put", ok |-> Quiesces /\ new # status, new |-> new, was |-> status])
  /\ UNCHANGED <<contract, network, field>>

ReadForTerminate(p) ==
  /\ ~deleted /\ status \in {"active", "suspended"}
  /\ Take(p, [Work("terminate") EXCEPT !.new = "terminated", !.ok = FALSE])
  /\ UNCHANGED <<contract, network, field>>

(* updateContractWithActivationGuard freezes the status while an order is  *)
(* open; the terminate route writes the row without it.                    *)
Writable(p) ==
  /\ ~deleted /\ Permits(job[p].new)
  /\ job[p].pc = "put" /\ status # job[p].new => install \notin OpenOrder
  /\ job[p].ok => status = job[p].was

(* A form that sent back the status it was shown is done with the write,   *)
(* whatever the status is by now.                                          *)
WriteStatus(p) ==
  /\ job[p].pc \in {"put", "terminate"}
  /\ \/ /\ Writable(p)
        /\ status' = job[p].new
        /\ IF job[p].ok THEN Shutdown ELSE UNCHANGED <<expires, marker, network>>
        /\ LET w == IF job[p].ok THEN ShutdownWork(Work("radius")) ELSE Work("radius")
           IN IF job[p].new = job[p].was THEN Finish(p)
              ELSE job' = [job EXCEPT ![p] = [w EXCEPT !.new = job[p].new]]
     \/ /\ ~Writable(p)
        /\ Finish(p)
        /\ UNCHANGED <<status, expires, marker, network>>
  /\ UNCHANGED <<activated, deleted, field>>

(* PUT of another PPPoE connection type: the same shutdown, no status. *)
ChangeType(p) ==
  /\ Quiesces /\ ~deleted /\ install \notin OpenOrder
  /\ Shutdown
  /\ Take(p, ShutdownWork(Idle))
  /\ UNCHANGED <<status, activated, deleted, field>>

(* A mutation: the contract's status is copied into radius.status. *)
UpdateRadiusCopies(p) ==
  /\ job[p].pc = "radius"
  /\ radius' = job[p].new
  /\ Goto(p, "kick")
  /\ UNCHANGED <<contract, rows, secret, session, bound, field>>

(* The statement after the status write: it looks at no contract column.   *)
UpdateRadius(p) ==
  /\ job[p].pc = "radius"
  /\ radius' = IF job[p].new # "suspended" THEN "inactive"
               ELSE IF radius = "active" THEN "suspended" ELSE radius
  /\ Goto(p, "kick")
  /\ UNCHANGED <<contract, rows, secret, session, bound, field>>

(* sendRadiusDisconnect whose answer nobody acts on. *)
Kick(p) ==
  /\ job[p].pc = "kick"
  /\ session' \in {session, "none"}
  /\ Finish(p)
  /\ UNCHANGED <<contract, radius, rows, secret, bound, field>>

-----------------------------------------------------------------------------
(* findSubscriber and syncFreeradiusTables share this condition. *)
MayAuthenticate ==
  /\ radius = "active"
  /\ status = "active" \/ (status = "pending" /\ ~marker /\ expires = "open")

(* radius_sync: syncFreeradiusTables reads the accounts that may           *)
(* authenticate, then deletes and rewrites the rows of each, one statement *)
(* at a time and outside any transaction; an error drops the rest of them. *)
SyncRead(p) ==
  /\ Syncs /\ MayAuthenticate
  /\ Take(p, [Work("sync") EXCEPT !.ok = (status = "active")])
  /\ UNCHANGED <<contract, network, field>>

SyncDelete(p) ==
  /\ job[p].pc = "sync"
  /\ rows' = "none"
  /\ Goto(p, "password")
  /\ UNCHANGED <<contract, radius, secret, session, bound, field>>

(* The password row: it admits without a bound unless one is there.        *)
SyncPassword(p) ==
  /\ job[p].pc = "password"
  /\ rows' = IF rows = "window" THEN "window" ELSE "full"
  /\ IF job[p].ok THEN Finish(p) ELSE Goto(p, "limit")
  /\ UNCHANGED <<contract, radius, secret, session, bound, field>>

(* Expiration and Session-Timeout of a pending line; without a password    *)
(* row they admit nobody.                                                  *)
SyncLimit(p) ==
  /\ job[p].pc = "limit"
  /\ rows' = IF rows = "none" THEN "none" ELSE "window"
  /\ Finish(p)
  /\ UNCHANGED <<contract, radius, secret, session, bound, field>>

-----------------------------------------------------------------------------
(* The subscriber and the clock. *)

(* A dial-in is admitted by the embedded server (findSubscriber), by the   *)
(* FreeRADIUS rows, or by the router's own secret.                         *)
Dial ==
  /\ session = "none"
  /\ \/ MayAuthenticate /\ session' = IF status = "active" THEN "free" ELSE "bounded"
     \/ rows = "full" /\ session' = "free"
     \/ rows = "window" /\ bound = "running" /\ session' = "bounded"
     \/ secret /\ session' = "free"
  /\ UNCHANGED <<contract, radius, rows, secret, bound, field, job>>

HangUp ==
  /\ session # "none"
  /\ session' = "none"
  /\ UNCHANGED <<contract, radius, rows, secret, bound, field, job>>

(* The bound passes: NOW() overtakes the expiry, and the NAS ends every    *)
(* session that carries a Session-Timeout.                                 *)
Elapse ==
  /\ bound = "running"
  /\ bound' = "over"
  /\ expires' = IF expires = "open" THEN "elapsed" ELSE expires
  /\ session' = IF session = "bounded" THEN "none" ELSE session
  /\ UNCHANGED <<status, activated, deleted, marker, radius, rows, secret, field, job>>

(* The process that runs p dies; the database keeps what was committed.    *)
Crash(p) ==
  /\ job[p].pc # "idle"
  /\ Finish(p)
  /\ UNCHANGED <<contract, network, field>>

-----------------------------------------------------------------------------
FinalizerStep(p) ==
  \/ DeleteSecret(p) \/ DeleteSecretFails(p)
  \/ Disconnect(p) \/ DisconnectFails(p) \/ DisconnectNoTarget(p)
  \/ ReadBound(p) \/ Settle(p)

JobStep(p) ==
  \/ FinalizerStep(p) \/ SweepClean(p)
  \/ WriteStatus(p) \/ UpdateRadius(p) \/ Kick(p)
  \/ Push(p) \/ CompleteVisit(p)
  \/ SyncDelete(p) \/ SyncPassword(p) \/ SyncLimit(p)

Request(p) ==
  \/ CheckVisit(p) \/ CompleteWindow(p) \/ EndWindow(p)
  \/ CancelOrder(p) \/ CancelUnprepared(p) \/ ResetToPending(p)
  \/ DeleteContract(p) \/ CompleteOrder(p) \/ Renew(p) \/ RetryPush(p)
  \/ ReadForTerminate(p) \/ ChangeType(p) \/ SyncRead(p)
  \/ \E new \in Forms : ReadForUpdate(p, new)

Next ==
  \/ \E p \in Proc : Request(p) \/ SweepSelect(p) \/ JobStep(p) \/ Crash(p)
  \/ PrepareActivation \/ StartOrder \/ CancelVisit \/ StartWindow
  \/ RestoreContract \/ Suspend \/ Reconnect
  \/ Dial \/ HangUp \/ Elapse

Spec == Init /\ [][Next]_vars

(* Work in flight goes on (every external call carries a timeout), and     *)
(* test_window_sweep keeps coming back: sweep orders by the last attempt,  *)
(* so no line is left out of its batch for ever.                           *)
Fairness == /\ \A p \in Proc : WF_vars(JobStep(p))
            /\ SF_vars(\E p \in Proc : SweepSelect(p))
FairSpec == Spec /\ Fairness

(* A router that does not answer, or a step nothing but a crash explains. *)
Failure(p) ==
  \/ DeleteSecretFails(p) \/ DisconnectFails(p)
  \/ Crash(p) /\ ~JobStep(p)

-----------------------------------------------------------------------------
(* No interleaving of requests, workers and crashes gives a line that was  *)
(* never commissioned permanent service: it is not active, has no RouterOS *)
(* secret, and the embedded server would at most hand it a bounded accept. *)
NoServiceBeforeActivation ==
  ~activated => /\ status # "active" /\ ~secret
                /\ MayAuthenticate => bound = "running"

(* The test window bounds every access of such a line, FreeRADIUS rows and *)
(* sessions included: "no group can weaken its time bound".                *)
BoundedUntilActivated == ~activated => rows # "full" /\ session # "free"

(* A line that is pending or deleted, with no window and no cleanup        *)
(* marker, is off: a released marker means that every credential is gone   *)
(* and that no session survived.  commissioningGateError and completeOrder *)
(* rely on exactly that, and nothing looks at a deleted line again.        *)
IdleLineIsDark ==
  (status = "pending" \/ deleted) /\ ~marker /\ expires = "null" =>
    radius = "inactive" /\ rows = "none" /\ ~secret /\ session = "none"

(* "The fresh bound wins; never close it stale": a pending line whose      *)
(* cleanup is pending has no enabled account.  It does when a finalizer    *)
(* that lost its race marks the window that was opened since.              *)
MarkedLineIsDisabled ==
  status = "pending" /\ marker => radius # "active"

(* A shutdown that was committed is carried through: once routers answer   *)
(* and processes stop crashing, every pending cleanup of a line that is    *)
(* not live again is confirmed and its marker released.                    *)
CleanupConverges ==
  <>[][\A p \in Proc : ~Failure(p)]_vars =>
    (marker /\ status # "active" ~> ~marker \/ status = "active")

(* cleanupMarkedWindow "never touches active service": the external half   *)
(* of a shutdown takes no secret and no session from an active line.       *)
CleanupSparesActive ==
  [][\A p \in Proc : FinalizerStep(p) /\ status = "active" =>
       UNCHANGED <<secret, session>>]_vars

(* A suspended or terminated subscriber who dials again is turned away, as *)
(* suspendContract and /terminate say of the RADIUS flip they make.        *)
ClosedLineRefusesDial ==
  [][session = "none" /\ session' # "none" => status \in {"pending", "active"}]_vars
=============================================================================
