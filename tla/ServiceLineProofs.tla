------------------------- MODULE ServiceLineProofs -------------------------
(***************************************************************************)
(* What holds of a service line for every set of processes, with or        *)
(* without a NAS, an archived identity and the radius_sync task.           *)
(*                                                                         *)
(* Two inductive invariants.  Inv needs nothing: it ties permanent service *)
(* to activation under every interleaving.  SInv needs TakesTurns, that no *)
(* handler begins while another has post-commit work left: with two at a   *)
(* time IdleLineIsDark does not hold.                                      *)
(***************************************************************************)
EXTENDS ServiceLine, TLAPS

SyncPc  == {"sync", "password", "limit"}
Closing == {"suspended"} \cup Terminal
Cleanup == {"nas", "disconnect", "bound", "settle"}

(* The work a handler has left is about a status it may write: 'active'    *)
(* comes from a form that was shown a live line, and what shuts a line     *)
(* down closes it.                                                         *)
JobInv ==
  \A p \in Proc :
    /\ job[p].pc \in {"put", "terminate"} => job[p].new \in Status
    /\ job[p].pc = "terminate" => job[p].new \in Closing
    /\ job[p].pc = "put" /\ job[p].new = "active" => activated
    /\ job[p].pc = "put" /\ job[p].ok => job[p].new \in Closing

(* Permanent service, and the work that is about to grant it, is only      *)
(* found beyond the first activation.                                      *)
ActivationInv ==
  /\ ~activated => status # "active" /\ ~secret
  /\ \A p \in Proc : /\ job[p].pc = "push" => activated
                     /\ job[p].pc \in SyncPc /\ job[p].ok => activated

(* The window's clock: its expiry, the bound handed out and the session    *)
(* that carries it agree.                                                  *)
ClockInv ==
  /\ expires = "open" => bound = "running"
  /\ expires = "elapsed" => bound = "over"
  /\ session = "bounded" => bound = "running"

(* Without radius_sync nothing writes a password row without its bound.    *)
BoundInv ==
  ~Syncs => /\ \A p \in Proc : job[p].pc \notin SyncPc
            /\ ~activated => rows # "full" /\ session # "free"

Inv == TypeOK /\ JobInv /\ ActivationInv /\ ClockInv /\ BoundInv

-----------------------------------------------------------------------------
(* At most one handler has committed and still has work to do.             *)
Serial ==
  \A p, q \in Proc : job[p].pc # "idle" /\ job[q].pc # "idle" => p = q

(* No request or sweep begins while another handler is at work. *)
TakesTurns ==
  \A p, q \in Proc : Request(p) \/ SweepSelect(p) => q = p \/ job[q].pc = "idle"

Watched == status = "pending" \/ deleted

(* What the single job in flight can rely on. *)
FlightInv ==
  \A p \in Proc :
    /\ job[p].pc \in Cleanup => marker \/ (activated /\ ~deleted)
    /\ job[p].pc \in {"disconnect", "bound", "settle"} /\ job[p].ok => (Watched => ~secret)
    /\ job[p].pc = "bound" => ~HasNas
    /\ job[p].pc = "settle" /\ job[p].ok => (Watched => session = "none")
    /\ job[p].pc = "push" => ~deleted /\ HasNas
    /\ job[p].pc \in SyncPc /\ job[p].ok => ~deleted
    /\ job[p].pc = "put" /\ job[p].new = "pending" => status = "pending"
    /\ job[p].pc \in SyncPc /\ ~job[p].ok =>
         status = "pending" /\ ~marker /\ expires # "null"

LineInv ==
  /\ deleted => status \in Terminal
  /\ secret => HasNas
  /\ activated => status # "pending" /\ expires = "null"
  /\ Watched /\ marker => radius = "inactive" /\ rows = "none"
  /\ IdleLineIsDark

SInv == Inv /\ Serial /\ LineInv /\ FlightInv

-----------------------------------------------------------------------------
(* Types of the work records. *)
LEMMA JobTypes ==
  /\ \A pc \in Pc : Work(pc) \in Job
  /\ Idle \in Job
  BY DEF Work, Idle, Job, Pc, Closing, Terminal, Status

(* The four ways a step of p changes job keep its type. *)
LEMMA JobMoves ==
  ASSUME job \in [Proc -> Job], NEW p \in Proc
  PROVE  /\ Finish(p) => job' \in [Proc -> Job]
         /\ \A pc \in Pc : Goto(p, pc) \/ Fail(p, pc) => job' \in [Proc -> Job]
         /\ \A w \in Job : Take(p, w) => job' \in [Proc -> Job]
<1>1. Finish(p) => job' \in [Proc -> Job]
  BY JobTypes DEF Finish
<1>2. \A pc \in Pc : Goto(p, pc) => job' \in [Proc -> Job]
  BY DEF Goto, Job
<1>3. ASSUME NEW pc \in Pc, Fail(p, pc) PROVE job' \in [Proc -> Job]
  <2> DEFINE j == [job[p] EXCEPT !.pc = pc, !.ok = FALSE]
  <2>1. j \in Job /\ job' = [job EXCEPT ![p] = j]
    BY <1>3 DEF Fail, Job
  <2> QED
    BY <2>1
<1>4. \A w \in Job : Take(p, w) => job' \in [Proc -> Job]
  BY DEF Take
<1> QED
  BY <1>1, <1>2, <1>3, <1>4

(* requiresExternalCleanup decides, and the work that follows is a job. *)
LEMMA ShutdownTypes ==
  /\ NeedsCleanup \in BOOLEAN
  /\ \A w \in Job : ShutdownWork(w) \in Job
  BY JobTypes DEF NeedsCleanup, ShutdownWork, Pc

(* Every handler, worker step and outside event keeps the types. *)
LEMMA TypeNext == TypeOK /\ JobInv /\ [Next]_vars => TypeOK'
<1> SUFFICES ASSUME TypeOK, JobInv, [Next]_vars PROVE TypeOK'
  OBVIOUS
<1>0. /\ job \in [Proc -> Job]
      /\ \A pc \in Pc : Work(pc) \in Job
      /\ Idle \in Job
  BY JobTypes DEF TypeOK
<1>1. ASSUME NEW p \in Proc, CheckVisit(p) PROVE TypeOK'
  <2>1. job' \in [Proc -> Job]
    BY <1>0, <1>1, JobMoves DEF CheckVisit, Pc
  <2> QED
    BY <1>1, <2>1
    DEF CheckVisit, TypeOK, contract, network, field
<1>2. ASSUME NEW p \in Proc, CompleteVisit(p) PROVE TypeOK'
  <2>1. job' \in [Proc -> Job]
    BY <1>0, <1>2, JobMoves DEF CompleteVisit, Pc
  <2> QED
    BY <1>2, <2>1
    DEF CompleteVisit, TypeOK, Install, contract, network, field
<1>3. ASSUME NEW p \in Proc, CompleteWindow(p) PROVE TypeOK'
  <2>1. job' \in [Proc -> Job]
    BY <1>0, <1>3, JobMoves DEF CompleteWindow, Pc
  <2> QED
    BY <1>3, <2>1
    DEF CompleteWindow, TypeOK, Install, contract, network, field
<1>4. ASSUME NEW p \in Proc, EndWindow(p) PROVE TypeOK'
  <2>1. job' \in [Proc -> Job]
    BY <1>0, <1>4, JobMoves DEF EndWindow, Pc, CleanupMarkedWindow
  <2> QED
    BY <1>4, <2>1
    DEF EndWindow, CleanupMarkedWindow, TypeOK, contract, network, field
<1>5. ASSUME NEW p \in Proc, SweepSelect(p) PROVE TypeOK'
  <2>1. job' \in [Proc -> Job]
    BY <1>0, <1>5, JobMoves DEF SweepSelect, Pc
  <2> QED
    BY <1>5, <2>1
    DEF SweepSelect, TypeOK, contract, network, field
<1>6. ASSUME NEW p \in Proc, SweepClean(p) PROVE TypeOK'
  <2>1. job' \in [Proc -> Job]
    BY <1>0, <1>6, JobMoves DEF SweepClean, Pc, CleanupMarkedWindow
  <2> QED
    BY <1>6, <2>1
    DEF SweepClean, CleanupMarkedWindow, TypeOK, contract, network, field
<1>7. ASSUME NEW p \in Proc, DeleteSecret(p) PROVE TypeOK'
  <2>1. job' \in [Proc -> Job]
    BY <1>0, <1>7, JobMoves DEF DeleteSecret, Pc
  <2> QED
    BY <1>7, <2>1
    DEF DeleteSecret, TypeOK, contract, network, field
<1>8. ASSUME NEW p \in Proc, DeleteSecretFails(p) PROVE TypeOK'
  <2>1. job' \in [Proc -> Job]
    BY <1>0, <1>8, JobMoves DEF DeleteSecretFails, Pc
  <2>2. secret' \in BOOLEAN
    BY <1>8 DEF DeleteSecretFails, TypeOK
  <2> QED
    BY <1>8, <2>1, <2>2 DEF DeleteSecretFails, TypeOK, contract, network, field
<1>9. ASSUME NEW p \in Proc, Disconnect(p) PROVE TypeOK'
  <2>1. job' \in [Proc -> Job]
    BY <1>0, <1>9, JobMoves DEF Disconnect, Pc
  <2> QED
    BY <1>9, <2>1
    DEF Disconnect, TypeOK, contract, network, field
<1>10. ASSUME NEW p \in Proc, DisconnectFails(p) PROVE TypeOK'
  <2>1. job' \in [Proc -> Job]
    BY <1>0, <1>10, JobMoves DEF DisconnectFails, Pc
  <2> QED
    BY <1>10, <2>1
    DEF DisconnectFails, TypeOK, contract, network, field
<1>11. ASSUME NEW p \in Proc, DisconnectNoTarget(p) PROVE TypeOK'
  <2>1. job' \in [Proc -> Job]
    BY <1>0, <1>11, JobMoves DEF DisconnectNoTarget, Pc
  <2> QED
    BY <1>11, <2>1
    DEF DisconnectNoTarget, TypeOK, contract, network, field
<1>12. ASSUME NEW p \in Proc, ReadBound(p) PROVE TypeOK'
  <2>1. job' \in [Proc -> Job]
    BY <1>0, <1>12, JobMoves DEF ReadBound, Pc
  <2> QED
    BY <1>12, <2>1
    DEF ReadBound, TypeOK, contract, network, field
<1>13. ASSUME NEW p \in Proc, Settle(p) PROVE TypeOK'
  <2>1. job' \in [Proc -> Job]
    BY <1>0, <1>13, JobMoves DEF Settle, Pc
  <2>2. marker' \in BOOLEAN
    BY <1>13 DEF Settle, TypeOK
  <2>3. expires' \in {"null", "open", "elapsed"}
    BY <1>13 DEF Settle, TypeOK
  <2> QED
    BY <1>13, <2>1, <2>2, <2>3 DEF Settle, TypeOK, network, field
<1>14. ASSUME NEW p \in Proc, CancelOrder(p) PROVE TypeOK'
  <2>1. job' \in [Proc -> Job]
    BY <1>0, <1>14, ShutdownTypes DEF CancelOrder, RefuseVisit, Pc
  <2> QED
    BY <1>14, <2>1, ShutdownTypes
    DEF CancelOrder, Shutdown, TypeOK, Status, Terminal, Install, contract, network, field
<1>15. ASSUME NEW p \in Proc, CancelUnprepared(p) PROVE TypeOK'
  <2>1. job' \in [Proc -> Job]
    BY <1>0, <1>15, JobMoves, ShutdownTypes DEF CancelUnprepared, Pc
  <2> QED
    BY <1>15, <2>1, ShutdownTypes
    DEF CancelUnprepared, Shutdown, TypeOK, Status, Terminal, contract, network, field
<1>16. ASSUME NEW p \in Proc, ResetToPending(p) PROVE TypeOK'
  <2>1. job' \in [Proc -> Job]
    BY <1>0, <1>16, JobMoves, ShutdownTypes DEF ResetToPending, Pc
  <2> QED
    BY <1>16, <2>1, ShutdownTypes
    DEF ResetToPending, Shutdown, TypeOK, Status, Terminal, contract, network, field
<1>17. ASSUME NEW p \in Proc, DeleteContract(p) PROVE TypeOK'
  <2>1. job' \in [Proc -> Job]
    BY <1>0, <1>17, JobMoves, ShutdownTypes DEF DeleteContract, Pc
  <2> QED
    BY <1>17, <2>1, ShutdownTypes
    DEF DeleteContract, Shutdown, TypeOK, contract, network, field
<1>18. ASSUME NEW p \in Proc, CompleteOrder(p) PROVE TypeOK'
  <2>1. job' \in [Proc -> Job]
    BY <1>0, <1>18, JobMoves DEF CompleteOrder, Pc
  <2> QED
    BY <1>18, <2>1
    DEF CompleteOrder, TypeOK, Status, Terminal, Install, contract, network, field
<1>19. ASSUME NEW p \in Proc, Renew(p) PROVE TypeOK'
  <2>1. job' \in [Proc -> Job]
    BY <1>0, <1>19, JobMoves DEF Renew, Pc
  <2> QED
    BY <1>19, <2>1
    DEF Renew, TypeOK, Status, Terminal, contract, network, field
<1>20. ASSUME NEW p \in Proc, RetryPush(p) PROVE TypeOK'
  <2>1. job' \in [Proc -> Job]
    BY <1>0, <1>20, JobMoves DEF RetryPush, Pc
  <2> QED
    BY <1>20, <2>1
    DEF RetryPush, TypeOK, contract, network, field
<1>21. ASSUME NEW p \in Proc, Push(p) PROVE TypeOK'
  <2>1. job' \in [Proc -> Job]
    BY <1>0, <1>21, JobMoves DEF Push, Pc
  <2>2. secret' \in BOOLEAN
    BY <1>21 DEF Push, TypeOK
  <2> QED
    BY <1>21, <2>1, <2>2 DEF Push, TypeOK, contract, network, field
<1>22. ASSUME NEW p \in Proc, ReadForTerminate(p) PROVE TypeOK'
  <2>0. [Work("terminate") EXCEPT !.new = "terminated", !.ok = FALSE] \in Job
    BY DEF Work, Job, Pc, Status, Terminal
  <2>1. job' \in [Proc -> Job]
    BY <1>0, <1>22, <2>0, JobMoves DEF ReadForTerminate
  <2> QED
    BY <1>22, <2>1
    DEF ReadForTerminate, TypeOK, contract, network, field
<1>23. ASSUME NEW p \in Proc, WriteStatus(p) PROVE TypeOK'
  <2>0. job[p].new \in Status
    BY <1>0, <1>23 DEF WriteStatus, JobInv
  <2>1. job' \in [Proc -> Job]
    BY <1>0, <1>23, <2>0, JobMoves, ShutdownTypes DEF WriteStatus, Job, Pc
  <2> QED
    BY <1>23, <2>0, <2>1, ShutdownTypes
    DEF WriteStatus, Shutdown, TypeOK, contract, network, field
<1>24. ASSUME NEW p \in Proc, ChangeType(p) PROVE TypeOK'
  <2>1. job' \in [Proc -> Job]
    BY <1>0, <1>24, JobMoves, ShutdownTypes DEF ChangeType, Pc
  <2> QED
    BY <1>24, <2>1, ShutdownTypes
    DEF ChangeType, Quiesces, Shutdown, TypeOK, contract, network, field
<1>25. ASSUME NEW p \in Proc, UpdateRadius(p) PROVE TypeOK'
  <2>1. job' \in [Proc -> Job]
    BY <1>0, <1>25, JobMoves DEF UpdateRadius, Pc
  <2> QED
    BY <1>25, <2>1
    DEF UpdateRadius, TypeOK, contract, network, field
<1>26. ASSUME NEW p \in Proc, Kick(p) PROVE TypeOK'
  <2>1. job' \in [Proc -> Job]
    BY <1>0, <1>26, JobMoves DEF Kick, Pc
  <2> QED
    BY <1>26, <2>1
    DEF Kick, TypeOK, contract, network, field
<1>27. ASSUME NEW p \in Proc, SyncRead(p) PROVE TypeOK'
  <2>0. [Work("sync") EXCEPT !.ok = (status = "active")] \in Job
    BY DEF Work, Job, Pc, Closing, Terminal
  <2>1. job' \in [Proc -> Job]
    BY <1>0, <1>27, <2>0, JobMoves DEF SyncRead
  <2> QED
    BY <1>27, <2>1
    DEF SyncRead, MayAuthenticate, TypeOK, contract, network, field
<1>28. ASSUME NEW p \in Proc, SyncDelete(p) PROVE TypeOK'
  <2>1. job' \in [Proc -> Job]
    BY <1>0, <1>28, JobMoves DEF SyncDelete, Pc
  <2> QED
    BY <1>28, <2>1
    DEF SyncDelete, TypeOK, contract, network, field
<1>29. ASSUME NEW p \in Proc, SyncPassword(p) PROVE TypeOK'
  <2>1. job' \in [Proc -> Job]
    BY <1>0, <1>29, JobMoves DEF SyncPassword, Pc
  <2> QED
    BY <1>29, <2>1
    DEF SyncPassword, TypeOK, contract, network, field
<1>30. ASSUME NEW p \in Proc, SyncLimit(p) PROVE TypeOK'
  <2>1. job' \in [Proc -> Job]
    BY <1>0, <1>30, JobMoves DEF SyncLimit, Pc
  <2> QED
    BY <1>30, <2>1
    DEF SyncLimit, TypeOK, contract, network, field
<1>31. ASSUME NEW p \in Proc, Crash(p) PROVE TypeOK'
  <2>1. job' \in [Proc -> Job]
    BY <1>0, <1>31, JobMoves DEF Crash, Pc
  <2> QED
    BY <1>31, <2>1
    DEF Crash, TypeOK, contract, network, field
<1>32. ASSUME NEW p \in Proc, NEW new \in Forms, ReadForUpdate(p, new) PROVE TypeOK'
  <2>1. job' \in [Proc -> Job]
    BY <1>0, <1>32, LineAssumption DEF ReadForUpdate, Take, Job, Pc, Quiesces, TypeOK
  <2> QED
    BY <1>32, <2>1
    DEF ReadForUpdate, TypeOK, contract, network, field
<1>33. CASE PrepareActivation
  <2>1. job' \in [Proc -> Job]
    BY <1>0, <1>33 DEF PrepareActivation
  <2> QED
    BY <1>33, <2>1
    DEF PrepareActivation, TypeOK, Install, contract, network, field
<1>34. CASE StartOrder
  <2>1. job' \in [Proc -> Job]
    BY <1>0, <1>34 DEF StartOrder
  <2> QED
    BY <1>34, <2>1
    DEF StartOrder, TypeOK, Install, contract, network, field
<1>35. CASE CancelVisit
  <2>1. job' \in [Proc -> Job]
    BY <1>0, <1>35 DEF CancelVisit, RefuseVisit
  <2> QED
    BY <1>35, <2>1
    DEF CancelVisit, RefuseVisit, TypeOK, Install, contract, network, field
<1>36. CASE StartWindow
  <2>1. job' \in [Proc -> Job]
    BY <1>0, <1>36 DEF StartWindow
  <2> QED
    BY <1>36, <2>1
    DEF StartWindow, Operable, TypeOK, Install, contract, network, field
<1>37. CASE RestoreContract
  <2>1. job' \in [Proc -> Job]
    BY <1>0, <1>37 DEF RestoreContract
  <2> QED
    BY <1>37, <2>1
    DEF RestoreContract, TypeOK, contract, network, field
<1>38. CASE Suspend
  <2>1. job' \in [Proc -> Job]
    BY <1>0, <1>38 DEF Suspend
  <2> QED
    BY <1>38, <2>1
    DEF Suspend, Permits, StatusTrigger, TypeOK, Status, Terminal, contract, network, field
<1>39. CASE Reconnect
  <2>1. job' \in [Proc -> Job]
    BY <1>0, <1>39 DEF Reconnect
  <2> QED
    BY <1>39, <2>1
    DEF Reconnect, TypeOK, Status, Terminal, contract, network, field
<1>40. CASE Dial
  <2>1. job' \in [Proc -> Job]
    BY <1>0, <1>40 DEF Dial
  <2> QED
    BY <1>40, <2>1
    DEF Dial, MayAuthenticate, TypeOK, contract, network, field
<1>41. CASE HangUp
  <2>1. job' \in [Proc -> Job]
    BY <1>0, <1>41 DEF HangUp
  <2> QED
    BY <1>41, <2>1
    DEF HangUp, TypeOK, contract, network, field
<1>42. CASE Elapse
  <2>1. job' \in [Proc -> Job]
    BY <1>0, <1>42 DEF Elapse
  <2> QED
    BY <1>42, <2>1
    DEF Elapse, TypeOK, contract, network, field
<1>43. CASE UNCHANGED vars
  BY <1>43 DEF vars, TypeOK
<1> QED
  BY <1>1, <1>2, <1>3, <1>4, <1>5, <1>6, <1>7, <1>8, <1>9, <1>10, <1>11, <1>12, <1>13, <1>14, <1>15, <1>16,
     <1>17, <1>18, <1>19, <1>20, <1>21, <1>22, <1>23, <1>24, <1>25, <1>26, <1>27, <1>28, <1>29, <1>30, <1>31, <1>32,
     <1>33, <1>34, <1>35, <1>36, <1>37, <1>38, <1>39, <1>40, <1>41, <1>42, <1>43
     DEF Next, Request, JobStep, FinalizerStep

(* A new or an imported line satisfies Inv. *)
LEMMA InvInit == Init => Inv
<1> SUFFICES ASSUME Init PROVE Inv
  OBVIOUS
<1> USE DEF Init
<1>1. TypeOK
  BY JobTypes DEF TypeOK, Status, Terminal, Install
<1>2. JobInv /\ ActivationInv /\ ClockInv /\ BoundInv
  BY DEF JobInv, ActivationInv, ClockInv, BoundInv, Idle, Work, SyncPc
<1> QED
  BY <1>1, <1>2 DEF Inv

(* The part of Inv beyond the types, after a step. *)
PartsNext == JobInv' /\ ActivationInv' /\ ClockInv' /\ BoundInv'

(* No step, of any process, breaks Inv. *)
LEMMA InvNext == Inv /\ [Next]_vars => Inv'
<1> SUFFICES ASSUME Inv, [Next]_vars PROVE PartsNext
  BY TypeNext DEF Inv, PartsNext
<1> USE LineAssumption
    DEF Inv, TypeOK, JobInv, ActivationInv, ClockInv, BoundInv, SyncPc,
        Job, Pc, Status, Terminal, Closing, Install, contract, network, field,
        Take, Goto, Fail, Finish, Idle, Work
<1>1. ASSUME NEW p \in Proc, CheckVisit(p) PROVE PartsNext
  BY <1>1 DEF PartsNext, CheckVisit
<1>2. ASSUME NEW p \in Proc, CompleteVisit(p) PROVE PartsNext
  BY <1>2 DEF PartsNext, CompleteVisit
<1>3. ASSUME NEW p \in Proc, CompleteWindow(p) PROVE PartsNext
  BY <1>3 DEF PartsNext, CompleteWindow
<1>4. ASSUME NEW p \in Proc, EndWindow(p) PROVE PartsNext
  <2>1. JobInv'
    BY <1>4 DEF EndWindow, CleanupMarkedWindow
  <2>2. ActivationInv'
    BY <1>4 DEF EndWindow, CleanupMarkedWindow
  <2>3. ClockInv'
    BY <1>4 DEF EndWindow, CleanupMarkedWindow
  <2>4. BoundInv'
    BY <1>4 DEF EndWindow, CleanupMarkedWindow
  <2> QED
    BY <2>1, <2>2, <2>3, <2>4 DEF PartsNext
<1>5. ASSUME NEW p \in Proc, SweepSelect(p) PROVE PartsNext
  BY <1>5 DEF PartsNext, SweepSelect
<1>6. ASSUME NEW p \in Proc, SweepClean(p) PROVE PartsNext
  <2>1. JobInv'
    BY <1>6 DEF SweepClean, CleanupMarkedWindow
  <2>2. ActivationInv'
    BY <1>6 DEF SweepClean, CleanupMarkedWindow
  <2>3. ClockInv'
    BY <1>6 DEF SweepClean, CleanupMarkedWindow
  <2>4. BoundInv'
    BY <1>6 DEF SweepClean, CleanupMarkedWindow
  <2> QED
    BY <2>1, <2>2, <2>3, <2>4 DEF PartsNext
<1>7. ASSUME NEW p \in Proc, DeleteSecret(p) PROVE PartsNext
  BY <1>7 DEF PartsNext, DeleteSecret
<1>8. ASSUME NEW p \in Proc, DeleteSecretFails(p) PROVE PartsNext
  <2>1. JobInv'
    BY <1>8 DEF DeleteSecretFails
  <2>2. ActivationInv'
    BY <1>8 DEF DeleteSecretFails
  <2>3. ClockInv'
    BY <1>8 DEF DeleteSecretFails
  <2>4. BoundInv'
    BY <1>8 DEF DeleteSecretFails
  <2> QED
    BY <2>1, <2>2, <2>3, <2>4 DEF PartsNext
<1>9. ASSUME NEW p \in Proc, Disconnect(p) PROVE PartsNext
  BY <1>9 DEF PartsNext, Disconnect
<1>10. ASSUME NEW p \in Proc, DisconnectFails(p) PROVE PartsNext
  <2>1. JobInv'
    BY <1>10 DEF DisconnectFails
  <2>2. ActivationInv'
    BY <1>10 DEF DisconnectFails
  <2>3. ClockInv'
    BY <1>10 DEF DisconnectFails
  <2>4. BoundInv'
    BY <1>10 DEF DisconnectFails
  <2> QED
    BY <2>1, <2>2, <2>3, <2>4 DEF PartsNext
<1>11. ASSUME NEW p \in Proc, DisconnectNoTarget(p) PROVE PartsNext
  BY <1>11 DEF PartsNext, DisconnectNoTarget
<1>12. ASSUME NEW p \in Proc, ReadBound(p) PROVE PartsNext
  BY <1>12 DEF PartsNext, ReadBound
<1>13. ASSUME NEW p \in Proc, Settle(p) PROVE PartsNext
  <2>1. JobInv'
    BY <1>13 DEF Settle
  <2>2. ActivationInv'
    BY <1>13 DEF Settle
  <2>3. ClockInv'
    BY <1>13 DEF Settle
  <2>4. BoundInv'
    BY <1>13 DEF Settle
  <2> QED
    BY <2>1, <2>2, <2>3, <2>4 DEF PartsNext
<1>14. ASSUME NEW p \in Proc, CancelOrder(p) PROVE PartsNext
  <2>1. NeedsCleanup \in BOOLEAN
    BY ShutdownTypes
  <2>2. JobInv'
    BY <1>14, <2>1 DEF CancelOrder, Shutdown, ShutdownWork, RefuseVisit
  <2>3. ActivationInv'
    BY <1>14, <2>1 DEF CancelOrder, Shutdown, ShutdownWork, RefuseVisit
  <2>4. ClockInv'
    BY <1>14, <2>1 DEF CancelOrder, Shutdown, ShutdownWork, RefuseVisit
  <2>5. BoundInv'
    BY <1>14, <2>1 DEF CancelOrder, Shutdown, ShutdownWork, RefuseVisit
  <2> QED
    BY <2>2, <2>3, <2>4, <2>5 DEF PartsNext
<1>15. ASSUME NEW p \in Proc, CancelUnprepared(p) PROVE PartsNext
  <2>1. NeedsCleanup \in BOOLEAN
    BY ShutdownTypes
  <2>2. JobInv'
    BY <1>15, <2>1 DEF CancelUnprepared, Shutdown, ShutdownWork
  <2>3. ActivationInv'
    BY <1>15, <2>1 DEF CancelUnprepared, Shutdown, ShutdownWork
  <2>4. ClockInv'
    BY <1>15, <2>1 DEF CancelUnprepared, Shutdown, ShutdownWork
  <2>5. BoundInv'
    BY <1>15, <2>1 DEF CancelUnprepared, Shutdown, ShutdownWork
  <2> QED
    BY <2>2, <2>3, <2>4, <2>5 DEF PartsNext
<1>16. ASSUME NEW p \in Proc, ResetToPending(p) PROVE PartsNext
  <2>1. NeedsCleanup \in BOOLEAN
    BY ShutdownTypes
  <2>2. JobInv'
    BY <1>16, <2>1 DEF ResetToPending, Shutdown, ShutdownWork
  <2>3. ActivationInv'
    BY <1>16, <2>1 DEF ResetToPending, Shutdown, ShutdownWork
  <2>4. ClockInv'
    BY <1>16, <2>1 DEF ResetToPending, Shutdown, ShutdownWork
  <2>5. BoundInv'
    BY <1>16, <2>1 DEF ResetToPending, Shutdown, ShutdownWork
  <2> QED
    BY <2>2, <2>3, <2>4, <2>5 DEF PartsNext
<1>17. ASSUME NEW p \in Proc, DeleteContract(p) PROVE PartsNext
  <2>1. NeedsCleanup \in BOOLEAN
    BY ShutdownTypes
  <2>2. JobInv'
    BY <1>17, <2>1 DEF DeleteContract, Shutdown, ShutdownWork
  <2>3. ActivationInv'
    BY <1>17, <2>1 DEF DeleteContract, Shutdown, ShutdownWork
  <2>4. ClockInv'
    BY <1>17, <2>1 DEF DeleteContract, Shutdown, ShutdownWork
  <2>5. BoundInv'
    BY <1>17, <2>1 DEF DeleteContract, Shutdown, ShutdownWork
  <2> QED
    BY <2>2, <2>3, <2>4, <2>5 DEF PartsNext
<1>18. ASSUME NEW p \in Proc, CompleteOrder(p) PROVE PartsNext
  BY <1>18 DEF PartsNext, CompleteOrder
<1>19. ASSUME NEW p \in Proc, Renew(p) PROVE PartsNext
  BY <1>19 DEF PartsNext, Renew
<1>20. ASSUME NEW p \in Proc, RetryPush(p) PROVE PartsNext
  BY <1>20 DEF PartsNext, RetryPush
<1>21. ASSUME NEW p \in Proc, Push(p) PROVE PartsNext
  <2>1. JobInv'
    BY <1>21 DEF Push
  <2>2. ActivationInv'
    BY <1>21 DEF Push
  <2>3. ClockInv'
    BY <1>21 DEF Push
  <2>4. BoundInv'
    BY <1>21 DEF Push
  <2> QED
    BY <2>1, <2>2, <2>3, <2>4 DEF PartsNext
<1>22. ASSUME NEW p \in Proc, ReadForTerminate(p) PROVE PartsNext
  <2>1. JobInv'
    BY <1>22 DEF ReadForTerminate
  <2>2. ActivationInv'
    BY <1>22 DEF ReadForTerminate
  <2>3. ClockInv'
    BY <1>22 DEF ReadForTerminate
  <2>4. BoundInv'
    BY <1>22 DEF ReadForTerminate
  <2> QED
    BY <2>1, <2>2, <2>3, <2>4 DEF PartsNext
<1>23. ASSUME NEW p \in Proc, WriteStatus(p) PROVE PartsNext
  <2>1. NeedsCleanup \in BOOLEAN
    BY ShutdownTypes
  <2>2. JobInv'
    BY <1>23, <2>1 DEF WriteStatus, Writable, Permits, Shutdown, ShutdownWork
  <2>3. ActivationInv'
    BY <1>23, <2>1 DEF WriteStatus, Writable, Permits, Shutdown, ShutdownWork
  <2>4. ClockInv'
    BY <1>23, <2>1 DEF WriteStatus, Writable, Permits, Shutdown, ShutdownWork
  <2>5. BoundInv'
    BY <1>23, <2>1 DEF WriteStatus, Writable, Permits, Shutdown, ShutdownWork
  <2> QED
    BY <2>2, <2>3, <2>4, <2>5 DEF PartsNext
<1>24. ASSUME NEW p \in Proc, ChangeType(p) PROVE PartsNext
  <2>1. NeedsCleanup \in BOOLEAN
    BY ShutdownTypes
  <2>2. JobInv'
    BY <1>24, <2>1 DEF ChangeType, Quiesces, Shutdown, ShutdownWork
  <2>3. ActivationInv'
    BY <1>24, <2>1 DEF ChangeType, Quiesces, Shutdown, ShutdownWork
  <2>4. ClockInv'
    BY <1>24, <2>1 DEF ChangeType, Quiesces, Shutdown, ShutdownWork
  <2>5. BoundInv'
    BY <1>24, <2>1 DEF ChangeType, Quiesces, Shutdown, ShutdownWork
  <2> QED
    BY <2>2, <2>3, <2>4, <2>5 DEF PartsNext
<1>25. ASSUME NEW p \in Proc, UpdateRadius(p) PROVE PartsNext
  BY <1>25 DEF PartsNext, UpdateRadius
<1>26. ASSUME NEW p \in Proc, Kick(p) PROVE PartsNext
  BY <1>26 DEF PartsNext, Kick
<1>27. ASSUME NEW p \in Proc, SyncRead(p) PROVE PartsNext
  BY <1>27 DEF PartsNext, SyncRead, MayAuthenticate
<1>28. ASSUME NEW p \in Proc, SyncDelete(p) PROVE PartsNext
  BY <1>28 DEF PartsNext, SyncDelete
<1>29. ASSUME NEW p \in Proc, SyncPassword(p) PROVE PartsNext
  <2>1. JobInv'
    BY <1>29 DEF SyncPassword
  <2>2. ActivationInv'
    BY <1>29 DEF SyncPassword
  <2>3. ClockInv'
    BY <1>29 DEF SyncPassword
  <2>4. BoundInv'
    BY <1>29 DEF SyncPassword
  <2> QED
    BY <2>1, <2>2, <2>3, <2>4 DEF PartsNext
<1>30. ASSUME NEW p \in Proc, SyncLimit(p) PROVE PartsNext
  BY <1>30 DEF PartsNext, SyncLimit
<1>31. ASSUME NEW p \in Proc, Crash(p) PROVE PartsNext
  BY <1>31 DEF PartsNext, Crash
<1>32. ASSUME NEW p \in Proc, NEW new \in Forms, ReadForUpdate(p, new) PROVE PartsNext
  BY <1>32 DEF PartsNext, ReadForUpdate, Quiesces
<1>33. CASE PrepareActivation
  BY <1>33 DEF PartsNext, PrepareActivation
<1>34. CASE StartOrder
  BY <1>34 DEF PartsNext, StartOrder
<1>35. CASE CancelVisit
  BY <1>35 DEF PartsNext, CancelVisit, RefuseVisit
<1>36. CASE StartWindow
  BY <1>36 DEF PartsNext, StartWindow, Operable
<1>37. CASE RestoreContract
  BY <1>37 DEF PartsNext, RestoreContract
<1>38. CASE Suspend
  BY <1>38 DEF PartsNext, Suspend, Permits, StatusTrigger
<1>39. CASE Reconnect
  BY <1>39 DEF PartsNext, Reconnect
<1>40. CASE Dial
  BY <1>40 DEF PartsNext, Dial, MayAuthenticate
<1>41. CASE HangUp
  BY <1>41 DEF PartsNext, HangUp
<1>42. CASE Elapse
  BY <1>42 DEF PartsNext, Elapse
<1>43. CASE UNCHANGED vars
  BY <1>43 DEF PartsNext, vars
<1> QED
  BY <1>1, <1>2, <1>3, <1>4, <1>5, <1>6, <1>7, <1>8, <1>9, <1>10, <1>11, <1>12, <1>13, <1>14, <1>15, <1>16,
     <1>17, <1>18, <1>19, <1>20, <1>21, <1>22, <1>23, <1>24, <1>25, <1>26, <1>27, <1>28, <1>29, <1>30, <1>31, <1>32,
     <1>33, <1>34, <1>35, <1>36, <1>37, <1>38, <1>39, <1>40, <1>41, <1>42, <1>43
     DEF Next, Request, JobStep, FinalizerStep

-----------------------------------------------------------------------------
(* A new or an imported line satisfies SInv. *)
LEMMA SInvInit == Init => SInv
<1> SUFFICES ASSUME Init PROVE Serial /\ LineInv /\ FlightInv
  BY InvInit DEF SInv
<1> QED
  BY DEF Init, Serial, LineInv, FlightInv, IdleLineIsDark, Watched, Idle, Work, SyncPc, Cleanup

(* While handlers take turns only one has work left.                       *)
LEMMA SerialNext ==
  TypeOK /\ Serial /\ [Next]_vars /\ [TakesTurns]_vars => Serial'
<1> SUFFICES ASSUME TypeOK, Serial, [Next]_vars, [TakesTurns]_vars PROVE Serial'
  OBVIOUS
<1>0. job \in [Proc -> Job] /\ Idle.pc = "idle"
  BY DEF TypeOK, Idle, Work
<1>1. ASSUME NEW p \in Proc, \A q \in Proc : q = p \/ job[q].pc = "idle",
             \A q \in Proc : q = p \/ job'[q] = job[q] \/ job'[q] = Idle
      PROVE  Serial'
  BY <1>0, <1>1 DEF Serial
<1>2. ASSUME NEW p \in Proc, Request(p) \/ SweepSelect(p) \/ JobStep(p) \/ Crash(p)
      PROVE  \A q \in Proc : q = p \/ job'[q] = job[q] \/ job'[q] = Idle
  <2>1. CASE CancelOrder(p)
    BY <1>0, <2>1 DEF CancelOrder, RefuseVisit
  <2>2. CASE ~CancelOrder(p)
    <3>1. \E x : job' = [job EXCEPT ![p] = x]
      BY <1>2, <2>2
      DEF Request, SweepSelect, JobStep, Crash, FinalizerStep, CheckVisit, CompleteWindow,
          EndWindow, SweepClean, CleanupMarkedWindow, CancelUnprepared, ResetToPending,
          DeleteContract, CompleteOrder, Renew, RetryPush, ReadForTerminate, ChangeType, SyncRead,
          ReadForUpdate, DeleteSecret, DeleteSecretFails, Disconnect, DisconnectFails,
          DisconnectNoTarget, ReadBound, Settle, WriteStatus, UpdateRadius, Kick, Push,
          CompleteVisit, SyncDelete, SyncPassword, SyncLimit, Take, Goto, Fail, Finish
    <3> QED
      BY <1>0, <3>1
  <2> QED
    BY <2>1, <2>2
<1>3. ASSUME NEW p \in Proc, JobStep(p) \/ Crash(p)
      PROVE  \A q \in Proc : q = p \/ job[q].pc = "idle"
  <2>1. job[p].pc # "idle"
    BY <1>3
    DEF JobStep, Crash, FinalizerStep, SweepClean, DeleteSecret, DeleteSecretFails, Disconnect,
        DisconnectFails, DisconnectNoTarget, ReadBound, Settle, WriteStatus, UpdateRadius, Kick,
        Push, CompleteVisit, SyncDelete, SyncPassword, SyncLimit
  <2> QED
    BY <2>1 DEF Serial
<1>4. ASSUME NEW p \in Proc, Request(p) \/ SweepSelect(p)
      PROVE  Serial'
  <2>1. CASE UNCHANGED vars
    BY <2>1 DEF vars, Serial
  <2>2. CASE TakesTurns
    BY <1>1, <1>2, <1>4, <2>2 DEF TakesTurns
  <2> QED
    BY <2>1, <2>2
<1>5. CASE CancelVisit
  <2>1. \A q \in Proc : job'[q] = job[q] \/ job'[q] = Idle
    BY <1>0, <1>5 DEF CancelVisit, RefuseVisit
  <2> QED
    BY <1>0, <2>1 DEF Serial
<1>6. CASE UNCHANGED job
  BY <1>6 DEF Serial
<1> QED
  BY <1>1, <1>2, <1>3, <1>4, <1>5, <1>6
  DEF Next, PrepareActivation, StartOrder, StartWindow, RestoreContract, Suspend, Reconnect,
      Dial, HangUp, Elapse, vars

(* While handlers take turns no step breaks SInv.  Without a NAS the       *)
(* release of a marker rests on the elapsed bound, so a password row that  *)
(* radius_sync left without one has to be excluded.                        *)
LEMMA SInvNext ==
  ASSUME HasNas \/ ~Syncs
  PROVE  SInv /\ [Next]_vars /\ [TakesTurns]_vars => SInv'
<1> SUFFICES ASSUME SInv, [Next]_vars, [TakesTurns]_vars PROVE LineInv' /\ FlightInv'
  BY InvNext, SerialNext DEF SInv, Inv
<1>0. Inv /\ Serial /\ Serial' /\ LineInv /\ FlightInv
  BY SerialNext DEF SInv, Inv
<1> HIDE DEF SInv
<1> USE <1>0, LineAssumption
    DEF Inv, TypeOK, JobInv, ActivationInv, ClockInv, BoundInv, LineInv, FlightInv,
        IdleLineIsDark, Watched, Serial, Cleanup, SyncPc, Job, Pc, Terminal, Closing,
        contract, network, field, Take, Goto, Fail, Finish, Idle, Work
<1>1. ASSUME NEW p \in Proc, CheckVisit(p) PROVE LineInv' /\ FlightInv'
  <2>1. LineInv'
    BY <1>1 DEF CheckVisit
  <2>2. FlightInv'
    BY <1>1 DEF CheckVisit
  <2> QED
    BY <2>1, <2>2
<1>2. ASSUME NEW p \in Proc, CompleteVisit(p) PROVE LineInv' /\ FlightInv'
  <2>1. LineInv'
    BY <1>2 DEF CompleteVisit
  <2>2. FlightInv'
    BY <1>2 DEF CompleteVisit
  <2> QED
    BY <2>1, <2>2
<1>3. ASSUME NEW p \in Proc, CompleteWindow(p) PROVE LineInv' /\ FlightInv'
  <2>1. LineInv'
    BY <1>3 DEF CompleteWindow
  <2>2. FlightInv'
    BY <1>3 DEF CompleteWindow
  <2> QED
    BY <2>1, <2>2
<1>4. ASSUME NEW p \in Proc, EndWindow(p) PROVE LineInv' /\ FlightInv'
  <2>1. LineInv'
    BY <1>4 DEF EndWindow, CleanupMarkedWindow
  <2>2. FlightInv'
    BY <1>4 DEF EndWindow, CleanupMarkedWindow
  <2> QED
    BY <2>1, <2>2
<1>5. ASSUME NEW p \in Proc, SweepSelect(p) PROVE LineInv' /\ FlightInv'
  <2>1. LineInv'
    BY <1>5 DEF SweepSelect
  <2>2. FlightInv'
    BY <1>5 DEF SweepSelect
  <2> QED
    BY <2>1, <2>2
<1>6. ASSUME NEW p \in Proc, SweepClean(p) PROVE LineInv' /\ FlightInv'
  <2>1. LineInv'
    BY <1>6 DEF SweepClean, CleanupMarkedWindow
  <2>2. FlightInv'
    BY <1>6 DEF SweepClean, CleanupMarkedWindow
  <2> QED
    BY <2>1, <2>2
<1>7. ASSUME NEW p \in Proc, DeleteSecret(p) PROVE LineInv' /\ FlightInv'
  <2>1. LineInv'
    BY <1>7 DEF DeleteSecret
  <2>2. FlightInv'
    BY <1>7 DEF DeleteSecret
  <2> QED
    BY <2>1, <2>2
<1>8. ASSUME NEW p \in Proc, DeleteSecretFails(p) PROVE LineInv' /\ FlightInv'
  <2>1. LineInv'
    BY <1>8 DEF DeleteSecretFails
  <2>2. FlightInv'
    BY <1>8 DEF DeleteSecretFails
  <2> QED
    BY <2>1, <2>2
<1>9. ASSUME NEW p \in Proc, Disconnect(p) PROVE LineInv' /\ FlightInv'
  <2>1. LineInv'
    BY <1>9 DEF Disconnect
  <2>2. FlightInv'
    BY <1>9 DEF Disconnect
  <2> QED
    BY <2>1, <2>2
<1>10. ASSUME NEW p \in Proc, DisconnectFails(p) PROVE LineInv' /\ FlightInv'
  <2>1. LineInv'
    BY <1>10 DEF DisconnectFails
  <2>2. FlightInv'
    BY <1>10 DEF DisconnectFails
  <2> QED
    BY <2>1, <2>2
<1>11. ASSUME NEW p \in Proc, DisconnectNoTarget(p) PROVE LineInv' /\ FlightInv'
  <2>1. LineInv'
    BY <1>11 DEF DisconnectNoTarget
  <2>2. FlightInv'
    BY <1>11 DEF DisconnectNoTarget
  <2> QED
    BY <2>1, <2>2
<1>12. ASSUME NEW p \in Proc, ReadBound(p) PROVE LineInv' /\ FlightInv'
  <2>1. LineInv'
    BY <1>12 DEF ReadBound
  <2>2. FlightInv'
    BY <1>12 DEF ReadBound
  <2> QED
    BY <2>1, <2>2
<1>13. ASSUME NEW p \in Proc, Settle(p) PROVE LineInv' /\ FlightInv'
  <2>1. LineInv'
    BY <1>13 DEF Settle
  <2>2. FlightInv'
    BY <1>13 DEF Settle
  <2> QED
    BY <2>1, <2>2
<1>14. ASSUME NEW p \in Proc, CancelOrder(p) PROVE LineInv' /\ FlightInv'
  <2>1. CASE status = "pending"
    <3>1. LineInv'
      BY <1>14, <2>1 DEF CancelOrder, Shutdown
    <3>2. ~deleted' /\ (\A q \in Proc : job'[q].pc # "idle" => q = p)
      BY <1>14, <2>1 DEF CancelOrder, ShutdownWork
    <3>3. job'[p] = ShutdownWork(Work("kick")) /\ marker' = NeedsCleanup
      BY <1>14, <2>1 DEF CancelOrder, Shutdown
    <3>4. FlightInv'
      BY <3>2, <3>3 DEF ShutdownWork
    <3> QED
      BY <3>1, <3>4
  <2>2. CASE status # "pending"
    <3>1. LineInv'
      BY <1>14, <2>2 DEF CancelOrder
    <3>2. FlightInv'
      BY <1>14, <2>2 DEF CancelOrder, RefuseVisit
    <3> QED
      BY <3>1, <3>2
  <2> QED
    BY <2>1, <2>2
<1>15. ASSUME NEW p \in Proc, CancelUnprepared(p) PROVE LineInv' /\ FlightInv'
  <2>1. LineInv'
    BY <1>15 DEF CancelUnprepared, Shutdown, ShutdownWork, NeedsCleanup
  <2>2. FlightInv'
    BY <1>15 DEF CancelUnprepared, Shutdown, ShutdownWork, NeedsCleanup
  <2> QED
    BY <2>1, <2>2
<1>16. ASSUME NEW p \in Proc, ResetToPending(p) PROVE LineInv' /\ FlightInv'
  <2>1. LineInv'
    BY <1>16 DEF ResetToPending, Shutdown, ShutdownWork, NeedsCleanup
  <2>2. FlightInv'
    BY <1>16 DEF ResetToPending, Shutdown, ShutdownWork, NeedsCleanup
  <2> QED
    BY <2>1, <2>2
<1>17. ASSUME NEW p \in Proc, DeleteContract(p) PROVE LineInv' /\ FlightInv'
  <2>1. LineInv'
    BY <1>17 DEF DeleteContract, Shutdown, ShutdownWork, NeedsCleanup
  <2>2. FlightInv'
    BY <1>17 DEF DeleteContract, Shutdown, ShutdownWork, NeedsCleanup
  <2> QED
    BY <2>1, <2>2
<1>18. ASSUME NEW p \in Proc, CompleteOrder(p) PROVE LineInv' /\ FlightInv'
  <2>1. LineInv'
    BY <1>18 DEF CompleteOrder
  <2>2. FlightInv'
    <3>1. \A q \in Proc : q = p \/ job[q].pc = "idle"
      <4>1. job'[p] # job[p] \/ status' # status
        BY <1>18 DEF CompleteOrder
      <4>2. Request(p) /\ TakesTurns
        BY <1>18, <4>1 DEF Request, vars
      <4> QED
        BY <4>2 DEF TakesTurns
    <3> QED
      BY <1>18, <3>1 DEF CompleteOrder
  <2> QED
    BY <2>1, <2>2
<1>19. ASSUME NEW p \in Proc, Renew(p) PROVE LineInv' /\ FlightInv'
  <2>1. LineInv'
    BY <1>19 DEF Renew
  <2>2. FlightInv'
    BY <1>19 DEF Renew
  <2> QED
    BY <2>1, <2>2
<1>20. ASSUME NEW p \in Proc, RetryPush(p) PROVE LineInv' /\ FlightInv'
  <2>1. LineInv'
    BY <1>20 DEF RetryPush
  <2>2. FlightInv'
    BY <1>20 DEF RetryPush
  <2> QED
    BY <2>1, <2>2
<1>21. ASSUME NEW p \in Proc, Push(p) PROVE LineInv' /\ FlightInv'
  <2>1. LineInv'
    BY <1>21 DEF Push
  <2>2. FlightInv'
    BY <1>21 DEF Push
  <2> QED
    BY <2>1, <2>2
<1>22. ASSUME NEW p \in Proc, ReadForTerminate(p) PROVE LineInv' /\ FlightInv'
  <2>1. LineInv'
    BY <1>22 DEF ReadForTerminate
  <2>2. FlightInv'
    BY <1>22 DEF ReadForTerminate
  <2> QED
    BY <2>1, <2>2
<1>23. ASSUME NEW p \in Proc, WriteStatus(p) PROVE LineInv' /\ FlightInv'
  <2>0. \A q \in Proc : q # p => job[q].pc = "idle"
    BY <1>23 DEF WriteStatus
  <2>1. CASE Writable(p) /\ job[p].ok
    <3>1. ~deleted' /\ status' \in Closing /\ secret' = secret
      BY <1>23, <2>1 DEF WriteStatus, Writable, Shutdown
    <3>2. marker' = NeedsCleanup /\ \A q \in Proc : q # p => job'[q].pc = "idle"
      BY <1>23, <2>0, <2>1 DEF WriteStatus, Shutdown
    <3>3. job'[p].pc \in {"idle", IF NeedsCleanup THEN "nas" ELSE "radius"}
      BY <1>23, <2>1 DEF WriteStatus, ShutdownWork
    <3>4. activated' = activated /\ expires' \in {expires, "null"}
      BY <1>23, <2>1 DEF WriteStatus, Shutdown
    <3> QED
      BY <3>1, <3>2, <3>3, <3>4
  <2>2. CASE Writable(p) /\ ~job[p].ok
    <3>1. /\ ~deleted' /\ status' = job[p].new /\ job[p].new \in Status
          /\ UNCHANGED <<activated, expires, marker, radius, rows, secret, session, bound>>
      BY <1>23, <2>2 DEF WriteStatus, Writable
    <3>2. \A q \in Proc : job'[q].pc \in {"idle", "radius"}
      BY <1>23, <2>0, <2>2 DEF WriteStatus
    <3>3. CASE status' # "pending"
      BY <3>1, <3>2, <3>3
    <3>4. CASE status' = "pending"
      <4>1. status = "pending" /\ ~deleted
        BY <1>23, <2>2, <3>1, <3>4 DEF WriteStatus, Writable
      <4> QED
        BY <3>1, <3>2, <3>4, <4>1
    <3> QED
      BY <3>3, <3>4
  <2>3. CASE ~Writable(p)
    <3>1. LineInv'
      BY <1>23, <2>3 DEF WriteStatus
    <3>2. \A q \in Proc : job'[q].pc = "idle"
      BY <1>23, <2>0, <2>3 DEF WriteStatus
    <3> QED
      BY <3>1, <3>2
  <2> QED
    BY <2>1, <2>2, <2>3
<1>24. ASSUME NEW p \in Proc, ChangeType(p) PROVE LineInv' /\ FlightInv'
  <2>1. LineInv'
    BY <1>24 DEF ChangeType, Quiesces, Shutdown, ShutdownWork, NeedsCleanup
  <2>2. FlightInv'
    BY <1>24 DEF ChangeType, Quiesces, Shutdown, ShutdownWork, NeedsCleanup
  <2> QED
    BY <2>1, <2>2
<1>25. ASSUME NEW p \in Proc, UpdateRadius(p) PROVE LineInv' /\ FlightInv'
  <2>1. LineInv'
    BY <1>25 DEF UpdateRadius
  <2>2. FlightInv'
    BY <1>25 DEF UpdateRadius
  <2> QED
    BY <2>1, <2>2
<1>26. ASSUME NEW p \in Proc, Kick(p) PROVE LineInv' /\ FlightInv'
  <2>1. LineInv'
    BY <1>26 DEF Kick
  <2>2. FlightInv'
    BY <1>26 DEF Kick
  <2> QED
    BY <2>1, <2>2
<1>27. ASSUME NEW p \in Proc, SyncRead(p) PROVE LineInv' /\ FlightInv'
  <2>1. LineInv'
    BY <1>27 DEF SyncRead, MayAuthenticate
  <2>2. FlightInv'
    BY <1>27 DEF SyncRead, MayAuthenticate
  <2> QED
    BY <2>1, <2>2
<1>28. ASSUME NEW p \in Proc, SyncDelete(p) PROVE LineInv' /\ FlightInv'
  <2>1. LineInv'
    BY <1>28 DEF SyncDelete
  <2>2. FlightInv'
    BY <1>28 DEF SyncDelete
  <2> QED
    BY <2>1, <2>2
<1>29. ASSUME NEW p \in Proc, SyncPassword(p) PROVE LineInv' /\ FlightInv'
  <2>1. LineInv'
    BY <1>29 DEF SyncPassword
  <2>2. FlightInv'
    BY <1>29 DEF SyncPassword
  <2> QED
    BY <2>1, <2>2
<1>30. ASSUME NEW p \in Proc, SyncLimit(p) PROVE LineInv' /\ FlightInv'
  <2>1. LineInv'
    BY <1>30 DEF SyncLimit
  <2>2. FlightInv'
    BY <1>30 DEF SyncLimit
  <2> QED
    BY <2>1, <2>2
<1>31. ASSUME NEW p \in Proc, Crash(p) PROVE LineInv' /\ FlightInv'
  <2>1. LineInv'
    BY <1>31 DEF Crash
  <2>2. FlightInv'
    BY <1>31 DEF Crash
  <2> QED
    BY <2>1, <2>2
<1>32. ASSUME NEW p \in Proc, NEW new \in Forms, ReadForUpdate(p, new) PROVE LineInv' /\ FlightInv'
  <2>1. LineInv'
    BY <1>32 DEF ReadForUpdate, Quiesces
  <2>2. FlightInv'
    BY <1>32 DEF ReadForUpdate, Quiesces
  <2> QED
    BY <2>1, <2>2
<1>33. CASE PrepareActivation
  <2>1. LineInv'
    BY <1>33 DEF PrepareActivation
  <2>2. FlightInv'
    BY <1>33 DEF PrepareActivation
  <2> QED
    BY <2>1, <2>2
<1>34. CASE StartOrder
  <2>1. LineInv'
    BY <1>34 DEF StartOrder
  <2>2. FlightInv'
    BY <1>34 DEF StartOrder
  <2> QED
    BY <2>1, <2>2
<1>35. CASE CancelVisit
  <2>1. LineInv'
    BY <1>35 DEF CancelVisit, RefuseVisit
  <2>2. FlightInv'
    BY <1>35 DEF CancelVisit, RefuseVisit
  <2> QED
    BY <2>1, <2>2
<1>36. CASE StartWindow
  <2>1. LineInv'
    BY <1>36 DEF StartWindow, Operable
  <2>2. FlightInv'
    BY <1>36 DEF StartWindow, Operable
  <2> QED
    BY <2>1, <2>2
<1>37. CASE RestoreContract
  <2>1. LineInv'
    BY <1>37 DEF RestoreContract
  <2>2. FlightInv'
    BY <1>37 DEF RestoreContract
  <2> QED
    BY <2>1, <2>2
<1>38. CASE Suspend
  <2>1. LineInv'
    BY <1>38 DEF Suspend, Permits, StatusTrigger
  <2>2. FlightInv'
    BY <1>38 DEF Suspend, Permits, StatusTrigger
  <2> QED
    BY <2>1, <2>2
<1>39. CASE Reconnect
  <2>1. LineInv'
    BY <1>39 DEF Reconnect
  <2>2. FlightInv'
    BY <1>39 DEF Reconnect
  <2> QED
    BY <2>1, <2>2
<1>40. CASE Dial
  <2>1. LineInv'
    BY <1>40 DEF Dial, MayAuthenticate
  <2>2. FlightInv'
    BY <1>40 DEF Dial, MayAuthenticate
  <2> QED
    BY <2>1, <2>2
<1>41. CASE HangUp
  <2>1. LineInv'
    BY <1>41 DEF HangUp
  <2>2. FlightInv'
    BY <1>41 DEF HangUp
  <2> QED
    BY <2>1, <2>2
<1>42. CASE Elapse
  <2>1. LineInv'
    BY <1>42 DEF Elapse
  <2>2. FlightInv'
    BY <1>42 DEF Elapse
  <2> QED
    BY <2>1, <2>2
<1>43. CASE UNCHANGED vars
  BY <1>43 DEF vars
<1> QED
  BY <1>1, <1>2, <1>3, <1>4, <1>5, <1>6, <1>7, <1>8, <1>9, <1>10, <1>11, <1>12, <1>13, <1>14, <1>15, <1>16,
     <1>17, <1>18, <1>19, <1>20, <1>21, <1>22, <1>23, <1>24, <1>25, <1>26, <1>27, <1>28, <1>29, <1>30, <1>31, <1>32,
     <1>33, <1>34, <1>35, <1>36, <1>37, <1>38, <1>39, <1>40, <1>41, <1>42, <1>43
     DEF Next, Request, JobStep, FinalizerStep

-----------------------------------------------------------------------------
(* Type correctness of the line's state. *)
THEOREM LineTypeCorrect == Spec => []TypeOK
<1>1. Inv => TypeOK
  BY DEF Inv
<1> QED
  BY <1>1, InvInit, InvNext, PTL DEF Spec

(* For every number of requests and workers, and whatever crashes and      *)
(* fails, a line that completeOrder never activated is not active, has no  *)
(* RouterOS secret and is accepted by findSubscriber within a running      *)
(* window only.                                                            *)
THEOREM ServiceNeedsActivation == Spec => []NoServiceBeforeActivation
<1>1. Inv => NoServiceBeforeActivation
  BY DEF Inv, ActivationInv, ClockInv, NoServiceBeforeActivation, MayAuthenticate
<1> QED
  BY <1>1, InvInit, InvNext, PTL DEF Spec

(* Where syncFreeradiusTables does not run, the transaction of startWindow *)
(* is the only source of a pending line's rows, and they are bounded.      *)
THEOREM WindowIsBounded ==
  ASSUME ~Syncs
  PROVE  Spec => []BoundedUntilActivated
<1>1. Inv => BoundedUntilActivated
  BY DEF Inv, BoundInv, BoundedUntilActivated
<1> QED
  BY <1>1, InvInit, InvNext, PTL DEF Spec

(* While handlers take turns, finalizeMarkedCleanup releases the marker of *)
(* a line only when nothing is left of its access, crashes, unanswered     *)
(* routers and lines restored or suspended in between included.            *)
THEOREM ReleasedLineIsDark ==
  ASSUME HasNas \/ ~Syncs
  PROVE  Spec /\ [][TakesTurns]_vars => []IdleLineIsDark
<1>1. SInv => IdleLineIsDark
  BY DEF SInv, LineInv
<1> QED
  BY <1>1, SInvInit, SInvNext, PTL DEF Spec
=============================================================================
