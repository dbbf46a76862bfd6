--------------------------- MODULE DunningProofs ---------------------------
(***************************************************************************)
(* What holds of suspension and reconnection for every set of contracts,   *)
(* due days and rules, every number of requests and every length of time.  *)
(*                                                                         *)
(* Inv is inductive.  CutInv says how far a suspension by PUT has come:    *)
(* status, account and log row are three statements, and after each of     *)
(* them a different part of SuspendedLineIsCut is still owed.  CronInv and *)
(* FailInv count the scheduled runs: one a day, and none fails that has    *)
(* not started.                                                            *)
(***************************************************************************)
EXTENDS Dunning, TLAPS

CronInv ==
    /\ job[Cron].pc \in {"idle", "loop", "act"}
    /\ job[Cron] # Idle => ran

FailInv == ~ran \/ job[Cron] # Idle => failed < day

\* Request q has written the status of c and is about to run statement l.
At(q, l, c) == job[q].pc = l /\ job[q].c = c /\ job[q].new = "suspended"

Cut(c) ==
    status[c] = "suspended" =>
        \/ c \in torn
        \/ \E q \in Request : At(q, "radius", c)
        \/ /\ radius[c] # "active"
           /\ "hard" \in open[c] \/ \E q \in Request : At(q, "log", c)

CutInv == \A c \in Contract : Cut(c)

Inv == TypeOK /\ CronInv /\ FailInv /\ CutInv

----------------------------------------------------------------------------
(* What a process holds, by the statement it is about to run. *)
LEMMA JobFields ==
    ASSUME NEW j \in Job
    PROVE  /\ j.pc = "loop" => j.rules \subseteq Rule /\ j.list \subseteq Entry
           /\ j.pc = "act" => j.entry \in Entry /\ j.entry.contract \in Contract
                              /\ j.list \subseteq Entry
           /\ j.pc \in {"paid", "reconnect", "lift", "write", "radius", "log"} =>
                  j.c \in Contract
           /\ j.pc = "write" => /\ j.new \in {"active", "suspended", "closed"}
                                /\ j.new # j.was => j.new \in {"suspended", "closed"}
           /\ j.pc \in {"radius", "log"} => j.new \in {"suspended", "closed"}
           /\ j.pc # "idle" => j # Idle
<1>1. j.pc = "loop" => j.rules \subseteq Rule /\ j.list \subseteq Entry
  BY DEF Job, Idle
<1>2. j.pc = "act" => j.entry \in Entry /\ j.list \subseteq Entry
  BY DEF Job, Idle
<1>3. \A e \in Entry : e.contract \in Contract
  BY DEF Entry
<1>4. j.pc \in {"paid", "reconnect", "lift", "write", "radius", "log"} => j.c \in Contract
  BY DEF Job, Idle
<1>5. /\ j.pc = "write" => /\ j.new \in {"active", "suspended", "closed"}
                           /\ j.new # j.was => j.new \in {"suspended", "closed"}
      /\ j.pc \in {"radius", "log"} => j.new \in {"suspended", "closed"}
  BY DEF Job, Idle
<1>6. j.pc # "idle" => j # Idle
  BY DEF Idle
<1> QED
  BY <1>1, <1>2, <1>3, <1>4, <1>5, <1>6

(* A process with nothing to do. *)
LEMMA IdleJob == Idle \in Job /\ Idle.pc = "idle"
  BY DEF Job, Idle

(* What a process may be given to do. *)
LEMMA JobMake ==
    /\ Idle \in Job /\ Idle.pc = "idle"
    /\ \A rules \in SUBSET Rule, list \in SUBSET Entry :
           Loop(rules, list) \in Job /\ Loop(rules, list).pc \in {"idle", "loop"}
    /\ \A e \in Entry, list \in SUBSET Entry :
           [pc |-> "act", entry |-> e, list |-> list] \in Job
    /\ \A l \in {"paid", "reconnect", "lift"}, c \in Contract : [pc |-> l, c |-> c] \in Job
    /\ \A c \in Contract : \A new, was \in {"active", "suspended", "closed"} :
           (new = "active" => was = "active") =>
               [pc |-> "write", c |-> c, new |-> new, was |-> was] \in Job
<1>1. Idle \in Job /\ Idle.pc = "idle"
  BY IdleJob
<1>2. ASSUME NEW rules \in SUBSET Rule, NEW list \in SUBSET Entry
      PROVE  Loop(rules, list) \in Job /\ Loop(rules, list).pc \in {"idle", "loop"}
  BY <1>1 DEF Loop, Job
<1>3. ASSUME NEW e \in Entry, NEW list \in SUBSET Entry
      PROVE  [pc |-> "act", entry |-> e, list |-> list] \in Job
  BY DEF Job
<1>4. ASSUME NEW l \in {"paid", "reconnect", "lift"}, NEW c \in Contract
      PROVE  [pc |-> l, c |-> c] \in Job
  BY DEF Job
<1>5. ASSUME NEW c \in Contract, NEW new \in {"active", "suspended", "closed"},
             NEW was \in {"active", "suspended", "closed"}, new = "active" => was = "active"
      PROVE  [pc |-> "write", c |-> c, new |-> new, was |-> was] \in Job
  <2>1. CASE new = "active"
    BY <1>5, <2>1 DEF Job
  <2>2. CASE new \in {"suspended", "closed"}
    BY <2>2 DEF Job
  <2> QED
    BY <2>1, <2>2
<1> QED
  BY <1>1, <1>2, <1>3, <1>4, <1>5

(* The next statement of an edit. *)
LEMMA EditMoves ==
    ASSUME NEW j \in Job, j.pc \in {"write", "radius"}, j.pc = "write" => j.new # j.was,
           NEW l \in {"radius", "log"}
    PROVE  LET k == [j EXCEPT !.pc = l]
           IN  k \in Job /\ k.pc = l /\ k.c = j.c /\ k.new = j.new
<1>1. j \in [pc : {"write", "radius", "log"}, c : Contract, new : {"suspended", "closed"},
            was : {"active", "suspended", "closed"}]
  BY DEF Job, Idle
<1> QED
  BY <1>1 DEF Job

----------------------------------------------------------------------------
(* Where a step takes the process that makes it: within its types, and     *)
(* from the loop over rules and debtors never into an edit.                *)
LEMMA StepMoves ==
    ASSUME TypeOK, NEW p \in Proc, Step(p)
    PROVE  \E x \in Job : /\ job' = [job EXCEPT ![p] = x]
                          /\ job[p] # Idle
                          /\ job[p].pc \in {"loop", "act"} => x.pc \in {"idle", "loop", "act"}
                          /\ x.pc \in {"radius", "log"} => WriteStatus(p) \/ WriteRadius(p)
<1> DEFINE To(x) == /\ job' = [job EXCEPT ![p] = x]
                    /\ job[p] # Idle
                    /\ job[p].pc \in {"loop", "act"} => x.pc \in {"idle", "loop", "act"}
                    /\ x.pc \in {"radius", "log"} => WriteStatus(p) \/ WriteRadius(p)
<1>0. job[p] \in Job
  BY DEF TypeOK
<1>1. ASSUME Goto(p, Idle), job[p].pc # "idle" PROVE \E x \in Job : To(x)
  BY <1>0, <1>1, JobFields, JobMake DEF Goto
<1>2. ASSUME NEW rules \in SUBSET Rule, NEW list \in SUBSET Entry, Goto(p, Loop(rules, list)),
             job[p].pc # "idle"
      PROVE  \E x \in Job : To(x)
  <2>1. Loop(rules, list) \in Job /\ Loop(rules, list).pc \in {"idle", "loop"}
    BY JobMake
  <2>2. To(Loop(rules, list))
    BY <1>0, <1>2, <2>1, JobFields DEF Goto
  <2> QED
    BY <2>1, <2>2
<1>3. ASSUME NEW l \in {"reconnect", "lift"}, NEW c \in Contract, Goto(p, [pc |-> l, c |-> c]),
             job[p].pc \in {"paid", "reconnect"}
      PROVE  \E x \in Job : To(x)
  <2> DEFINE x == [pc |-> l, c |-> c]
  <2>1. x \in Job /\ x.pc \notin {"radius", "log"}
    BY JobMake
  <2> HIDE DEF x
  <2>2. To(x)
    BY <1>0, <1>3, <2>1, JobFields DEF Goto, x
  <2> QED
    BY <2>1, <2>2
<1>4. ASSUME ReadRule(p) PROVE \E x \in Job : To(x)
  <2>1. PICK r \in job[p].rules :
          Goto(p, Loop(job[p].rules \ {r}, job[p].list \cup
              {[rule |-> r, contract |-> c] : c \in {d \in Contract : Listed(d, r)}}))
    BY <1>4 DEF ReadRule
  <2>2. job[p].rules \subseteq Rule /\ job[p].list \subseteq Entry /\ job[p].pc = "loop"
    BY <1>0, <1>4, JobFields DEF ReadRule
  <2>3. {[rule |-> r, contract |-> c] : c \in {d \in Contract : Listed(d, r)}} \subseteq Entry
    BY <2>2 DEF Entry
  <2> QED
    BY <1>2, <2>1, <2>2, <2>3
<1>5. ASSUME CheckEntry(p) PROVE \E x \in Job : To(x)
  <2>1. PICK e \in job[p].list :
          Goto(p, IF exempt[e.contract] \/ e.rule.action \in {"auto_disconnect", "notify_only"}
                  THEN Loop({}, job[p].list \ {e})
                  ELSE [pc |-> "act", entry |-> e, list |-> job[p].list \ {e}])
    BY <1>5 DEF CheckEntry
  <2>2. job[p].list \subseteq Entry /\ job[p].pc = "loop"
    BY <1>0, <1>5, JobFields DEF CheckEntry
  <2>3. CASE Goto(p, Loop({}, job[p].list \ {e}))
    BY <1>2, <2>2, <2>3
  <2>4. CASE Goto(p, [pc |-> "act", entry |-> e, list |-> job[p].list \ {e}])
    <3> DEFINE x == [pc |-> "act", entry |-> e, list |-> job[p].list \ {e}]
    <3>1. x \in Job /\ x.pc = "act"
      BY <2>2, JobMake
    <3> HIDE DEF x
    <3>2. To(x)
      BY <1>0, <2>2, <2>4, <3>1, JobFields DEF Goto, x
    <3> QED
      BY <3>1, <3>2
  <2> QED
    BY <2>1, <2>3, <2>4
<1>6. ASSUME SuspendContract(p) \/ Restrict(p, "soft_suspend", "soft")
               \/ Restrict(p, "walled_garden", "walled")
      PROVE  \E x \in Job : To(x)
  <2>1. job[p].pc = "act" /\ Goto(p, Loop({}, job[p].list))
    BY <1>6 DEF SuspendContract, Restrict
  <2>2. job[p].list \subseteq Entry
    BY <1>0, <2>1, JobFields
  <2> QED
    BY <1>2, <2>1, <2>2
<1>7. ASSUME SuspendRefused(p) \/ Lift(p) \/ WriteLog(p) PROVE \E x \in Job : To(x)
  BY <1>1, <1>7 DEF SuspendRefused, Lift, WriteLog
<1>8. ASSUME ReconnectIfSuspended(p) \/ ReconnectContract(p) PROVE \E x \in Job : To(x)
  <2>1. job[p].pc \in {"paid", "reconnect"} /\ job[p].c \in Contract
    BY <1>0, <1>8, JobFields DEF ReconnectIfSuspended, ReconnectContract
  <2>2. \/ Goto(p, Idle) \/ Goto(p, [pc |-> "reconnect", c |-> job[p].c])
        \/ Goto(p, [pc |-> "lift", c |-> job[p].c])
    BY <1>8 DEF ReconnectIfSuspended, ReconnectContract
  <2> QED
    BY <1>1, <1>3, <2>1, <2>2
<1>9. ASSUME WriteStatus(p) \/ WriteRadius(p) PROVE \E x \in Job : To(x)
  <2>1. job[p].pc \in {"write", "radius"}
    BY <1>9 DEF WriteStatus, WriteRadius
  <2>2. \/ Goto(p, Idle)
        \/ /\ job[p].pc = "write" => ~Same(p)
           /\ \E l \in {"radius", "log"} : Goto(p, [job[p] EXCEPT !.pc = l])
    BY <1>9 DEF WriteStatus, WriteRadius
  <2>3. ASSUME job[p].pc = "write" => ~Same(p),
               NEW l \in {"radius", "log"}, Goto(p, [job[p] EXCEPT !.pc = l])
        PROVE  \E x \in Job : To(x)
    <3>1. [job[p] EXCEPT !.pc = l] \in Job
      BY <1>0, <2>1, <2>3, EditMoves DEF Same
    <3>2. To([job[p] EXCEPT !.pc = l])
      BY <1>0, <1>9, <2>1, <2>3, JobFields DEF Goto
    <3> QED
      BY <3>1, <3>2
  <2> QED
    BY <1>1, <2>1, <2>2, <2>3
<1> QED
  BY <1>4, <1>5, <1>6, <1>7, <1>8, <1>9 DEF Step

(* A request begins on a process that had nothing to do. *)
LEMMA BeginMoves ==
    ASSUME TypeOK, NEW q \in Request, Begin(q)
    PROVE  /\ job[q] = Idle
           /\ asked' \in 0 .. MaxRequests
           /\ \E x \in Job : /\ job' = [job EXCEPT ![q] = x]
                             /\ x.pc \notin {"radius", "log"}
<1> DEFINE Good == \E x \in Job : job' = [job EXCEPT ![q] = x] /\ x.pc \notin {"radius", "log"}
<1>0. q \in Proc /\ job \in [Proc -> Job]
  BY DEF Proc, TypeOK
<1>1. Ask(q)
  BY DEF Begin, RunAuto, AskSuspend, Pay, Settle, ReopenInvoice, SetExempt, AskReconnect,
         Renew, ReadForEdit
<1>2. job[q] = Idle /\ asked' \in 0 .. MaxRequests
  BY <1>1, DunningAssumption DEF Ask, TypeOK
<1>3. ASSUME RunAuto(q) PROVE Good
  BY <1>3, JobMake DEF RunAuto, Goto
<1>4. ASSUME NEW c \in Contract, NEW a \in Action, AskSuspend(q, c, a) PROVE Good
  <2>1. [rule |-> [after |-> 0, grace |-> 0, action |-> a], contract |-> c] \in Entry
    BY DEF Entry
  <2> QED
    BY <1>4, <2>1, JobMake DEF AskSuspend, Goto
<1>5. ASSUME NEW c \in Contract, Pay(q, c) \/ AskReconnect(q, c) PROVE Good
  <2>1. PICK l \in {"paid", "reconnect"} : Goto(q, [pc |-> l, c |-> c])
    BY <1>5 DEF Pay, AskReconnect
  <2>2. [pc |-> l, c |-> c] \in Job
    BY JobMake
  <2> QED
    BY <2>1, <2>2 DEF Goto
<1>6. ASSUME NEW c \in Contract, NEW new \in {"active", "suspended", "closed"},
             ReadForEdit(q, c, new)
      PROVE  Good
  <2> DEFINE x == [pc |-> "write", c |-> c, new |-> new, was |-> status[c]]
  <2>1. job' = [job EXCEPT ![q] = x] /\ (new = "active" => status[c] = "active")
    BY <1>6 DEF ReadForEdit, Goto
  <2>2. status[c] \in {"active", "suspended", "closed"}
    BY DEF TypeOK
  <2>3. x \in Job /\ x.pc = "write"
    BY <2>1, <2>2, JobMake
  <2> HIDE DEF x
  <2> QED
    BY <2>1, <2>3
<1>7. ASSUME job' = job PROVE Good
  <2>1. job' = [job EXCEPT ![q] = Idle]
    BY <1>0, <1>2, <1>7
  <2> QED
    BY <2>1, JobMake
<1>8. Good
  BY <1>3, <1>4, <1>5, <1>6, <1>7
  DEF Begin, Settle, ReopenInvoice, SetExempt, Renew, Action
<1> QED
  BY <1>2, <1>8

----------------------------------------------------------------------------
(* The first state. *)
LEMMA InvInit == Init => Inv
<1> SUFFICES ASSUME Init PROVE Inv
  OBVIOUS
<1>1. TypeOK
  <2>1. job \in [Proc -> Job]
    BY JobMake DEF Init
  <2>2. exempt \in [Contract -> BOOLEAN] /\ open \in [Contract -> SUBSET Kind]
    BY DEF Init
  <2>3. /\ 0 \in 0 .. MaxRequests /\ 0 \in 0 .. MaxFaults /\ 1 \in 1 .. MaxDay /\ 0 \in 0 .. 1
    BY DunningAssumption
  <2>4. /\ asked \in 0 .. MaxRequests /\ faults \in 0 .. MaxFaults
        /\ day \in 1 .. MaxDay /\ failed \in 0 .. day /\ torn \subseteq Contract
    BY <2>3 DEF Init
  <2>5. ran \in BOOLEAN
    BY Zenon DEF Init
  <2> QED
    BY <2>1, <2>2, <2>4, <2>5 DEF Init, TypeOK
<1>2. job[Cron] = Idle /\ Idle.pc = "idle"
  BY JobMake DEF Init, Proc
<1>3. CronInv /\ FailInv
  BY <1>2 DEF Init, CronInv, FailInv
<1>4. CutInv
  BY DEF Init, CutInv, Cut
<1> QED
  BY <1>1, <1>3, <1>4 DEF Inv

(* What a step leaves of the clock and the counters. *)
LEMMA StepCounts ==
    ASSUME TypeOK, NEW p \in Proc, Step(p)
    PROVE  /\ UNCHANGED <<invoice, exempt, day, ran, asked>> /\ faults' \in 0 .. MaxFaults
           /\ failed' = failed \/ (p = Cron /\ failed' = failed + 1 /\ job' = [job EXCEPT ![p] = Idle])
<1>1. faults \in 0 .. MaxFaults
  BY DEF TypeOK
<1>2. ASSUME ReadRule(p) \/ CheckEntry(p) \/ SuspendContract(p)
               \/ Restrict(p, "soft_suspend", "soft") \/ Restrict(p, "walled_garden", "walled")
               \/ ReconnectIfSuspended(p) \/ ReconnectContract(p) \/ Lift(p)
               \/ WriteStatus(p) \/ WriteRadius(p)
      PROVE  UNCHANGED <<invoice, exempt, day, ran, asked, faults, failed>>
  BY <1>2
  DEF ReadRule, CheckEntry, SuspendContract, Restrict, ReconnectIfSuspended,
      ReconnectContract, Lift, WriteStatus, WriteRadius, client, time, ghost
<1>3. ASSUME WriteLog(p)
      PROVE  UNCHANGED <<invoice, exempt, day, ran, asked, failed>> /\ faults' \in 0 .. MaxFaults
  BY <1>1, <1>3, DunningAssumption DEF WriteLog, client, time
<1>4. ASSUME SuspendRefused(p)
      PROVE  /\ UNCHANGED <<invoice, exempt, day, ran, asked, faults>>
             /\ failed' = failed \/ (p = Cron /\ failed' = failed + 1)
             /\ job' = [job EXCEPT ![p] = Idle]
  BY <1>4 DEF SuspendRefused, Failed, Goto, client, time
<1> QED
  BY <1>1, <1>2, <1>3, <1>4 DEF Step

(* What a step does to the lines. *)
LEMMA StepLines ==
    ASSUME TypeOK, NEW p \in Proc, Step(p)
    PROVE  /\ status' \in [Contract -> {"active", "suspended", "closed"}]
           /\ radius' \in [Contract -> {"active", "suspended", "inactive"}]
           /\ open' \in [Contract -> SUBSET Kind] /\ torn' \subseteq Contract
<1> DEFINE Good == /\ status' \in [Contract -> {"active", "suspended", "closed"}]
                   /\ radius' \in [Contract -> {"active", "suspended", "inactive"}]
                   /\ open' \in [Contract -> SUBSET Kind] /\ torn' \subseteq Contract
<1>0. /\ job[p] \in Job
      /\ status \in [Contract -> {"active", "suspended", "closed"}]
      /\ radius \in [Contract -> {"active", "suspended", "inactive"}]
      /\ open \in [Contract -> SUBSET Kind] /\ torn \subseteq Contract
  BY DEF TypeOK
<1>1. ASSUME UNCHANGED <<status, radius, open, torn>> PROVE Good
  BY <1>0, <1>1
<1>2. ASSUME SuspendContract(p) PROVE Good
  <2>1. job[p].entry.contract \in Contract
    BY <1>0, <1>2, JobFields DEF SuspendContract
  <2> QED
    BY <1>0, <1>2, <2>1 DEF SuspendContract, Kind, ghost
<1>3. ASSUME NEW a, NEW kind \in Kind, Restrict(p, a, kind) PROVE Good
  <2>1. job[p].entry.contract \in Contract
    BY <1>0, <1>3, JobFields DEF Restrict
  <2> QED
    BY <1>0, <1>3, <2>1 DEF Restrict, ghost
<1>4. ASSUME ReconnectContract(p) PROVE Good
  <2>1. job[p].c \in Contract
    BY <1>0, <1>4, JobFields DEF ReconnectContract
  <2>2. CASE status[job[p].c] = "closed"
    BY <1>1, <1>4, <2>2 DEF ReconnectContract, line
  <2>3. CASE status[job[p].c] # "closed"
    BY <1>0, <1>4, <2>1, <2>3 DEF ReconnectContract
  <2> QED
    BY <2>2, <2>3
<1>5. ASSUME Lift(p) PROVE Good
  BY <1>0, <1>5 DEF Lift, ghost
<1>6. ASSUME WriteStatus(p) PROVE Good
  <2>1. job[p].new \in {"active", "suspended", "closed"} /\ job[p].c \in Contract
    BY <1>0, <1>6, JobFields DEF WriteStatus
  <2>2. torn' \subseteq Contract
    BY <1>0, <1>6, <2>1 DEF WriteStatus, Resuspended
  <2>3. status' \in [Contract -> {"active", "suspended", "closed"}]
    BY <1>0, <1>6, <2>1 DEF WriteStatus
  <2> QED
    BY <1>0, <1>6, <2>2, <2>3 DEF WriteStatus
<1>7. ASSUME WriteRadius(p) PROVE Good
  BY <1>0, <1>7 DEF WriteRadius, ghost
<1>8. ASSUME WriteLog(p) PROVE Good
  <2>1. job[p].c \in Contract
    BY <1>0, <1>8, JobFields DEF WriteLog
  <2>2. torn' \subseteq Contract
    BY <1>0, <1>8, <2>1 DEF WriteLog, Abandon
  <2>3. open' \in [Contract -> SUBSET Kind]
    BY <1>0, <1>8, <2>1 DEF WriteLog, Kind
  <2> QED
    BY <1>0, <1>8, <2>2, <2>3 DEF WriteLog
<1>9. "soft" \in Kind /\ "walled" \in Kind
  BY DEF Kind
<1> QED
  BY <1>1, <1>2, <1>3, <1>4, <1>5, <1>6, <1>7, <1>8, <1>9
  DEF Step, ReadRule, CheckEntry, SuspendRefused, ReconnectIfSuspended, line, ghost

(* Every step keeps the types. *)
LEMMA TypeNext == Inv /\ [Next]_vars => TypeOK'
<1> SUFFICES ASSUME Inv, [Next]_vars PROVE TypeOK'
  OBVIOUS
<1> USE DunningAssumption
<1>0. /\ TypeOK /\ Cron \in Proc /\ job \in [Proc -> Job] /\ failed \in 0 .. day
      /\ day \in 1 .. MaxDay
  BY DEF Inv, TypeOK, Proc
<1>1. ASSUME StartTask PROVE TypeOK'
  <2>1. job' \in [Proc -> Job]
    BY <1>0, <1>1, JobMake DEF StartTask, Goto
  <2> QED
    BY <1>0, <1>1, <2>1 DEF StartTask, TypeOK, line, client, ghost
<1>2. ASSUME Tick PROVE TypeOK'
  <2>1. /\ day' = day + 1 /\ ran' = FALSE /\ day < MaxDay
        /\ UNCHANGED <<status, radius, open, invoice, exempt, job, asked, faults, failed, torn>>
    BY <1>2 DEF Tick, line, client, ghost
  <2>2. day' \in 1 .. MaxDay /\ failed' \in 0 .. day'
    BY <1>0, <2>1
  <2> QED
    BY <1>0, <2>1, <2>2 DEF TypeOK
<1>3. ASSUME NEW p \in Proc, Step(p) PROVE TypeOK'
  <2>1. job' \in [Proc -> Job] /\ job[p] # Idle
    BY <1>0, <1>3, StepMoves
  <2>2. failed' \in 0 .. day
    BY <1>0, <1>3, <2>1, StepCounts DEF Inv, FailInv
  <2> QED
    BY <1>0, <1>3, <2>1, <2>2, StepCounts, StepLines DEF TypeOK
<1>4. ASSUME NEW p \in Proc, Crash(p) PROVE TypeOK'
  <2>1. job' \in [Proc -> Job] /\ faults' \in 0 .. MaxFaults
    BY <1>0, <1>4, IdleJob DEF Crash, Goto, TypeOK
  <2>2. failed' \in 0 .. day
    BY <1>0, <1>4 DEF Crash, Failed, Inv, FailInv
  <2>3. torn' \subseteq Contract
    BY <1>0, <1>4, JobFields DEF Crash, Abandon, TypeOK
  <2> QED
    BY <1>0, <1>4, <2>1, <2>2, <2>3 DEF Crash, TypeOK, line, client, time
<1>5. ASSUME NEW q \in Request, Begin(q) PROVE TypeOK'
  <2>1. job' \in [Proc -> Job] /\ asked' \in 0 .. MaxRequests
    BY <1>0, <1>5, BeginMoves DEF Proc
  <2>2. UNCHANGED <<day, ran, faults, failed, open>>
    BY <1>5
    DEF Begin, RunAuto, AskSuspend, Pay, Settle, ReopenInvoice, SetExempt, AskReconnect,
        Renew, ReadForEdit, line, time, ghost
  <2>3. /\ status' \in [Contract -> {"active", "suspended", "closed"}]
        /\ radius' \in [Contract -> {"active", "suspended", "inactive"}]
        /\ torn' \subseteq Contract
    BY <1>0, <1>5
    DEF Begin, RunAuto, AskSuspend, Pay, Settle, ReopenInvoice, SetExempt, AskReconnect,
        Renew, ReadForEdit, line, ghost, TypeOK
  <2>4. /\ invoice' \in [Contract -> {"issued", "paid"}]
        /\ exempt' \in [Contract -> BOOLEAN]
    BY <1>0, <1>5
    DEF Begin, RunAuto, AskSuspend, Pay, Settle, ReopenInvoice, SetExempt, AskReconnect,
        Renew, ReadForEdit, client, TypeOK
  <2> QED
    BY <1>0, <2>1, <2>2, <2>3, <2>4 DEF TypeOK
<1>6. ASSUME UNCHANGED vars PROVE TypeOK'
  BY <1>0, <1>6 DEF vars, TypeOK
<1> QED
  BY <1>1, <1>2, <1>3, <1>4, <1>5, <1>6 DEF Next

(* The scheduled run is counted once. *)
LEMMA CronNext == Inv /\ [Next]_vars => CronInv' /\ FailInv'
<1> SUFFICES ASSUME Inv, [Next]_vars PROVE CronInv' /\ FailInv'
  OBVIOUS
<1> USE DunningAssumption
<1>0. /\ TypeOK /\ CronInv /\ FailInv /\ Cron \in Proc /\ job \in [Proc -> Job]
      /\ failed \in Nat /\ day \in Nat /\ failed <= day /\ Idle.pc = "idle"
  BY IdleJob DEF Inv, TypeOK, Proc
<1>1. ASSUME StartTask PROVE CronInv' /\ FailInv'
  <2>1. job'[Cron] = Loop(Rule, {}) /\ Loop(Rule, {}).pc \in {"idle", "loop"}
    BY <1>0, <1>1, JobMake DEF StartTask, Goto
  <2>2. failed' = failed /\ day' = day /\ ran' = TRUE /\ ~ran
    BY <1>1 DEF StartTask, ghost
  <2> QED
    BY <1>0, <2>1, <2>2 DEF CronInv, FailInv
<1>2. ASSUME Tick PROVE CronInv' /\ FailInv'
  <2>1. job' = job /\ job[Cron] = Idle /\ day' = day + 1 /\ failed' = failed
    BY <1>2 DEF Tick, ghost
  <2> QED
    BY <1>0, <2>1 DEF CronInv, FailInv
<1>3. ASSUME NEW p \in Proc, Step(p) PROVE CronInv' /\ FailInv'
  <2>1. PICK x \in Job : /\ job' = [job EXCEPT ![p] = x]
                         /\ job[p] # Idle
                         /\ job[p].pc \in {"loop", "act"} => x.pc \in {"idle", "loop", "act"}
    BY <1>0, <1>3, StepMoves
  <2>2. /\ day' = day /\ ran' = ran
        /\ failed' = failed
             \/ (p = Cron /\ failed' = failed + 1 /\ job' = [job EXCEPT ![p] = Idle])
    BY <1>0, <1>3, StepCounts
  <2>3. CASE p = Cron
    <3>1. job[Cron].pc # "idle"
      BY <1>0, <2>1, <2>3 DEF Job, Idle
    <3>2. job[Cron].pc \in {"loop", "act"} /\ ran /\ failed < day
      BY <1>0, <2>1, <2>3, <3>1 DEF CronInv, FailInv
    <3>3. job'[Cron] = x /\ x.pc \in {"idle", "loop", "act"}
      BY <1>0, <2>1, <2>3, <3>2
    <3>4. CronInv'
      BY <2>2, <3>2, <3>3 DEF CronInv
    <3>5. FailInv'
      <4>1. CASE failed' = failed
        BY <2>2, <3>2, <4>1 DEF FailInv
      <4>2. CASE job' = [job EXCEPT ![p] = Idle]
        BY <1>0, <2>2, <2>3, <3>2, <4>2 DEF FailInv
      <4> QED
        BY <2>2, <4>1, <4>2
    <3> QED
      BY <3>4, <3>5
  <2>4. CASE p # Cron
    BY <1>0, <2>1, <2>2, <2>4 DEF CronInv, FailInv
  <2> QED
    BY <2>3, <2>4
<1>4. ASSUME NEW p \in Proc, Crash(p) PROVE CronInv' /\ FailInv'
  <2>1. /\ job' = [job EXCEPT ![p] = Idle] /\ job[p] # Idle /\ day' = day /\ ran' = ran
        /\ failed' = IF p = Cron THEN failed + 1 ELSE failed
    BY <1>4 DEF Crash, Goto, Failed, time
  <2>2. CASE p = Cron
    BY <1>0, <2>1, <2>2 DEF CronInv, FailInv
  <2>3. CASE p # Cron
    BY <1>0, <2>1, <2>3 DEF CronInv, FailInv
  <2> QED
    BY <2>2, <2>3
<1>5. ASSUME NEW q \in Request, Begin(q) PROVE CronInv' /\ FailInv'
  <2>1. job'[Cron] = job[Cron]
    BY <1>0, <1>5, BeginMoves
  <2>2. UNCHANGED <<day, ran, failed>>
    BY <1>5
    DEF Begin, RunAuto, AskSuspend, Pay, Settle, ReopenInvoice, SetExempt, AskReconnect,
        Renew, ReadForEdit, time, ghost
  <2> QED
    BY <1>0, <2>1, <2>2 DEF CronInv, FailInv
<1>6. ASSUME UNCHANGED vars PROVE CronInv' /\ FailInv'
  BY <1>0, <1>6 DEF vars, CronInv, FailInv
<1> QED
  BY <1>1, <1>2, <1>3, <1>4, <1>5, <1>6 DEF Next

----------------------------------------------------------------------------
(* A process that is not suspending c by PUT takes nothing away from c. *)
LEMMA CutKept ==
    ASSUME Inv, NEW c \in Contract, NEW p \in Proc, NEW x \in Job,
           job' = [job EXCEPT ![p] = x],
           ~At(p, "radius", c), ~At(p, "log", c),
           status'[c] = "suspended" => status[c] = "suspended",
           radius[c] # "active" => radius'[c] # "active",
           "hard" \in open[c] => "hard" \in open'[c],
           c \in torn => c \in torn'
    PROVE  Cut(c)'
<1>1. Cut(c) /\ job \in [Proc -> Job]
  BY DEF Inv, CutInv, TypeOK
<1>2. ASSUME NEW q \in Request, NEW l \in {"radius", "log"}, At(q, l, c) PROVE At(q, l, c)'
  <2>1. q # p /\ q \in Proc
    BY <1>2 DEF Proc
  <2> QED
    BY <1>1, <1>2, <2>1 DEF At
<1> HIDE DEF At
<1> QED
  BY <1>1, <1>2 DEF Cut

(* A step of a process leaves every suspended line cut, or on the way there. *)
LEMMA CutStep ==
    ASSUME Inv, NEW c \in Contract, NEW p \in Proc, Step(p)
    PROVE  Cut(c)'
<1>0. /\ TypeOK /\ job \in [Proc -> Job] /\ job[p] \in Job /\ CronInv
      /\ status \in [Contract -> {"active", "suspended", "closed"}]
      /\ radius \in [Contract -> {"active", "suspended", "inactive"}]
      /\ open \in [Contract -> SUBSET Kind]
  BY DEF Inv, TypeOK
<1>1. PICK x \in Job : job' = [job EXCEPT ![p] = x]
  BY <1>0, StepMoves
<1>2. ASSUME ReadRule(p) \/ CheckEntry(p) \/ SuspendRefused(p) \/ ReconnectIfSuspended(p)
      PROVE  Cut(c)'
  <2>1. /\ job[p].pc \notin {"radius", "log"} /\ UNCHANGED <<status, radius, open, torn>>
    BY <1>2 DEF ReadRule, CheckEntry, SuspendRefused, ReconnectIfSuspended, line, ghost
  <2>2. ~At(p, "radius", c) /\ ~At(p, "log", c)
    BY <2>1 DEF At
  <2> QED
    BY <1>1, <2>1, <2>2, CutKept
<1>3. ASSUME NEW a, NEW kind, Restrict(p, a, kind) PROVE Cut(c)'
  <2>1. /\ job[p].pc = "act" /\ UNCHANGED <<status, radius, torn>>
        /\ open' = [open EXCEPT ![job[p].entry.contract] = @ \cup {kind}]
    BY <1>3 DEF Restrict, ghost
  <2>2. ~At(p, "radius", c) /\ ~At(p, "log", c)
    BY <2>1 DEF At
  <2>3. "hard" \in open[c] => "hard" \in open'[c]
    BY <1>0, <2>1
  <2> QED
    BY <1>1, <2>1, <2>2, <2>3, CutKept
<1>4. ASSUME SuspendContract(p) PROVE Cut(c)'
  <2> DEFINE d == job[p].entry.contract
  <2>1. /\ job[p].pc = "act" /\ UNCHANGED torn
        /\ status' = [status EXCEPT ![d] = "suspended"]
        /\ radius' = [radius EXCEPT ![d] = IF @ = "active" THEN "suspended" ELSE @]
        /\ open' = [open EXCEPT ![d] = @ \cup {"hard"}]
    BY <1>4 DEF SuspendContract, ghost
  <2>2. ~At(p, "radius", c) /\ ~At(p, "log", c)
    BY <2>1 DEF At
  <2> HIDE DEF d
  <2>3. CASE c = d
    <3>1. radius'[c] # "active" /\ "hard" \in open'[c]
      BY <1>0, <2>1, <2>3
    <3> QED
      BY <3>1 DEF Cut
  <2>4. CASE c # d
    <3>1. status'[c] = status[c] /\ radius'[c] = radius[c] /\ open'[c] = open[c]
      BY <1>0, <2>1, <2>4
    <3> QED
      BY <1>1, <2>1, <2>2, <3>1, CutKept
  <2> QED
    BY <2>3, <2>4
<1>5. ASSUME ReconnectContract(p) PROVE Cut(c)'
  <2> DEFINE d == job[p].c
  <2>1. ~At(p, "radius", c) /\ ~At(p, "log", c)
    BY <1>5 DEF At, ReconnectContract
  <2>2. CASE status[d] = "closed"
    <3>1. UNCHANGED <<status, radius, open, torn>>
      BY <1>5, <2>2 DEF ReconnectContract, line
    <3> QED
      BY <1>1, <2>1, <3>1, CutKept
  <2>3. CASE status[d] # "closed"
    <3>1. /\ status' = [status EXCEPT ![d] = "active"]
          /\ radius' = [radius EXCEPT ![d] =
                          IF status[d] = "suspended" /\ @ = "suspended" THEN "active" ELSE @]
          /\ open' = [open EXCEPT ![d] = @ \cap {"walled"}]
          /\ torn' = torn \ {d}
      BY <1>5, <2>3 DEF ReconnectContract
    <3> HIDE DEF d
    <3>2. CASE c = d
      BY <1>0, <3>1, <3>2 DEF Cut
    <3>3. CASE c # d
      <4>1. /\ status'[c] = status[c] /\ radius'[c] = radius[c] /\ open'[c] = open[c]
            /\ c \in torn => c \in torn'
        BY <1>0, <3>1, <3>3
      <4> QED
        BY <1>1, <2>1, <4>1, CutKept
    <3> QED
      BY <3>2, <3>3
  <2> QED
    BY <2>2, <2>3
<1>6. ASSUME Lift(p) PROVE Cut(c)'
  <2>1. /\ ~At(p, "radius", c) /\ ~At(p, "log", c) /\ UNCHANGED <<status, radius, torn>>
        /\ open' = [open EXCEPT ![job[p].c] = @ \ {"walled"}]
    BY <1>6 DEF At, Lift, ghost
  <2>2. "hard" \in open[c] => "hard" \in open'[c]
    BY <1>0, <2>1
  <2> QED
    BY <1>1, <2>1, <2>2, CutKept
<1>7. ASSUME job[p].pc \in {"write", "radius", "log"} PROVE p \in Request
  BY <1>0, <1>7 DEF CronInv, Proc
<1>8. ASSUME WriteStatus(p) PROVE Cut(c)'
  <2> DEFINE d == job[p].c
             new == job[p].new
  <2>1. job[p].pc = "write" /\ ~At(p, "radius", c) /\ ~At(p, "log", c) /\ UNCHANGED <<radius, open>>
    BY <1>8 DEF At, WriteStatus
  <2>2. d \in Contract /\ new \in {"active", "suspended", "closed"}
    BY <1>0, <2>1, JobFields
  <2>3. CASE ~Permits(status[d], new)
    BY <1>1, <1>8, <2>1, <2>3, CutKept DEF WriteStatus
  <2>4. CASE Permits(status[d], new) /\ c # d
    <3>1. /\ status' = [status EXCEPT ![d] = new] /\ (c \in torn => c \in torn')
      BY <1>8, <2>4 DEF WriteStatus, Resuspended
    <3> HIDE DEF d
    <3>2. status'[c] = status[c]
      BY <1>0, <2>4, <3>1
    <3> QED
      BY <1>1, <2>1, <3>1, <3>2, CutKept
  <2>5. CASE Permits(status[d], new) /\ c = d
    <3>1. status'[c] = new /\ torn' = Resuspended(p)
      BY <1>0, <1>8, <2>5 DEF WriteStatus
    <3>2. CASE new # "suspended"
      BY <3>1, <3>2 DEF Cut
    <3>3. CASE new = "suspended" /\ ~Same(p)
      <4>1. job' = [job EXCEPT ![p] = [job[p] EXCEPT !.pc = "radius"]]
        BY <1>8, <2>5, <3>3 DEF WriteStatus, Goto
      <4>2. /\ job'[p] = [job[p] EXCEPT !.pc = "radius"]
            /\ job'[p].pc = "radius" /\ job'[p].c = d /\ job'[p].new = new
        BY <1>0, <2>1, <3>3, <4>1, EditMoves DEF Same
      <4>3. At(p, "radius", c)' /\ p \in Request
        BY <1>7, <2>1, <2>5, <3>3, <4>2 DEF At
      <4> HIDE DEF At
      <4> QED
        BY <4>3 DEF Cut
    <3>4. CASE new = "suspended" /\ Same(p) /\ status[d] # "suspended"
      <4>1. c \in torn'
        BY <2>5, <3>1, <3>4 DEF Resuspended
      <4> QED
        BY <4>1 DEF Cut
    <3>5. CASE new = "suspended" /\ Same(p) /\ status[d] = "suspended"
      <4>1. torn' = torn /\ status[c] = "suspended"
        BY <2>5, <3>1, <3>5 DEF Resuspended
      <4> QED
        BY <1>1, <2>1, <4>1, CutKept
    <3> QED
      BY <2>2, <3>2, <3>3, <3>4, <3>5
  <2> QED
    BY <2>3, <2>4, <2>5
<1>9. ASSUME WriteRadius(p) PROVE Cut(c)'
  <2>1. /\ job[p].pc = "radius" /\ UNCHANGED <<status, open, torn>>
        /\ radius' = [radius EXCEPT ![job[p].c] = IF job[p].new = "closed" THEN "inactive"
                                                  ELSE IF @ = "active" THEN "suspended" ELSE @]
    BY <1>9 DEF WriteRadius, ghost
  <2>2. radius[c] # "active" => radius'[c] # "active"
    BY <1>0, <2>1
  <2>3. CASE ~At(p, "radius", c)
    <3>1. ~At(p, "log", c)
      BY <2>1 DEF At
    <3> QED
      BY <1>1, <2>1, <2>2, <2>3, <3>1, CutKept
  <2>4. CASE At(p, "radius", c)
    <3>1. job[p].c = c /\ job[p].new = "suspended"
      BY <2>4 DEF At
    <3>2. radius'[c] # "active"
      BY <1>0, <2>1, <3>1
    <3>3. job' = [job EXCEPT ![p] = [job[p] EXCEPT !.pc = "log"]]
      BY <1>9, <3>1 DEF WriteRadius, Goto
    <3>4. /\ job'[p] = [job[p] EXCEPT !.pc = "log"]
          /\ job'[p].pc = "log" /\ job'[p].c = c /\ job'[p].new = "suspended"
      BY <1>0, <2>1, <3>1, <3>3, EditMoves
    <3>5. At(p, "log", c)' /\ p \in Request
      BY <1>7, <2>1, <3>4 DEF At
    <3> HIDE DEF At
    <3> QED
      BY <3>2, <3>5 DEF Cut
  <2> QED
    BY <2>3, <2>4
<1>10. ASSUME WriteLog(p) PROVE Cut(c)'
  <2>1. /\ job[p].pc = "log" /\ UNCHANGED <<status, radius>>
        /\ \/ open' = [open EXCEPT ![job[p].c] = @ \cup {"hard"}] /\ torn' = torn
           \/ Abandon(p) /\ open' = open
    BY <1>10 DEF WriteLog
  <2>2. /\ "hard" \in open[c] => "hard" \in open'[c]
        /\ c \in torn => c \in torn'
    BY <1>0, <2>1 DEF Abandon
  <2>3. ~At(p, "radius", c)
    BY <2>1 DEF At
  <2>4. CASE ~At(p, "log", c)
    BY <1>1, <2>1, <2>2, <2>3, <2>4, CutKept
  <2>5. CASE At(p, "log", c)
    <3>1. job[p].c = c /\ job[p].new = "suspended"
      BY <2>5 DEF At
    <3>2. CASE Abandon(p)
      <4>1. c \in torn'
        BY <2>1, <3>1, <3>2 DEF Abandon
      <4> QED
        BY <4>1 DEF Cut
    <3>3. CASE open' = [open EXCEPT ![job[p].c] = @ \cup {"hard"}]
      <4>1. "hard" \in open'[c]
        BY <1>0, <3>1, <3>3
      <4>2. \A q \in Request : At(q, "radius", c) => At(q, "radius", c)'
        <5> SUFFICES ASSUME NEW q \in Request, At(q, "radius", c) PROVE At(q, "radius", c)'
          OBVIOUS
        <5>1. q # p /\ q \in Proc
          BY <2>3 DEF Proc
        <5> QED
          BY <1>0, <1>1, <5>1 DEF At
      <4> HIDE DEF At
      <4> QED
        BY <2>1, <2>2, <4>1, <4>2 DEF Inv, CutInv, Cut
    <3> QED
      BY <2>1, <3>2, <3>3
  <2> QED
    BY <2>4, <2>5
<1> QED
  BY <1>2, <1>3, <1>4, <1>5, <1>6, <1>8, <1>9, <1>10 DEF Step

(* So does every step. *)
LEMMA CutNext == Inv /\ [Next]_vars => CutInv'
<1> SUFFICES ASSUME Inv, [Next]_vars, NEW c \in Contract PROVE Cut(c)'
  BY DEF CutInv
<1>0. /\ TypeOK /\ job \in [Proc -> Job] /\ Cron \in Proc /\ Idle.pc = "idle" /\ Idle \in Job
      /\ status \in [Contract -> {"active", "suspended", "closed"}]
      /\ radius \in [Contract -> {"active", "suspended", "inactive"}]
  BY IdleJob DEF Inv, TypeOK, Proc
<1>1. ASSUME StartTask PROVE Cut(c)'
  <2>1. /\ job' = [job EXCEPT ![Cron] = Loop(Rule, {})] /\ job[Cron] = Idle
        /\ UNCHANGED <<status, radius, open, torn>>
    BY <1>1 DEF StartTask, Goto, line, ghost
  <2>2. Loop(Rule, {}) \in Job
    BY JobMake
  <2>3. ~At(Cron, "radius", c) /\ ~At(Cron, "log", c)
    BY <1>0, <2>1 DEF At
  <2> QED
    BY <1>0, <2>1, <2>2, <2>3, CutKept
<1>2. ASSUME NEW q \in Request, Begin(q) PROVE Cut(c)'
  <2>1. PICK x \in Job : job[q] = Idle /\ job' = [job EXCEPT ![q] = x]
    BY <1>0, <1>2, BeginMoves
  <2>2. q \in Proc /\ ~At(q, "radius", c) /\ ~At(q, "log", c)
    BY <1>0, <2>1 DEF At, Proc
  <2>3. CASE UNCHANGED <<status, radius, open, torn>>
    BY <2>1, <2>2, <2>3, CutKept
  <2>4. ASSUME NEW d \in Contract, Renew(q, d) PROVE Cut(c)'
    <3>1. /\ status' = [status EXCEPT ![d] = "active"] /\ radius' = [radius EXCEPT ![d] = "active"]
          /\ torn' = torn \ {d} /\ open' = open
      BY <2>4 DEF Renew
    <3>2. CASE c = d
      BY <1>0, <3>1, <3>2 DEF Cut
    <3>3. CASE c # d
      <4>1. status'[c] = status[c] /\ radius'[c] = radius[c] /\ (c \in torn => c \in torn')
        BY <1>0, <3>1, <3>3
      <4> QED
        BY <2>1, <2>2, <3>1, <4>1, CutKept
    <3> QED
      BY <3>2, <3>3
  <2> QED
    BY <1>2, <2>3, <2>4
    DEF Begin, RunAuto, AskSuspend, Pay, Settle, ReopenInvoice, SetExempt, AskReconnect,
        ReadForEdit, line, ghost
<1>3. ASSUME NEW p \in Proc, Crash(p) PROVE Cut(c)'
  <2>1. /\ job' = [job EXCEPT ![p] = Idle] /\ Abandon(p) /\ UNCHANGED <<status, radius, open>>
    BY <1>3 DEF Crash, Goto, line
  <2>2. c \in torn => c \in torn'
    BY <2>1 DEF Abandon
  <2>3. CASE At(p, "radius", c) \/ At(p, "log", c)
    <3>1. c \in torn'
      BY <2>1, <2>3 DEF Abandon, At
    <3> QED
      BY <3>1 DEF Cut
  <2>4. CASE ~At(p, "radius", c) /\ ~At(p, "log", c)
    BY <1>0, <2>1, <2>2, <2>4, CutKept
  <2> QED
    BY <2>3, <2>4
<1>4. ASSUME UNCHANGED <<status, radius, open, job, torn>> PROVE Cut(c)'
  BY <1>4 DEF Inv, CutInv, Cut, At
<1> QED
  BY <1>1, <1>2, <1>3, <1>4, CutStep DEF Next, Tick, line, ghost, vars

----------------------------------------------------------------------------
(* Inv holds in every reachable state. *)
THEOREM Invariance == Spec => []Inv
<1>1. Inv /\ [Next]_vars => Inv'
  BY TypeNext, CronNext, CutNext DEF Inv
<1> QED
  BY InvInit, <1>1, PTL DEF Spec

(* Every variable stays in its type, and of the runs of auto_suspend at    *)
(* most one a day fails, whatever crashes or is refused.                   *)
THEOREM TypeCorrect == Spec => []TypeOK
<1>1. Inv => TypeOK
  BY DEF Inv
<1> QED
  BY Invariance, <1>1, PTL

(* A suspended line does not authenticate and has an open row in           *)
(* suspension_logs, except around a PUT that is under way, died, or wrote  *)
(* back a suspension that had been lifted, for every number of overlapping *)
(* suspensions, reconnections and edits.                                   *)
THEOREM SuspendedLineIsCutHolds == Spec => []SuspendedLineIsCut
<1>1. Inv => SuspendedLineIsCut
  BY DEF Inv, CutInv, Cut, At, SuspendedLineIsCut, EditUnderWay
<1> QED
  BY Invariance, <1>1, PTL

(* Renew takes a line out of 'closed', and a PUT that was shown the line   *)
(* as active: suspendContract is refused by the trigger, reconnectContract *)
(* by its own look at the status, and so is a PUT of 'suspended'.          *)
LEMMA ReopenStep ==
    ASSUME Inv, [Next]_vars, NEW c \in Contract,
           status[c] = "closed", status'[c] # "closed"
    PROVE  /\ status'[c] = "active"
           /\ (\E q \in Request : Renew(q, c)) \/ FormRevives(c)
<1>0. /\ status \in [Contract -> {"active", "suspended", "closed"}] /\ job \in [Proc -> Job]
      /\ CronInv
  BY DEF Inv, TypeOK
<1>1. ASSUME NEW p \in Proc, SuspendContract(p) PROVE FALSE
  BY <1>0, <1>1 DEF SuspendContract, Permits
<1>2. ASSUME NEW p \in Proc, ReconnectContract(p) PROVE FALSE
  BY <1>0, <1>2 DEF ReconnectContract, line
<1>3. ASSUME NEW p \in Proc, WriteStatus(p) PROVE status'[c] = "active" /\ FormRevives(c)
  <2>1. job[p].pc = "write" /\ job[p] \in Job
    BY <1>0, <1>3 DEF WriteStatus
  <2>2. /\ job[p].new \in {"active", "suspended", "closed"}
        /\ ~Same(p) => job[p].new \in {"suspended", "closed"}
    BY <2>1, JobFields DEF Same
  <2>3. p \in Request
    BY <1>0, <2>1 DEF CronInv, Proc
  <2>4. job[p].c = c /\ Permits(status[c], job[p].new) /\ status'[c] = job[p].new
    BY <1>0, <1>3 DEF WriteStatus
  <2>5. job[p].new = "active" /\ Same(p)
    BY <2>2, <2>4 DEF Permits
  <2>6. job' = [job EXCEPT ![p] = Idle]
    BY <1>3, <2>4, <2>5 DEF WriteStatus, Goto
  <2>7. job'[p] = Idle
    BY <1>0, <2>6
  <2> QED
    BY <2>1, <2>3, <2>4, <2>5, <2>7 DEF FormRevives
<1>4. ASSUME NEW q \in Request, NEW d \in Contract, Renew(q, d)
      PROVE  d = c /\ status'[c] = "active"
  BY <1>0, <1>4 DEF Renew
<1>5. status' # status
  OBVIOUS
<1> QED
  BY <1>1, <1>2, <1>3, <1>4, <1>5
  DEF Next, StartTask, Tick, Step, Crash, Begin, ReadRule, CheckEntry, SuspendRefused, Restrict,
      ReconnectIfSuspended, Lift, WriteRadius, WriteLog, RunAuto, AskSuspend, Pay, Settle,
      ReopenInvoice, SetExempt, AskReconnect, ReadForEdit, line, vars

(* A contract that ended is brought back by renew or by a PUT that was     *)
(* shown it in service, for every list of debtors, every late reconnection *)
(* and every other edit, and never as suspended.                           *)
THEOREM ClosedStaysClosedHolds == Spec => ClosedStaysClosed
<1>1. Inv /\ [Next]_vars =>
        [\A c \in Contract : status[c] = "closed" /\ status'[c] # "closed" =>
            /\ status'[c] = "active"
            /\ (\E q \in Request : Renew(q, c)) \/ FormRevives(c)]_vars
  BY ReopenStep
<1> QED
  BY Invariance, <1>1, PTL DEF Spec, ClosedStaysClosed
============================================================================
