------------------------- MODULE TaskDispatchProofs -------------------------
(***************************************************************************)
(* What holds of the scheduler's lock and of the in-process queue for      *)
(* every set of tasks, names and inline runs, every concurrency and        *)
(* capacity of the queue and every time to live of the lock.               *)
(*                                                                         *)
(* Inv is inductive.  LockInv ties the lock of a task name to the age of   *)
(* the run that took it: as long as no lock was lost, the lock of a cron   *)
(* run expires together with the run's own Ttl, so the name is locked for  *)
(* as long as the run is younger.  UniqueInv says that a job id of this    *)
(* minute has one place, in line or at work.                               *)
(***************************************************************************)
EXTENDS TaskDispatch, FiniteSetTheorems, SequenceTheorems, TLAPS

LockInv ==
    ~loose =>
        /\ \A s \in Slot : run[s].kind = "cron" =>
               /\ run[s].age < Ttl
               /\ lock[Name[run[s].task]] = Ttl - run[s].age
        /\ \A r, s \in Slot :
               run[r].kind = "cron" /\ run[s].kind = "cron"
                   /\ Name[run[r].task] = Name[run[s].task] => r = s

UniqueInv ==
    /\ \A i, k \in DOMAIN pending :
           pending[i].thisMinute /\ pending[i] = pending[k] => i = k
    /\ \A v, w \in Worker :
           work[v] # Free /\ work[v].thisMinute /\ work[v] = work[w] => v = w
    /\ \A i \in DOMAIN pending, w \in Worker :
           ~(pending[i].thisMinute /\ pending[i] = work[w])

Inv == TypeOK /\ LockInv /\ UniqueInv

-----------------------------------------------------------------------------
(* What follows from Inv. *)

\* A set whose members are all equal has at most one.
LEMMA AtMostOne ==
    ASSUME NEW S, \A x, y \in S : x = y
    PROVE  IsFiniteSet(S) /\ Cardinality(S) \in 0 .. 1 /\ (S = {} => Cardinality(S) = 0)
<1>1. CASE S = {}
  BY <1>1, FS_EmptySet
<1>2. CASE S # {}
  <2>1. PICK x \in S : S = {x}
    BY <1>2
  <2> QED
    BY <2>1, FS_Singleton
<1> QED
  BY <1>1, <1>2

(* Two runs of one name would share its lock. *)
LEMMA OneRunFollows == Inv => OneRunAtATime
<1> SUFFICES ASSUME Inv, ~loose, NEW n \in Names PROVE Cardinality(Runs(n)) <= 1
  BY DEF OneRunAtATime
<1>1. \A r, s \in Runs(n) : r = s
  BY DEF Inv, LockInv, Runs
<1> QED
  BY <1>1, AtMostOne

(* Two places of one job would be one. *)
LEMMA QueuedOnceFollows == Inv => QueuedOnce
<1> SUFFICES ASSUME Inv, NEW t \in Task
             PROVE  LET j == [task |-> t, thisMinute |-> TRUE] IN
                    Cardinality({k \in DOMAIN pending : pending[k] = j})
                        + Cardinality({w \in Worker : work[w] = j}) <= 1
  BY DEF QueuedOnce
<1> DEFINE j == [task |-> t, thisMinute |-> TRUE]
           P == {k \in DOMAIN pending : pending[k] = j}
           W == {w \in Worker : work[w] = j}
<1>1. j.thisMinute = TRUE /\ j # Free
  BY DEF Free
<1> HIDE DEF j
<1>2. \A i, k \in P : i = k
  BY <1>1 DEF Inv, UniqueInv
<1>3. \A v, w \in W : v = w
  BY <1>1 DEF Inv, UniqueInv
<1>4. P = {} \/ W = {}
  BY <1>1 DEF Inv, UniqueInv
<1> HIDE DEF P, W
<1>5. Cardinality(P) \in 0 .. 1 /\ (P = {} => Cardinality(P) = 0)
  BY <1>2, AtMostOne
<1>6. Cardinality(W) \in 0 .. 1 /\ (W = {} => Cardinality(W) = 0)
  BY <1>3, AtMostOne
<1>7. Cardinality(P) + Cardinality(W) <= 1
  BY <1>4, <1>5, <1>6
<1> QED
  BY <1>7 DEF P, W, j
-----------------------------------------------------------------------------
(* How Drain hands out jobs. *)

FreeWorkers == {w \in Worker : work[w] = Free}
Busy == {w \in Worker : work[w] # Free}

\* The length of the loop of Drain.
Handed == Min({Len(pending), Cardinality({w \in Worker : work[w] = Free})})

(* Idle and busy workers are finitely many. *)
LEMMA WorkerSets ==
    /\ IsFiniteSet(FreeWorkers) /\ IsFiniteSet(Busy)
    /\ Cardinality(FreeWorkers) \in Nat /\ Cardinality(Busy) \in Nat
<1>1. IsFiniteSet(FreeWorkers) /\ IsFiniteSet(Busy)
  BY DispatchAssumption, FS_Subset DEF FreeWorkers, Busy
<1> QED
  BY <1>1, FS_CardinalityType

(* A drain hands out no more jobs than wait in line. *)
LEMMA HandedBound ==
    ASSUME TypeOK
    PROVE  Handed \in Nat /\ Handed <= Len(pending)
<1> DEFINE a == Len(pending)
           b == Cardinality(FreeWorkers)
<1>1. a \in Nat /\ b \in Nat
  BY WorkerSets, LenProperties DEF TypeOK
<1> HIDE DEF a, b
<1>2. \E x \in {a, b} : \A y \in {a, b} : x <= y
  <2>1. CASE a <= b
    BY <1>1, <2>1
  <2>2. CASE b <= a
    BY <1>1, <2>2
  <2> QED
    BY <1>1, <2>1, <2>2
<1>3. Min({a, b}) \in {a, b} /\ \A y \in {a, b} : Min({a, b}) <= y
  BY <1>2 DEF Min
<1>4. Min({a, b}) \in Nat /\ Min({a, b}) <= a
  BY <1>1, <1>3
<1> QED
  BY <1>4 DEF a, b, Handed, FreeWorkers

\* The free workers are numbered from 1 on, without repetition.
LEMMA RankFacts ==
    /\ \A w \in FreeWorkers : Rank(w) \in Nat /\ 1 <= Rank(w)
    /\ \A v, w \in FreeWorkers : Rank(v) = Rank(w) => v = w
<1> DEFINE Upto(w) == {v \in Worker : work[v] = Free /\ v <= w}
<1>1. ASSUME NEW w \in Worker
      PROVE  /\ IsFiniteSet(Upto(w)) /\ Cardinality(Upto(w)) \in Nat
             /\ Upto(w) \in SUBSET Worker
  BY DispatchAssumption, FS_Subset, FS_CardinalityType
<1>2. ASSUME NEW w \in FreeWorkers PROVE Rank(w) \in Nat /\ 1 <= Rank(w)
  <2>1. w \in Worker /\ w \in Upto(w)
    BY DispatchAssumption DEF FreeWorkers
  <2>2. Cardinality(Upto(w)) # 0
    BY <1>1, <2>1, FS_EmptySet
  <2> QED
    BY <1>1, <2>1, <2>2 DEF Rank
<1>3. ASSUME NEW v \in FreeWorkers, NEW w \in FreeWorkers, v < w PROVE Rank(v) # Rank(w)
  <2>1. v \in Nat /\ w \in Nat /\ v \in Worker /\ w \in Worker
    BY DispatchAssumption DEF FreeWorkers
  <2>2. Upto(v) \subseteq Upto(w)
    <3> SUFFICES ASSUME NEW u \in Worker, work[u] = Free, u <= v PROVE u <= w
      OBVIOUS
    <3>1. u \in Nat
      BY DispatchAssumption
    <3> QED
      BY <1>3, <2>1, <3>1
  <2>3. w \in Upto(w) /\ w \notin Upto(v)
    BY <1>3, <2>1 DEF FreeWorkers
  <2>4. Upto(v) # Upto(w)
    BY <2>3
  <2> HIDE DEF Upto
  <2>5. Cardinality(Upto(v)) # Cardinality(Upto(w))
    BY <1>1, <2>1, <2>2, <2>4, FS_Subset
  <2> QED
    BY <2>5 DEF Rank, Upto
<1>4. ASSUME NEW v \in FreeWorkers, NEW w \in FreeWorkers, Rank(v) = Rank(w) PROVE v = w
  <2>1. v \in Nat /\ w \in Nat
    BY DispatchAssumption DEF FreeWorkers
  <2>2. ~(v < w) /\ ~(w < v)
    BY <1>3, <1>4
  <2> QED
    BY <2>1, <2>2
<1> QED
  BY <1>2, <1>4

\* The workers that Drain gives a job, and what is left in line.
Chosen == {w \in FreeWorkers : Rank(w) <= Handed}

(* A drain gives the head of the line to idle workers, one job each. *)
LEMMA DrainFacts ==
    ASSUME TypeOK, Drain
    PROVE  /\ Chosen \subseteq Worker
           /\ \A w \in Chosen : Rank(w) \in 1 .. Handed /\ Rank(w) \in 1 .. Len(pending)
           /\ work' = [w \in Worker |-> IF w \in Chosen THEN pending[Rank(w)] ELSE work[w]]
           /\ pending' \in Seq(Job) /\ Len(pending') = Len(pending) - Handed
           /\ \A i \in 1 .. Len(pending') :
                  i + Handed \in 1 .. Len(pending) /\ pending'[i] = pending[i + Handed]
<1>0. Handed \in Nat /\ Len(pending) \in Nat /\ Handed <= Len(pending)
  BY HandedBound, LenProperties DEF TypeOK
<1>1. Chosen \subseteq Worker
  BY DEF Chosen, FreeWorkers
<1>2. \A w \in Chosen : Rank(w) \in 1 .. Handed /\ Rank(w) \in 1 .. Len(pending)
  BY <1>0, RankFacts DEF Chosen
<1>3. work' = [w \in Worker |-> IF w \in Chosen THEN pending[Rank(w)] ELSE work[w]]
  BY DEF Drain, Chosen, FreeWorkers, Handed
<1>4. pending' = SubSeq(pending, Handed + 1, Len(pending))
  BY DEF Drain, Handed
<1>5. \A i \in Handed + 1 .. Len(pending) : pending[i] \in Job
  <2>1. \A i \in Handed + 1 .. Len(pending) : i \in 1 .. Len(pending)
    BY <1>0
  <2> QED
    BY <2>1, ElementOfSeq DEF TypeOK
<1>6. /\ pending' \in Seq(Job)
      /\ Len(pending') = IF Handed + 1 <= Len(pending)
                           THEN Len(pending) - (Handed + 1) + 1 ELSE 0
      /\ \A i \in 1 .. Len(pending) - (Handed + 1) + 1 :
             pending'[i] = pending[Handed + 1 + i - 1]
  BY <1>0, <1>4, <1>5, SubSeqProperties
<1>7. Len(pending') = Len(pending) - Handed
  BY <1>0, <1>6
<1>8. ASSUME NEW i \in 1 .. Len(pending')
      PROVE  i + Handed \in 1 .. Len(pending) /\ pending'[i] = pending[i + Handed]
  <2>1. i \in 1 .. Len(pending) - (Handed + 1) + 1 /\ Handed + 1 + i - 1 = i + Handed
    BY <1>0, <1>7
  <2>2. i + Handed \in 1 .. Len(pending)
    BY <1>0, <1>7
  <2> QED
    BY <1>6, <2>1, <2>2
<1> QED
  BY <1>1, <1>2, <1>3, <1>6, <1>7, <1>8

\* No more workers start than jobs leave the line.
LEMMA ChosenBound ==
    ASSUME TypeOK, Drain
    PROVE  IsFiniteSet(Chosen) /\ Cardinality(Chosen) \in Nat /\ Cardinality(Chosen) <= Handed
<1>0. Handed \in Nat
  BY HandedBound
<1> DEFINE f == [w \in Chosen |-> Rank(w)]
<1>1. f \in Injection(Chosen, 1 .. Handed)
  <2>1. f \in [Chosen -> 1 .. Handed]
    BY DrainFacts
  <2>2. \A v, w \in Chosen : f[v] = f[w] => v = w
    BY RankFacts DEF Chosen
  <2> QED
    BY <2>1, <2>2 DEF Injection, IsInjective
<1>2. IsFiniteSet(1 .. Handed) /\ Cardinality(1 .. Handed) = Handed
  <2>1. 1 \in Int /\ Handed \in Int
    BY <1>0
  <2>2. IsFiniteSet(1 .. Handed) /\ Cardinality(1 .. Handed) = IF 1 > Handed THEN 0 ELSE Handed - 1 + 1
    BY <2>1, FS_Interval
  <2> QED
    BY <1>0, <2>2
<1>3. IsFiniteSet(Chosen) /\ Cardinality(Chosen) <= Cardinality(1 .. Handed)
  <2> HIDE DEF f
  <2> QED
    BY <1>1, <1>2, FS_Injection
<1> QED
  BY <1>2, <1>3, FS_CardinalityType

-----------------------------------------------------------------------------
(* The steps keep the types and the queue its capacity. *)

Record == [kind : Kind, task : Task, age : 0 .. Ttl]

(* The first state. *)
LEMMA InvInit == Init => Inv
<1> SUFFICES ASSUME Init PROVE Inv
  OBVIOUS
<1>1. TypeOK
  <2>1. {w \in Worker : work[w] # Free} = {}
    BY DEF Init
  <2>2. Cardinality({w \in Worker : work[w] # Free}) = 0
    BY <2>1, FS_EmptySet
  <2>3. pending \in Seq(Job) /\ Len(pending) = 0
    BY EmptySeq DEF Init
  <2>4. Len(pending) + Cardinality({w \in Worker : work[w] # Free}) <= MaxPending
    BY <2>2, <2>3, DispatchAssumption
  <2>5. lock \in [Names -> 0 .. Ttl] /\ run \in [Slot -> {Free} \cup Record]
    BY DispatchAssumption DEF Init
  <2> QED
    BY <2>3, <2>4, <2>5 DEF Init, TypeOK, Record
<1>2. LockInv
  BY DEF Init, LockInv, Free
<1>3. UniqueInv
  <2>1. DOMAIN pending = {}
    BY DEF Init
  <2> QED
    BY <2>1 DEF Init, UniqueInv
<1> QED
  BY <1>1, <1>2, <1>3 DEF Inv

\* The jobs in line and at work stay within MaxPending.
LEMMA CapacityNext ==
    ASSUME TypeOK, [Next]_vars
    PROVE  Len(pending') + Cardinality(Busy') <= MaxPending
<1> DEFINE Goal == Len(pending') + Cardinality(Busy') <= MaxPending
<1>0. /\ Len(pending) \in Nat /\ Cardinality(Busy) \in Nat /\ IsFiniteSet(Busy)
      /\ Len(pending) + Cardinality(Busy) <= MaxPending
  BY WorkerSets, LenProperties DEF TypeOK, Busy
<1>1. ASSUME UNCHANGED <<pending, work>> PROVE Goal
  BY <1>0, <1>1 DEF Busy
<1>2. ASSUME NEW t \in Task, TickQueued(t) PROVE Goal
  <2>1. Len(pending') = Len(pending) + 1
    BY <1>2 DEF TickQueued, TypeOK
  <2>2. Busy' = Busy
    BY <1>2 DEF TickQueued, Busy
  <2>3. Len(pending) + Cardinality(Busy) < MaxPending
    BY <1>2 DEF TickQueued, HasRoom, Busy
  <2> QED
    BY <1>0, <2>1, <2>2, <2>3, DispatchAssumption
<1>3. ASSUME NEW w \in Worker, JobEnds(w) PROVE Goal
  <2>1. Busy' = Busy \ {w}
    BY <1>3 DEF JobEnds, Busy, TypeOK
  <2>2. Cardinality(Busy') = Cardinality(Busy) - 1
    BY <1>0, <1>3, <2>1, FS_RemoveElement DEF JobEnds, Busy
  <2>3. pending' = pending
    BY <1>3 DEF JobEnds
  <2> QED
    BY <1>0, <2>2, <2>3, DispatchAssumption
<1>4. ASSUME Drain PROVE Goal
  <2>1. Handed \in Nat /\ Len(pending') = Len(pending) - Handed
    BY <1>4, HandedBound, DrainFacts
  <2>2. Busy' \subseteq Busy \cup Chosen
    BY <1>4, DrainFacts DEF Busy
  <2>3. /\ IsFiniteSet(Chosen) /\ Cardinality(Chosen) \in Nat
        /\ Cardinality(Chosen) <= Handed
    BY <1>4, ChosenBound
  <2>4. Busy \cap Chosen = {}
    BY DEF Busy, Chosen, FreeWorkers
  <2>5. /\ IsFiniteSet(Busy \cup Chosen)
        /\ Cardinality(Busy \cup Chosen) = Cardinality(Busy) + Cardinality(Chosen)
    <3>1. Cardinality(Busy \cap Chosen) = 0
      BY <2>4, FS_EmptySet
    <3>2. /\ IsFiniteSet(Busy \cup Chosen)
          /\ Cardinality(Busy \cup Chosen) =
                Cardinality(Busy) + Cardinality(Chosen) - Cardinality(Busy \cap Chosen)
      BY <1>0, <2>3, FS_Union
    <3> QED
      BY <1>0, <2>3, <3>1, <3>2
  <2>6. Cardinality(Busy') <= Cardinality(Busy \cup Chosen) /\ Cardinality(Busy') \in Nat
    BY <2>2, <2>5, FS_Subset, FS_CardinalityType
  <2> QED
    BY <1>0, <2>1, <2>3, <2>5, <2>6, DispatchAssumption
<1>5. ASSUME Elapse PROVE Goal
  <2>1. Busy' = Busy
    <3> SUFFICES ASSUME NEW w \in Worker PROVE work'[w] = Free <=> work[w] = Free
      BY DEF Busy
    <3>1. CASE work[w] = Free
      BY <1>5, <3>1 DEF Elapse, Older
    <3>2. CASE work[w] # Free
      <4>1. work[w] \in Job /\ work'[w] = [work[w] EXCEPT !.thisMinute = FALSE]
        BY <1>5, <3>2 DEF Elapse, Older, TypeOK
      <4>2. work'[w] \in Job
        BY <4>1 DEF Job
      <4> QED
        BY <3>2, <4>2 DEF Job, Free
    <3> QED
      BY <3>1, <3>2
  <2>2. Len(pending') = Len(pending)
    BY <1>5 DEF Elapse, TypeOK
  <2> QED
    BY <1>0, <2>1, <2>2
<1>6. ASSUME Restart PROVE Goal
  <2>1. Busy' = {} /\ Len(pending') = 0
    BY <1>6 DEF Restart, Busy
  <2>2. Cardinality(Busy') = 0
    BY <2>1, FS_EmptySet
  <2> QED
    BY <2>1, <2>2, DispatchAssumption
<1> QED
  BY <1>1, <1>2, <1>3, <1>4, <1>5, <1>6
  DEF Next, TickLocked, RunEnds, ManualRun, ManualRunEnds, Evict, vars

(* Every step keeps the types and the capacity. *)
LEMMA TypeNext == Inv /\ [Next]_vars => TypeOK'
<1> SUFFICES ASSUME TypeOK, [Next]_vars,
                    Len(pending') + Cardinality({w \in Worker : work'[w] # Free}) <= MaxPending
             PROVE  TypeOK'
  BY CapacityNext DEF Inv, Busy
<1> USE DispatchAssumption
<1>1. ASSUME NEW t \in Task, TickQueued(t) PROVE TypeOK'
  <2>1. [task |-> t, thisMinute |-> TRUE] \in Job
    BY DEF Job
  <2>2. pending' \in Seq(Job)
    BY <1>1, <2>1 DEF TickQueued, TypeOK
  <2> QED
    BY <1>1, <2>2 DEF TickQueued, TypeOK
<1>2. ASSUME NEW t \in Task, NEW s \in Slot, NEW k \in Kind,
             run' = [run EXCEPT ![s] = [kind |-> k, task |-> t, age |-> 0]]
      PROVE  run' \in [Slot -> {Free} \cup Record]
  <2>1. [kind |-> k, task |-> t, age |-> 0] \in Record
    BY DEF Record
  <2> QED
    BY <1>2, <2>1 DEF TypeOK, Record
<1>3. ASSUME NEW t \in Task, NEW s \in Slot, TickLocked(t, s) PROVE TypeOK'
  <2>1. lock' \in [Names -> 0 .. Ttl]
    BY <1>3 DEF TickLocked, TypeOK, Names
  <2>2. run' \in [Slot -> {Free} \cup Record]
    BY <1>2, <1>3 DEF TickLocked, Kind
  <2> QED
    BY <1>3, <2>1, <2>2 DEF TickLocked, TypeOK, Record
<1>4. ASSUME NEW t \in Task, NEW s \in Slot, ManualRun(t, s) PROVE TypeOK'
  <2>1. run' \in [Slot -> {Free} \cup Record]
    BY <1>2, <1>4 DEF ManualRun, Kind
  <2> QED
    BY <1>4, <2>1 DEF ManualRun, TypeOK, Record
<1>5. ASSUME NEW s \in Slot, RunEnds(s) PROVE TypeOK'
  <2>1. lock' \in [Names -> 0 .. Ttl]
    <3>1. 0 \in 0 .. Ttl
      OBVIOUS
    <3> QED
      BY <1>5, <3>1 DEF RunEnds, TypeOK
  <2>2. run' \in [Slot -> {Free} \cup Record]
    BY <1>5 DEF RunEnds, TypeOK, Record
  <2> QED
    BY <1>5, <2>1, <2>2 DEF RunEnds, TypeOK, Record
<1>6. ASSUME NEW s \in Slot, ManualRunEnds(s) PROVE TypeOK'
  <2>1. run' \in [Slot -> {Free} \cup Record]
    BY <1>6 DEF ManualRunEnds, TypeOK, Record
  <2> QED
    BY <1>6, <2>1 DEF ManualRunEnds, TypeOK, Record
<1>7. ASSUME NEW w \in Worker, JobEnds(w) PROVE TypeOK'
  BY <1>7 DEF JobEnds, TypeOK
<1>8. ASSUME Drain PROVE TypeOK'
  <2>1. \A w \in Chosen : pending[Rank(w)] \in Job
    BY <1>8, DrainFacts, ElementOfSeq DEF TypeOK
  <2>2. work' \in [Worker -> {Free} \cup Job] /\ pending' \in Seq(Job)
    BY <1>8, <2>1, DrainFacts DEF TypeOK
  <2> QED
    BY <1>8, <2>2 DEF Drain, TypeOK
<1>9. ASSUME Elapse PROVE TypeOK'
  <2>1. \A j \in Job : Older(j) \in Job
    BY DEF Older, Job
  <2>2. Older(Free) = Free
    BY DEF Older
  <2>3. work' \in [Worker -> {Free} \cup Job]
    BY <1>9, <2>1, <2>2 DEF Elapse, TypeOK
  <2>4. pending' \in Seq(Job)
    <3>1. Len(pending) \in Nat /\ pending \in [1 .. Len(pending) -> Job]
      BY LenProperties DEF TypeOK
    <3>2. pending' \in [1 .. Len(pending) -> Job]
      BY <1>9, <2>1, <3>1 DEF Elapse
    <3> QED
      BY <3>1, <3>2, SeqDef
  <2>5. \A r \in Record : Aged(r) \in Record
    <3> SUFFICES ASSUME NEW r \in Record PROVE Aged(r) \in Record
      OBVIOUS
    <3>1. CASE r = Free \/ r.age = Ttl
      BY <3>1 DEF Aged
    <3>2. CASE ~(r = Free \/ r.age = Ttl)
      <4>1. r.age + 1 \in 0 .. Ttl
        BY <3>2 DEF Record
      <4>2. Aged(r) = [r EXCEPT !.age = r.age + 1]
        BY <3>2 DEF Aged
      <4> QED
        BY <4>1, <4>2 DEF Record
    <3> QED
      BY <3>1, <3>2
  <2>6. Aged(Free) = Free
    BY DEF Aged
  <2>7. run' \in [Slot -> {Free} \cup Record]
    BY <1>9, <2>5, <2>6 DEF Elapse, TypeOK, Record
  <2>8. lock' \in [Names -> 0 .. Ttl]
    BY <1>9 DEF Elapse, TypeOK
  <2>9. loose' \in BOOLEAN
    BY <1>9, Zenon DEF Elapse, TypeOK
  <2> QED
    BY <1>9, <2>3, <2>4, <2>7, <2>8, <2>9 DEF Elapse, TypeOK, Record
<1>10. ASSUME Restart PROVE TypeOK'
  <2>1. pending' \in Seq(Job) /\ lock' \in [Names -> 0 .. Ttl] /\ run' \in [Slot -> {Free} \cup Record]
    BY <1>10 DEF Restart
  <2> QED
    BY <1>10, <2>1 DEF Restart, TypeOK, Record
<1>11. ASSUME NEW n \in Names, Evict(n) PROVE TypeOK'
  BY <1>11 DEF Evict, TypeOK
<1>12. ASSUME UNCHANGED vars PROVE TypeOK'
  BY <1>12 DEF vars, TypeOK
<1> QED
  BY <1>1, <1>3, <1>4, <1>5, <1>6, <1>7, <1>8, <1>9, <1>10, <1>11, <1>12 DEF Next

-----------------------------------------------------------------------------
(* The lock and the age of its run. *)
LEMMA CronRecord ==
    ASSUME TypeOK
    PROVE  \A s \in Slot : run[s].kind = "cron" =>
               /\ run[s] \in Record /\ run[s] # Free
               /\ run[s].age \in 0 .. Ttl /\ run[s].task \in Task
               /\ Name[run[s].task] \in Names
<1> SUFFICES ASSUME NEW s \in Slot, run[s].kind = "cron"
             PROVE  run[s] \in Record /\ run[s] # Free
  BY DEF Record, Names
<1>1. run[s] \in {Free} \cup Record
  BY DEF TypeOK, Record
<1> QED
  BY <1>1 DEF Free

(* Every step keeps lock and run together, or is recorded as loose. *)
LEMMA LockNext == Inv /\ [Next]_vars => LockInv'
<1> SUFFICES ASSUME Inv, [Next]_vars, ~loose'
             PROVE  /\ \A s \in Slot : run'[s].kind = "cron" =>
                           /\ run'[s].age < Ttl
                           /\ lock'[Name[run'[s].task]] = Ttl - run'[s].age
                    /\ \A r, s \in Slot :
                           run'[r].kind = "cron" /\ run'[s].kind = "cron"
                               /\ Name[run'[r].task] = Name[run'[s].task] => r = s
  BY DEF LockInv
<1> DEFINE Good == /\ \A s \in Slot : run'[s].kind = "cron" =>
                          /\ run'[s].age < Ttl
                          /\ lock'[Name[run'[s].task]] = Ttl - run'[s].age
                   /\ \A r, s \in Slot :
                          run'[r].kind = "cron" /\ run'[s].kind = "cron"
                              /\ Name[run'[r].task] = Name[run'[s].task] => r = s
<1>0. TypeOK /\ lock \in [Names -> 0 .. Ttl]
  BY DEF Inv, TypeOK
<1>1. ASSUME UNCHANGED <<lock, run, loose>> PROVE Good
  BY <1>1 DEF Inv, LockInv
<1>2. ASSUME NEW t \in Task, NEW s \in Slot, TickLocked(t, s) PROVE Good
  <2> DEFINE new == [kind |-> "cron", task |-> t, age |-> 0]
  <2>1. new.kind = "cron" /\ new.task = t /\ new.age = 0 /\ Name[t] \in Names
    BY DEF Names
  <2>2. run' = [run EXCEPT ![s] = new] /\ ~loose
    BY <1>2 DEF TickLocked
  <2> HIDE DEF new
  <2>3. run'[s] = new /\ \A r \in Slot \ {s} : run'[r] = run[r]
    BY <1>0, <2>2 DEF TypeOK
  <2>4. lock' = [lock EXCEPT ![Name[t]] = Ttl] /\ lock[Name[t]] = 0
    BY <1>2 DEF TickLocked
  <2>5. \A r \in Slot : run[r].kind = "cron" => Name[run[r].task] # Name[t]
    BY <1>0, <2>2, <2>4, CronRecord, DispatchAssumption DEF Inv, LockInv
  <2>6. ASSUME NEW r \in Slot, run'[r].kind = "cron"
        PROVE  run'[r].age < Ttl /\ lock'[Name[run'[r].task]] = Ttl - run'[r].age
    <3>1. CASE r = s
      BY <1>0, <2>1, <2>3, <2>4, <3>1, DispatchAssumption
    <3>2. CASE r # s
      BY <1>0, <2>1, <2>2, <2>3, <2>4, <2>5, <2>6, <3>2, CronRecord DEF Inv, LockInv
    <3> QED
      BY <3>1, <3>2
  <2>7. ASSUME NEW q \in Slot, NEW r \in Slot, run'[q].kind = "cron", run'[r].kind = "cron",
               Name[run'[q].task] = Name[run'[r].task]
        PROVE  q = r
    BY <2>1, <2>2, <2>3, <2>5, <2>7 DEF Inv, LockInv
  <2> QED
    BY <2>6, <2>7
<1>3. ASSUME NEW s \in Slot, RunEnds(s) PROVE Good
  <2>1. run'[s] = Free /\ \A r \in Slot \ {s} : run'[r] = run[r]
    BY <1>0, <1>3 DEF RunEnds, TypeOK
  <2>2. lock' = [lock EXCEPT ![Name[run[s].task]] = 0] /\ ~loose /\ run[s].kind = "cron"
    BY <1>3 DEF RunEnds
  <2>3. Free.kind # "cron"
    BY DEF Free
  <2>4. \A r \in Slot : run'[r].kind = "cron" =>
            r # s /\ run[r].kind = "cron" /\ Name[run[r].task] # Name[run[s].task]
    BY <2>1, <2>2, <2>3 DEF Inv, LockInv
  <2> QED
    BY <1>0, <2>1, <2>2, <2>4, CronRecord DEF Inv, LockInv
<1>4. ASSUME NEW t \in Task, NEW s \in Slot, ManualRun(t, s) PROVE Good
  <2>1. run'[s].kind = "manual" /\ \A r \in Slot \ {s} : run'[r] = run[r]
    BY <1>0, <1>4 DEF ManualRun, TypeOK
  <2> QED
    BY <1>4, <2>1 DEF ManualRun, Inv, LockInv
<1>5. ASSUME NEW s \in Slot, ManualRunEnds(s) PROVE Good
  <2>1. run'[s].kind = "free" /\ \A r \in Slot \ {s} : run'[r] = run[r]
    BY <1>0, <1>5 DEF ManualRunEnds, TypeOK, Free
  <2> QED
    BY <1>5, <2>1 DEF ManualRunEnds, Inv, LockInv
<1>6. ASSUME Elapse PROVE Good
  <2>1. ~loose
    BY <1>6 DEF Elapse
  <2>2. ASSUME NEW s \in Slot, run'[s].kind = "cron"
        PROVE  /\ run[s].kind = "cron" /\ run'[s].task = run[s].task
               /\ run'[s].age = run[s].age + 1 /\ run'[s].age < Ttl
    <3>1. run'[s] = Aged(run[s]) /\ run[s] \in {Free} \cup Record
      BY <1>0, <1>6 DEF Elapse, TypeOK, Record
    <3>2. run[s] \in Record /\ run[s] # Free
      BY <2>2, <3>1 DEF Aged, Free
    <3>3. run[s].kind = "cron"
      BY <2>2, <3>1, <3>2 DEF Aged, Record
    <3>4. run[s].age \in Nat /\ run[s].age < Ttl
      BY <1>0, <2>1, <3>3, CronRecord DEF Inv, LockInv
    <3>5. /\ run'[s] = [run[s] EXCEPT !.age = run[s].age + 1]
          /\ run'[s].task = run[s].task /\ run'[s].age = run[s].age + 1
      BY <3>1, <3>2, <3>4, DispatchAssumption DEF Aged, Record
    <3>6. run'[s] # Free
      BY <2>2 DEF Free
    <3>7. run'[s].age # Ttl
      BY <1>6, <2>2, <3>6 DEF Elapse
    <3> QED
      BY <3>3, <3>4, <3>5, <3>7, DispatchAssumption
  <2>3. ASSUME NEW s \in Slot, run'[s].kind = "cron"
        PROVE  lock'[Name[run'[s].task]] = Ttl - run'[s].age
    <3>1. /\ run[s].age \in Nat /\ run[s].age < Ttl /\ Name[run[s].task] \in Names
          /\ lock[Name[run[s].task]] = Ttl - run[s].age
      BY <1>0, <2>1, <2>2, <2>3, CronRecord DEF Inv, LockInv
    <3>2. lock'[Name[run[s].task]] = Ttl - run[s].age - 1
      BY <1>6, <3>1, DispatchAssumption DEF Elapse
    <3> QED
      BY <2>2, <2>3, <3>1, <3>2, DispatchAssumption
  <2>4. \A r, s \in Slot : run'[r].kind = "cron" /\ run'[s].kind = "cron"
                               /\ Name[run'[r].task] = Name[run'[s].task] => r = s
    BY <2>1, <2>2 DEF Inv, LockInv
  <2> QED
    BY <2>2, <2>3, <2>4
<1>7. ASSUME Restart PROVE Good
  BY <1>7 DEF Restart, Free
<1>8. ASSUME NEW n \in Names, Evict(n) PROVE Good
  BY <1>8 DEF Evict
<1> QED
  BY <1>1, <1>2, <1>3, <1>4, <1>5, <1>6, <1>7, <1>8
  DEF Next, TickQueued, Drain, JobEnds, vars

-----------------------------------------------------------------------------
(* One place per job id of the current minute. *)
LEMMA UniqueNext == Inv /\ [Next]_vars => UniqueInv'
<1> SUFFICES ASSUME Inv, [Next]_vars PROVE UniqueInv'
  OBVIOUS
<1>0. /\ TypeOK /\ UniqueInv /\ Len(pending) \in Nat
      /\ DOMAIN pending = 1 .. Len(pending) /\ work \in [Worker -> {Free} \cup Job]
  BY LenProperties DEF Inv, TypeOK
<1>1. ASSUME UNCHANGED <<pending, work>> PROVE UniqueInv'
  BY <1>0, <1>1 DEF UniqueInv
<1>2. ASSUME NEW t \in Task, TickQueued(t) PROVE UniqueInv'
  <2> DEFINE j == [task |-> t, thisMinute |-> TRUE]
  <2>1. j \in Job
    BY DEF Job
  <2>2. pending' = Append(pending, j) /\ work' = work /\ ~Known(j)
    BY <1>2 DEF TickQueued
  <2> HIDE DEF j
  <2>3. /\ DOMAIN pending' = 1 .. Len(pending) + 1
        /\ \A i \in 1 .. Len(pending) : pending'[i] = pending[i]
        /\ pending'[Len(pending) + 1] = j
    BY <1>0, <2>1, <2>2 DEF TypeOK
  <2>4. /\ \A i \in DOMAIN pending : pending[i] # j
        /\ \A w \in Worker : work[w] # j
    BY <2>2 DEF Known
  <2>5. \A i \in DOMAIN pending' : i \in DOMAIN pending \/ i = Len(pending) + 1
    BY <1>0, <2>3
  <2>6. \A i, k \in DOMAIN pending' :
            pending'[i].thisMinute /\ pending'[i] = pending'[k] => i = k
    BY <1>0, <2>3, <2>4, <2>5 DEF UniqueInv
  <2>7. \A i \in DOMAIN pending', w \in Worker :
            ~(pending'[i].thisMinute /\ pending'[i] = work[w])
    BY <1>0, <2>3, <2>4, <2>5 DEF UniqueInv
  <2> QED
    BY <1>0, <2>2, <2>6, <2>7 DEF UniqueInv
<1>3. ASSUME NEW w \in Worker, JobEnds(w) PROVE UniqueInv'
  <2>1. /\ pending' = pending /\ work'[w] = Free
        /\ \A v \in Worker \ {w} : work'[v] = work[v]
    BY <1>0, <1>3 DEF JobEnds
  <2>2. \A i \in DOMAIN pending : pending[i] # Free
    <3>1. \A i \in DOMAIN pending : pending[i] \in Job
      BY <1>0, ElementOfSeq DEF TypeOK
    <3>2. \A x \in Job : x # Free
      BY DEF Job, Free
    <3> QED
      BY <3>1, <3>2
  <2> QED
    BY <1>0, <2>1, <2>2 DEF UniqueInv
<1>4. ASSUME Drain PROVE UniqueInv'
  <2>1. /\ Handed \in Nat /\ Chosen \subseteq Worker
        /\ \A w \in Chosen : Rank(w) \in 1 .. Handed /\ Rank(w) \in DOMAIN pending
        /\ work' = [w \in Worker |-> IF w \in Chosen THEN pending[Rank(w)] ELSE work[w]]
        /\ DOMAIN pending' = 1 .. Len(pending')
        /\ \A i \in DOMAIN pending' :
               /\ i + Handed \in DOMAIN pending /\ pending'[i] = pending[i + Handed]
               /\ i \in Nat \ {0}
    <3>1. pending' \in Seq(Job)
      BY <1>0, <1>4, DrainFacts
    <3>2. DOMAIN pending' = 1 .. Len(pending') /\ Len(pending') \in Nat
      BY <3>1, LenProperties
    <3> QED
      BY <1>0, <1>4, <3>2, DrainFacts, HandedBound
  <2>2. \A i, k \in DOMAIN pending' :
            pending'[i].thisMinute /\ pending'[i] = pending'[k] => i = k
    <3> SUFFICES ASSUME NEW i \in DOMAIN pending', NEW k \in DOMAIN pending',
                        pending'[i].thisMinute, pending'[i] = pending'[k]
                 PROVE  i = k
      OBVIOUS
    <3>1. i + Handed = k + Handed
      BY <1>0, <2>1 DEF UniqueInv
    <3> QED
      BY <2>1, <3>1
  <2>3. \A v, w \in Worker :
            work'[v] # Free /\ work'[v].thisMinute /\ work'[v] = work'[w] => v = w
    <3> SUFFICES ASSUME NEW v \in Worker, NEW w \in Worker, work'[v] # Free,
                        work'[v].thisMinute, work'[v] = work'[w]
                 PROVE  v = w
      OBVIOUS
    <3>1. CASE v \in Chosen /\ w \in Chosen
      <4>1. Rank(v) = Rank(w)
        BY <1>0, <2>1, <3>1 DEF UniqueInv
      <4> QED
        BY <3>1, <4>1, RankFacts DEF Chosen
    <3>2. CASE v \in Chosen /\ w \notin Chosen
      BY <1>0, <2>1, <3>2 DEF UniqueInv
    <3>3. CASE v \notin Chosen /\ w \in Chosen
      BY <1>0, <2>1, <3>3 DEF UniqueInv
    <3>4. CASE v \notin Chosen /\ w \notin Chosen
      BY <1>0, <2>1, <3>4 DEF UniqueInv
    <3> QED
      BY <3>1, <3>2, <3>3, <3>4
  <2>4. \A i \in DOMAIN pending', w \in Worker :
            ~(pending'[i].thisMinute /\ pending'[i] = work'[w])
    <3> SUFFICES ASSUME NEW i \in DOMAIN pending', NEW w \in Worker,
                        pending'[i].thisMinute, pending'[i] = work'[w]
                 PROVE  FALSE
      OBVIOUS
    <3>1. CASE w \in Chosen
      <4>1. i + Handed = Rank(w)
        BY <1>0, <2>1, <3>1 DEF UniqueInv
      <4>2. Rank(w) <= Handed /\ Rank(w) \in Nat /\ i \in Nat \ {0}
        BY <2>1, <3>1
      <4> QED
        BY <2>1, <4>1, <4>2
    <3>2. CASE w \notin Chosen
      BY <1>0, <2>1, <3>2 DEF UniqueInv
    <3> QED
      BY <3>1, <3>2
  <2> QED
    BY <2>2, <2>3, <2>4 DEF UniqueInv
<1>5. ASSUME Elapse PROVE UniqueInv'
  <2>1. \A x \in Job : Older(x).thisMinute = FALSE
    <3>1. \A x \in Job : x # Free
      BY DEF Job, Free
    <3> QED
      BY <3>1 DEF Older, Job
  <2>2. \A i \in DOMAIN pending : pending[i] \in Job
    BY <1>0, ElementOfSeq DEF TypeOK
  <2>3. DOMAIN pending' = DOMAIN pending /\ \A i \in DOMAIN pending : pending'[i].thisMinute = FALSE
    BY <1>5, <2>1, <2>2 DEF Elapse
  <2>4. \A w \in Worker : work'[w] # Free => work'[w].thisMinute = FALSE
    BY <1>0, <1>5, <2>1 DEF Elapse, Older
  <2> QED
    BY <2>3, <2>4 DEF UniqueInv
<1>6. ASSUME Restart PROVE UniqueInv'
  <2>1. DOMAIN pending' = {} /\ \A w \in Worker : work'[w] = Free
    BY <1>6 DEF Restart
  <2> QED
    BY <2>1 DEF UniqueInv
<1> QED
  BY <1>1, <1>2, <1>3, <1>4, <1>5, <1>6
  DEF Next, TickLocked, RunEnds, ManualRun, ManualRunEnds, Evict, vars

-----------------------------------------------------------------------------
(* Inv holds in every reachable state. *)
THEOREM Invariance == Spec => []Inv
<1>1. Inv /\ [Next]_vars => Inv'
  BY TypeNext, LockNext, UniqueNext DEF Inv
<1> QED
  BY InvInit, <1>1, PTL DEF Spec

(* Every variable stays in its type, and the in-process queue never holds  *)
(* more than JOB_QUEUE_MAX_PENDING jobs, those its handler works on        *)
(* included: no drain starts more jobs than it takes out of the line.      *)
THEOREM TypeCorrect == Spec => []TypeOK
<1>1. Inv => TypeOK
  BY DEF Inv
<1> QED
  BY Invariance, <1>1, PTL

(* acquireLock and releaseLock keep two cron runs of one task name apart   *)
(* until a run outlives the lock's TTL or the cache evicts a lock.         *)
THEOREM OneRunHolds == Spec => []OneRunAtATime
<1> QED
  BY Invariance, OneRunFollows, PTL

(* A scheduled job is never twice in the queue within its minute, neither  *)
(* in line nor at work, for any number of workers that Drain feeds.        *)
THEOREM QueuedOnceHolds == Spec => []QueuedOnce
<1> QED
  BY Invariance, QueuedOnceFollows, PTL
=============================================================================
