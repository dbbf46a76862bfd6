---------------------------- MODULE TaskDispatch ----------------------------
(***************************************************************************)
(* Who runs a scheduled task, in a deployment of one node: the scheduler   *)
(* with its lock in the memory cache (no REDIS_URL), or the scheduler      *)
(* feeding the in-process job queue (REDIS_URL without the bullmq          *)
(* package), and an operator who starts a task by hand.  A JavaScript      *)
(* callback is atomic between two awaits that leave the process; awaits of *)
(* the memory cache do not leave it, so acquireLock is one step.           *)
(***************************************************************************)
EXTENDS Integers, Sequences, FiniteSets, FiniteSetsExt

CONSTANTS Task,        \* rows of scheduled_tasks
          Name,        \* the task_name of each row; organizations share names
          Slot,        \* inline runs that may be under way at once (a bound)
          Worker,      \* the JOB_QUEUE_CONCURRENCY jobs the queue runs at once, as numbers
          MaxPending,  \* JOB_QUEUE_MAX_PENDING
          Ttl          \* the lock's time to live, in clock steps

ASSUME DispatchAssumption ==
    /\ DOMAIN Name = Task /\ Worker \subseteq Nat /\ IsFiniteSet(Worker)
    /\ MaxPending \in Nat \ {0} /\ Ttl \in Nat \ {0}

VARIABLES queued,   \* REDIS_URL is set: cron callbacks feed the queue
          lock,     \* lock[n]: clock steps until the lock of task name n expires, 0 if absent
          run,      \* inline runs: of cron callbacks and of POST /scheduled-tasks/:id/run
          pending,  \* jobs waiting in the in-process queue, in order
          work,     \* jobs its handler is at work on
          wakeup,   \* drainScheduled: a setImmediate callback is due
          loose     \* a lock expired or was evicted under its run (for the properties)

vars == <<queued, lock, run, pending, work, wakeup, loose>>

Free == [kind |-> "free"]
Names == {Name[t] : t \in Task}
Kind == {"cron", "manual"}

\* A job id is task, organization and minute.  Only jobs of the current minute
\* can meet an equal id again, so a job remembers whether it is of this minute.
Job == [task : Task, thisMinute : BOOLEAN]

\* A mutation: the id is forgotten when the job starts.
KnownWaiting(j) == \E k \in DOMAIN pending : pending[k] = j

Known(j) == (\E k \in DOMAIN pending : pending[k] = j) \/ (\E w \in Worker : work[w] = j)

Init ==
    /\ queued \in BOOLEAN
    /\ lock = [n \in Names |-> 0]
    /\ run = [s \in Slot |-> Free]
    /\ pending = <<>>
    /\ work = [w \in Worker |-> Free]
    /\ wakeup = FALSE
    /\ loose = FALSE

-----------------------------------------------------------------------------
(* The scheduler without Redis: acquireLock, runTask, releaseLock.         *)

\* A mutation: the lock is set without looking for one.
TickUnchecked(t, s) ==
    /\ ~queued /\ run[s] = Free
    /\ lock' = [lock EXCEPT ![Name[t]] = Ttl]
    /\ run' = [run EXCEPT ![s] = [kind |-> "cron", task |-> t, age |-> 0]]
    /\ UNCHANGED <<queued, pending, work, wakeup, loose>>

TickLocked(t, s) ==
    /\ ~queued /\ run[s] = Free
    /\ lock[Name[t]] = 0
    /\ lock' = [lock EXCEPT ![Name[t]] = Ttl]
    /\ run' = [run EXCEPT ![s] = [kind |-> "cron", task |-> t, age |-> 0]]
    /\ UNCHANGED <<queued, pending, work, wakeup, loose>>

\* The run returns or throws; the finally branch deletes the key, whoever set it.
RunEnds(s) ==
    /\ run[s].kind = "cron"
    /\ lock' = [lock EXCEPT ![Name[run[s].task]] = 0]
    /\ run' = [run EXCEPT ![s] = Free]
    /\ UNCHANGED <<queued, pending, work, wakeup, loose>>

\* POST /scheduled-tasks/:id/run takes no lock.
ManualRun(t, s) ==
    /\ run[s] = Free
    /\ run' = [run EXCEPT ![s] = [kind |-> "manual", task |-> t, age |-> 0]]
    /\ UNCHANGED <<queued, lock, pending, work, wakeup, loose>>

ManualRunEnds(s) ==
    /\ run[s].kind = "manual"
    /\ run' = [run EXCEPT ![s] = Free]
    /\ UNCHANGED <<queued, lock, pending, work, wakeup, loose>>

-----------------------------------------------------------------------------
(* The scheduler with REDIS_URL: InProcessQueue.add, drain and the         *)
(* 'scheduled-task' worker.                                                *)

\* A mutation: the jobs at work do not count.
HasRoomInLine == Len(pending) < MaxPending

\* Waiting jobs and those at work share the capacity.
HasRoom == Len(pending) + Cardinality({w \in Worker : work[w] # Free}) < MaxPending

\* A job with a known id is dropped; a full queue throws, and the cron callback
\* swallows the error.  Either way nothing changes.
TickQueued(t) ==
    LET j == [task |-> t, thisMinute |-> TRUE] IN
    /\ queued /\ ~Known(j) /\ HasRoom
    /\ pending' = Append(pending, j)
    /\ wakeup' = TRUE
    /\ UNCHANGED <<queued, lock, run, work, loose>>

\* The setImmediate callback: the loop hands out jobs while a worker is free.
Rank(w) == Cardinality({v \in Worker : work[v] = Free /\ v <= w})

Drain ==
    LET handed == Min({Len(pending), Cardinality({w \in Worker : work[w] = Free})}) IN
    /\ wakeup
    /\ wakeup' = FALSE
    /\ work' = [w \in Worker |->
                   IF work[w] = Free /\ Rank(w) <= handed THEN pending[Rank(w)] ELSE work[w]]
    /\ pending' = SubSeq(pending, handed + 1, Len(pending))
    /\ UNCHANGED <<queued, lock, run, loose>>

\* A mutation: the end of a job does not look for the next one.
JobEndsQuietly(w) ==
    /\ work[w] # Free
    /\ work' = [work EXCEPT ![w] = Free]
    /\ UNCHANGED <<queued, lock, run, pending, wakeup, loose>>

\* The handler resolves or rejects; the id is forgotten and a drain is scheduled.
JobEnds(w) ==
    /\ work[w] # Free
    /\ work' = [work EXCEPT ![w] = Free]
    /\ wakeup' = TRUE
    /\ UNCHANGED <<queued, lock, run, pending, loose>>

-----------------------------------------------------------------------------
(* The clock, the cache's capacity and the process.                        *)

Older(x) == IF x = Free THEN x ELSE [x EXCEPT !.thisMinute = FALSE]
Aged(r) == IF r = Free \/ r.age = Ttl THEN r ELSE [r EXCEPT !.age = @ + 1]

\* A mutation: the key is set without an expiry.
ElapseForever ==
    /\ run' = [s \in Slot |-> Aged(run[s])]
    /\ pending' = [k \in DOMAIN pending |-> Older(pending[k])]
    /\ work' = [w \in Worker |-> Older(work[w])]
    /\ loose' = (loose \/ \E s \in Slot : run'[s] # Free /\ run'[s].kind = "cron" /\ run'[s].age = Ttl)
    /\ UNCHANGED <<queued, lock, wakeup>>

\* A clock step of MemoryCache's TTL, which also starts a new minute.
Elapse ==
    /\ lock' = [n \in Names |-> IF lock[n] = 0 THEN 0 ELSE lock[n] - 1]
    /\ run' = [s \in Slot |-> Aged(run[s])]
    /\ pending' = [k \in DOMAIN pending |-> Older(pending[k])]
    /\ work' = [w \in Worker |-> Older(work[w])]
    /\ loose' = (loose \/ \E s \in Slot : run'[s] # Free /\ run'[s].kind = "cron" /\ run'[s].age = Ttl)
    /\ UNCHANGED <<queued, wakeup>>

\* MemoryCache.set of other keys pushes the lock out of a full cache.
Evict(n) ==
    /\ lock[n] > 0
    /\ lock' = [lock EXCEPT ![n] = 0]
    /\ loose' = TRUE
    /\ UNCHANGED <<queued, run, pending, work, wakeup>>

\* Locks, runs and queue live in the memory of the process.
Restart ==
    /\ lock' = [n \in Names |-> 0]
    /\ run' = [s \in Slot |-> Free]
    /\ pending' = <<>>
    /\ work' = [w \in Worker |-> Free]
    /\ wakeup' = FALSE
    /\ loose' = FALSE
    /\ UNCHANGED queued

-----------------------------------------------------------------------------
Next ==
    \/ \E t \in Task : TickQueued(t) \/ \E s \in Slot : TickLocked(t, s) \/ ManualRun(t, s)
    \/ \E s \in Slot : RunEnds(s) \/ ManualRunEnds(s)
    \/ \E w \in Worker : JobEnds(w)
    \/ Drain \/ Elapse \/ Restart
    \/ \E n \in Names : Evict(n)

Spec == Init /\ [][Next]_vars

\* The event loop serves its callbacks, the clock goes on, and a job's handler
\* ends: its database and network calls carry timeouts.  An inline run may hang.
FairSpec ==
    /\ Spec
    /\ WF_vars(Elapse) /\ WF_vars(Drain)
    /\ \A w \in Worker : WF_vars(JobEnds(w))

-----------------------------------------------------------------------------
(* Types; the jobs the queue holds and runs stay within its capacity. *)
TypeOK ==
    /\ queued \in BOOLEAN /\ wakeup \in BOOLEAN /\ loose \in BOOLEAN
    /\ lock \in [Names -> 0 .. Ttl]
    /\ run \in [Slot -> {Free} \cup [kind : Kind, task : Task, age : 0 .. Ttl]]
    /\ pending \in Seq(Job) /\ work \in [Worker -> {Free} \cup Job]
    /\ Len(pending) + Cardinality({w \in Worker : work[w] # Free}) <= MaxPending

Runs(n) == {s \in Slot : run[s] # Free /\ run[s].kind = "cron" /\ Name[run[s].task] = n}

(* The lock keeps the cron runs of one task name apart, as long as no run   *)
(* has outlived the lock's TTL and the cache has not evicted a lock since   *)
(* the process started: releaseLock deletes the key without asking who owns *)
(* it, so one slow run is enough to let later, quick runs overlap as well.  *)
OneRunAtATime == ~loose => \A n \in Names : Cardinality(Runs(n)) <= 1

(* The job of one task and minute is in the queue once: it is neither       *)
(* queued again while it waits nor started again while it runs.             *)
QueuedOnce ==
    \A t \in Task :
        LET j == [task |-> t, thisMinute |-> TRUE] IN
        Cardinality({k \in DOMAIN pending : pending[k] = j})
            + Cardinality({w \in Worker : work[w] = j}) <= 1

(* A task whose run hangs is not blocked for ever: its lock keeps expiring. *)
LockFrees == \A n \in Names : []<>(lock[n] = 0)

(* No wakeup is lost: a queue with work in it keeps handing jobs out, or    *)
(* becomes empty again and again.                                           *)
QueueMoves == []<>(pending = <<>>) \/ []<><<Drain /\ work' # work>>_vars
=============================================================================
