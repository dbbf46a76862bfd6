--------------------------- MODULE CircuitBreaker ---------------------------
(***************************************************************************)
(* utils/circuitBreaker.js: the breaker that wraps every call to a RADIUS  *)
(* server, a payment gateway, a PAC or a relay node.  One breaker object   *)
(* is shared by all the requests of a Node process.  Each JavaScript       *)
(* function body is atomic; call() is not, because it awaits fn() between  *)
(* the check of isOpen() and the recording of the outcome.                 *)
(*                                                                         *)
(* Time is kept as the age of the last failure, Date.now() - lastFailure,  *)
(* saturated one past the cooldown: isOpen() is the only reader and only   *)
(* asks whether that difference exceeds resetMs.  The failure counter has  *)
(* no limit in the code; MaxFailures bounds it by ending the admission of  *)
(* new calls, never by changing how a call in flight settles.              *)
(***************************************************************************)
EXTENDS Naturals, FiniteSets

CONSTANTS Caller,      \* concurrent users of the breaker
          Threshold,   \* consecutive failures that open the circuit
          ResetMs,     \* cooldown
          MaxFailures  \* bound: failures recorded and still possible

ASSUME BreakerAssumption ==
  /\ IsFiniteSet(Caller)
  /\ Threshold \in Nat \ {0}
  /\ ResetMs \in Nat
  /\ MaxFailures \in Nat

VARIABLES failures,    \* failures recorded since the last success or reset
          age,         \* Date.now() - lastFailure
          state,       \* the cached label reported by getState()
          pc,          \* pc[c]: "idle", or awaiting fn() inside call()
          \* The variables below belong to the properties, not to the code.
          probe,       \* callers whose pending call was let through half-open
          probed,      \* a probe was let through since the last success
          streak       \* outcomes seen by the service since its last success

breaker == <<failures, age, state, pc, probe, probed, streak>>

Cooled == ResetMs + 1

InFlight == {c \in Caller : pc[c] = "await"}

BreakerTypeOK ==
  /\ failures \in Nat
  /\ age \in 0..Cooled
  /\ state \in {"closed", "open", "half-open"}
  /\ pc \in [Caller -> {"idle", "await"}]
  /\ probe \in SUBSET Caller
  /\ probed \in BOOLEAN
  /\ streak \in Nat

BreakerInit ==
  /\ failures = 0
  /\ age = Cooled              \* lastFailure = 0 is the distant past
  /\ state = "closed"
  /\ pc = [c \in Caller |-> "idle"]
  /\ probe = {}
  /\ probed = FALSE
  /\ streak = 0

-----------------------------------------------------------------------------
(* A mutation of isOpen(): the cooldown never ends. *)
OpenForGood == failures >= Threshold

(* isOpen(): its result, and the label it leaves behind. *)
IsOpen == failures >= Threshold /\ ~(age > ResetMs)
IsOpenLabel == IF failures < Threshold THEN "closed"
               ELSE IF age > ResetMs THEN "half-open" ELSE "open"

(* call(fn), up to the await: a rejected call leaves nothing in flight. *)
CallRejected(c) ==
  /\ pc[c] = "idle" /\ IsOpen
  /\ state' = IsOpenLabel
  /\ UNCHANGED <<failures, age, pc, probe, probed, streak>>

(* A mutation of call(): isOpen() is not asked. *)
CallUnchecked(c) ==
  /\ pc[c] = "idle"
  /\ failures + Cardinality(InFlight) < MaxFailures
  /\ pc' = [pc EXCEPT ![c] = "await"]
  /\ UNCHANGED <<failures, age, state, probe, probed, streak>>

CallAdmitted(c) ==
  /\ pc[c] = "idle" /\ ~IsOpen
  /\ failures + Cardinality(InFlight) < MaxFailures
  /\ state' = IsOpenLabel
  /\ pc' = [pc EXCEPT ![c] = "await"]
  /\ probe' = IF IsOpenLabel = "half-open" THEN probe \cup {c} ELSE probe
  /\ probed' = (probed \/ IsOpenLabel = "half-open")
  /\ UNCHANGED <<failures, age, streak>>

(* A mutation of recordSuccess(): the counter is not cleared. *)
RecordSuccessKeepsCount(c) ==
  /\ pc[c] = "await"
  /\ state' = "closed"
  /\ pc' = [pc EXCEPT ![c] = "idle"]
  /\ probe' = probe \ {c}
  /\ probed' = FALSE
  /\ streak' = 0
  /\ UNCHANGED <<failures, age>>

(* A mutation of recordSuccess(): one failure is forgiven at a time, also  *)
(* when there is none to forgive.                                          *)
RecordSuccessDecrements(c) ==
  /\ pc[c] = "await"
  /\ failures' = failures - 1
  /\ state' = "closed"
  /\ pc' = [pc EXCEPT ![c] = "idle"]
  /\ probe' = probe \ {c}
  /\ probed' = FALSE
  /\ streak' = 0
  /\ UNCHANGED age

(* fn() resolves: recordSuccess(). *)
RecordSuccess(c) ==
  /\ pc[c] = "await"
  /\ failures' = 0
  /\ state' = "closed"
  /\ pc' = [pc EXCEPT ![c] = "idle"]
  /\ probe' = probe \ {c}
  /\ probed' = FALSE
  /\ streak' = 0
  /\ UNCHANGED age

(* fn() rejects: recordFailure(). *)
RecordFailure(c) ==
  /\ pc[c] = "await"
  /\ failures' = failures + 1
  /\ age' = 0
  /\ state' = IF failures + 1 >= Threshold THEN "open" ELSE state
  /\ pc' = [pc EXCEPT ![c] = "idle"]
  /\ probe' = probe \ {c}
  /\ streak' = streak + 1
  /\ UNCHANGED probed

(* getState() refreshes the label through isOpen(). *)
GetState ==
  /\ state' = IsOpenLabel
  /\ UNCHANGED <<failures, age, pc, probe, probed, streak>>

(* reset(), the operator's manual close. *)
Reset ==
  /\ failures' = 0
  /\ age' = Cooled
  /\ state' = "closed"
  /\ probed' = FALSE
  /\ streak' = 0
  /\ UNCHANGED <<pc, probe>>

(* The clock. *)
Tick ==
  /\ age < Cooled
  /\ age' = age + 1
  /\ UNCHANGED <<failures, state, pc, probe, probed, streak>>

BreakerNext ==
  \/ \E c \in Caller : \/ CallRejected(c) \/ CallAdmitted(c)
                       \/ RecordSuccess(c) \/ RecordFailure(c)
  \/ GetState \/ Reset \/ Tick

BreakerSpec == BreakerInit /\ [][BreakerNext]_breaker

(* Every awaited call settles (each wrapped call carries its own timeout), *)
(* and the clock advances.                                                 *)
BreakerFairness ==
  /\ WF_breaker(Tick)
  /\ \A c \in Caller : WF_breaker(RecordSuccess(c) \/ RecordFailure(c))
FairBreaker == BreakerSpec /\ BreakerFairness

-----------------------------------------------------------------------------
(* A caller is turned away only during an outage: while the breaker is     *)
(* open the wrapped service has failed Threshold times in a row, with no   *)
(* success in between, whatever the order in which overlapping calls       *)
(* settle, and its label never claims "open" for a shorter streak.         *)
OpenMeansOutage == /\ IsOpen => streak >= Threshold
                   /\ state = "open" => streak >= Threshold

(* What a dead service costs before it is given a cooldown: as long as no  *)
(* probe has gone through, the failures counted and the calls that can     *)
(* still fail are together at most Threshold - 1 and one for each caller.  *)
(* The calls already past isOpen() when the circuit opens are the whole    *)
(* overrun, in whatever order they settle.                                 *)
OverrunBounded ==
  ~probed => failures + Cardinality(InFlight)
               <= (Threshold - 1) + Cardinality(Caller)

(* The breaker never stays shut for good: stragglers that keep failing     *)
(* restart the cooldown, but there are finitely many of them, so a call is *)
(* eventually let through again.                                           *)
CircuitReopens == IsOpen ~> ~IsOpen

(* What the header of circuitBreaker.js and docs/architecture.md promise:  *)
(* after the cooldown a single probe request goes through.                 *)
SingleProbe == Cardinality(probe) <= 1

=============================================================================
