------------------------------ MODULE Backend ------------------------------
(***************************************************************************)
(* The runtime state of the upstream servers (backend/backend.go).         *)
(*                                                                         *)
(* Every method of *Backend takes b.mu for its whole body, so a method is  *)
(* one atomic step.  This module holds the state and the methods; who      *)
(* calls them, and in which order, is in module Proxy.                     *)
(*                                                                         *)
(* A backend is named by its index in the slice that main builds, which    *)
(* the server, the strategies and the health checker all share.            *)
(***************************************************************************)
EXTENDS Integers

CONSTANTS
  NumBackends,       \* len(backends)
  MaxFailures,       \* failures that trip a closed circuit (5 in the code)
  OpenStateTimeout,  \* cooldown of an open circuit, in ticks (10 seconds)
  Samples            \* latencies a request may take

ASSUME NumBackendsAssumption == NumBackends \in Nat \ {0}
ASSUME MaxFailuresAssumption == MaxFailures \in Nat \ {0}
ASSUME TimeoutAssumption == OpenStateTimeout \in Nat \ {0}
ASSUME SamplesAssumption == Samples \subseteq Nat

Backends == 0 .. (NumBackends - 1)

VARIABLES
  alive,              \* alive[b]: verdict of the last health check
  circuit,            \* circuit[b]: state of the circuit breaker
  failureCount,       \* failureCount[b]: failures since the last success
  sinceFailure,       \* sinceFailure[b]: time.Since(LastFailure), in ticks
  activeConnections,  \* activeConnections[b]
  avgLatency          \* avgLatency[b]: moving average, 0 when never recorded

backendVars == <<alive, circuit, failureCount, sinceFailure,
                 activeConnections, avgLatency>>

CircuitState == {"Closed", "Open", "HalfOpen"}

----------------------------------------------------------------------------
(* FailureCount is compared with MaxFailures and nothing else, and time    *)
(* since the last failure with OpenStateTimeout and nothing else: each is  *)
(* kept exact up to that value and saturates there.                        *)

UpTo(bound, n) == IF n < bound THEN n ELSE bound

CooldownOver(b) == sinceFailure[b] >= OpenStateTimeout

(* LastFailure starts as the zero time, further back than any cooldown.    *)
BackendInit ==
  /\ alive = [b \in Backends |-> TRUE]
  /\ circuit = [b \in Backends |-> "Closed"]
  /\ failureCount = [b \in Backends |-> 0]
  /\ sinceFailure = [b \in Backends |-> OpenStateTimeout]
  /\ activeConnections = [b \in Backends |-> 0]
  /\ avgLatency = [b \in Backends |-> 0]

----------------------------------------------------------------------------
(* Queries.                                                                *)

IsAlive(b) == circuit[b] # "Open" /\ alive[b]

(* Mutant: an open circuit is left to the health checker.                  *)
CheckCircuitState_NoTrial(b) ==
  \/ circuit[b] = "HalfOpen"
  \/ circuit[b] = "Closed" /\ alive[b]

(* May this backend be tried?  An open circuit says so once its cooldown   *)
(* is over, a half-open one always does; only a closed one asks alive.     *)
CheckCircuitState(b) ==
  \/ circuit[b] = "Open" /\ CooldownOver(b)
  \/ circuit[b] = "HalfOpen"
  \/ circuit[b] = "Closed" /\ alive[b]

CanAttemptHalfOpen(b) == CooldownOver(b)

----------------------------------------------------------------------------
(* Updates.                                                                *)

SetAlive(b, verdict) ==
  /\ alive' = [alive EXCEPT ![b] = verdict]
  /\ UNCHANGED <<circuit, failureCount, sinceFailure, activeConnections,
                 avgLatency>>

IncConnections(b) ==
  /\ activeConnections' = [activeConnections EXCEPT ![b] = @ + 1]
  /\ UNCHANGED <<alive, circuit, failureCount, sinceFailure, avgLatency>>

DecConnections(b) ==
  /\ activeConnections' =
       [activeConnections EXCEPT ![b] = IF @ > 0 THEN @ - 1 ELSE @]
  /\ UNCHANGED <<alive, circuit, failureCount, sinceFailure, avgLatency>>

(* Mutant: both factors are made durations before they are multiplied.     *)
RecordLatency_NoFractions(b, sample) ==
  /\ avgLatency' = [avgLatency EXCEPT ![b] = IF @ = 0 THEN sample ELSE 0]
  /\ UNCHANGED <<alive, circuit, failureCount, sinceFailure,
                 activeConnections>>

(* (1 - alpha) * avg + alpha * sample with alpha = 0.2, truncated.         *)
RecordLatency(b, sample) ==
  /\ avgLatency' = [avgLatency EXCEPT
       ![b] = IF @ = 0 THEN sample ELSE (4 * @ + sample) \div 5]
  /\ UNCHANGED <<alive, circuit, failureCount, sinceFailure,
                 activeConnections>>

(* Mutants: the threshold is passed, not reached; only the failure that    *)
(* opens the circuit sets LastFailure.                                     *)
RecordFailure_Late(b) ==
  /\ failureCount' =
       [failureCount EXCEPT ![b] = UpTo(MaxFailures, @ + 1)]
  /\ sinceFailure' = [sinceFailure EXCEPT ![b] = 0]
  /\ circuit' = [circuit EXCEPT
       ![b] = IF @ = "Closed" /\ failureCount[b] + 1 > MaxFailures
              THEN "Open" ELSE @]
  /\ UNCHANGED <<alive, activeConnections, avgLatency>>

RecordFailure_OnceOpen(b) ==
  /\ failureCount' =
       [failureCount EXCEPT ![b] = UpTo(MaxFailures, @ + 1)]
  /\ sinceFailure' = [sinceFailure EXCEPT ![b] = IF circuit[b] = "Open" THEN @ ELSE 0]
  /\ circuit' = [circuit EXCEPT
       ![b] = IF @ = "Closed" /\ failureCount[b] + 1 >= MaxFailures
              THEN "Open" ELSE @]
  /\ UNCHANGED <<alive, activeConnections, avgLatency>>

RecordFailure(b) ==
  /\ failureCount' =
       [failureCount EXCEPT ![b] = UpTo(MaxFailures, @ + 1)]
  /\ sinceFailure' = [sinceFailure EXCEPT ![b] = 0]
  /\ circuit' = [circuit EXCEPT
       ![b] = IF @ = "Closed" /\ failureCount[b] + 1 >= MaxFailures
              THEN "Open" ELSE @]
  /\ UNCHANGED <<alive, activeConnections, avgLatency>>

(* Mutants: a success closes any circuit; it also marks the backend alive; *)
(* it does not close the circuit.                                          *)
RecordSuccess_ClosesAny(b) ==
  /\ failureCount' = [failureCount EXCEPT ![b] = 0]
  /\ circuit' = [circuit EXCEPT ![b] = "Closed"]
  /\ UNCHANGED <<alive, sinceFailure, activeConnections, avgLatency>>

RecordSuccess_Revives(b) ==
  /\ failureCount' = [failureCount EXCEPT ![b] = 0]
  /\ circuit' = [circuit EXCEPT
       ![b] = IF @ = "HalfOpen" THEN "Closed" ELSE @]
  /\ alive' = [alive EXCEPT ![b] = TRUE]
  /\ UNCHANGED <<sinceFailure, activeConnections, avgLatency>>

RecordSuccess_StaysHalfOpen(b) ==
  /\ failureCount' = [failureCount EXCEPT ![b] = 0]
  /\ UNCHANGED <<alive, circuit, sinceFailure, activeConnections, avgLatency>>

RecordSuccess(b) ==
  /\ failureCount' = [failureCount EXCEPT ![b] = 0]
  /\ circuit' = [circuit EXCEPT
       ![b] = IF @ = "HalfOpen" THEN "Closed" ELSE @]
  /\ UNCHANGED <<alive, sinceFailure, activeConnections, avgLatency>>

SetCircuitHalfOpen(b) ==
  /\ circuit' = [circuit EXCEPT ![b] = "HalfOpen"]
  /\ UNCHANGED <<alive, failureCount, sinceFailure, activeConnections,
                 avgLatency>>

(* The wall clock that time.Since reads.                                   *)
Tick ==
  /\ sinceFailure' = [b \in Backends |->
                        UpTo(OpenStateTimeout, sinceFailure[b] + 1)]
  /\ UNCHANGED <<alive, circuit, failureCount, activeConnections, avgLatency>>

----------------------------------------------------------------------------
(* Any number of goroutines, each calling whatever it likes: every system  *)
(* that goes through the methods of *Backend implements BackendSpec.       *)

Method(b) ==
  \/ \E verdict \in BOOLEAN : SetAlive(b, verdict)
  \/ IncConnections(b)
  \/ DecConnections(b)
  \/ \E sample \in Samples : RecordLatency(b, sample)
  \/ RecordFailure(b)
  \/ RecordSuccess(b)
  \/ SetCircuitHalfOpen(b)

BackendNext == Tick \/ \E b \in Backends : Method(b)

BackendSpec == BackendInit /\ [][BackendNext]_backendVars

----------------------------------------------------------------------------
BackendTypeOK ==
  /\ alive \in [Backends -> BOOLEAN]
  /\ circuit \in [Backends -> CircuitState]
  /\ failureCount \in [Backends -> 0 .. MaxFailures]
  /\ sinceFailure \in [Backends -> 0 .. OpenStateTimeout]
  /\ activeConnections \in [Backends -> Nat]
  /\ avgLatency \in [Backends -> Nat]

(* A closed circuit has seen fewer than MaxFailures failures in a row,     *)
(* whichever requests and probes report to it at once: the breaker never   *)
(* misses the failure that should open it (RecordFailure, RecordSuccess).  *)
ClosedBelowThreshold ==
  \A b \in Backends : circuit[b] = "Closed" => failureCount[b] < MaxFailures

(* An open circuit closes by way of half-open only: a late answer to a     *)
(* request admitted before the trip, or a passed probe, resets the count   *)
(* but does not end the cooldown (RecordSuccess).                          *)
ClosesThroughTrial ==
  [][\A b \in Backends :
       circuit[b] = "Open" => circuit'[b] # "Closed"]_backendVars

(* The average is one of latencies that were measured: truncation never    *)
(* takes it below them all, so a backend with a record does not come to    *)
(* look like one without (0), which the latency strategy would prefer      *)
(* (RecordLatency).                                                        *)
AverageWithin ==
  [][\A b \in Backends :
       avgLatency'[b] # avgLatency[b] =>
         \E low, high \in Samples : low <= avgLatency'[b] /\ avgLatency'[b] <= high]_backendVars
=============================================================================
