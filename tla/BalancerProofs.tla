--------------------------- MODULE BalancerProofs --------------------------
(***************************************************************************)
(* The path of a request, proved from the bottom up: the backend and its   *)
(* circuit, the pool of backends under its callers, the retry loop of the  *)
(* server, and the server with its strategies.  Each part implements the   *)
(* one before it, so a theorem shown of a part holds of every part after   *)
(* it.                                                                     *)
(***************************************************************************)
EXTENDS Balancer, FiniteSetTheorems, TLAPS

----------------------------------------------------------------------------
(***************************************************************************)
(* Backend.  What holds of a backend however many goroutines call its      *)
(* methods, in whatever order.                                             *)
(***************************************************************************)

(* UpTo saturates: it stays in range.                                      *)
LEMMA UpToRange ==
  ASSUME NEW bound \in Nat, NEW n \in Nat
  PROVE  UpTo(bound, n) \in 0 .. bound
BY DEF UpTo

(* Type correctness, one method at a time.                                 *)
LEMMA MethodType ==
  ASSUME BackendTypeOK, NEW b \in Backends, Method(b)
  PROVE  BackendTypeOK'
<1> USE DEF BackendTypeOK
<1>1. CASE \E verdict \in BOOLEAN : SetAlive(b, verdict)
  BY <1>1 DEF SetAlive
<1>2. CASE IncConnections(b)
  BY <1>2 DEF IncConnections
<1>3. CASE DecConnections(b)
  BY <1>3 DEF DecConnections
<1>4. CASE \E sample \in Samples : RecordLatency(b, sample)
  <2>1. PICK sample \in Samples : RecordLatency(b, sample)
    BY <1>4
  <2>2. sample \in Nat
    BY SamplesAssumption
  <2>3. (4 * avgLatency[b] + sample) \div 5 \in Nat
    BY <2>2
  <2> QED BY <2>1, <2>2, <2>3 DEF RecordLatency
<1>5. CASE RecordFailure(b)
  <2>1. UpTo(MaxFailures, failureCount[b] + 1) \in 0 .. MaxFailures
    <3>1. failureCount[b] + 1 \in Nat
      BY MaxFailuresAssumption
    <3> QED BY <3>1, UpToRange, MaxFailuresAssumption
  <2>2. 0 \in 0 .. OpenStateTimeout
    BY TimeoutAssumption
  <2> QED BY <1>5, <2>1, <2>2 DEF RecordFailure, CircuitState
<1>6. CASE RecordSuccess(b)
  <2>1. 0 \in 0 .. MaxFailures
    BY MaxFailuresAssumption
  <2> QED BY <1>6, <2>1 DEF RecordSuccess, CircuitState
<1>7. CASE SetCircuitHalfOpen(b)
  BY <1>7 DEF SetCircuitHalfOpen, CircuitState
<1> QED BY <1>1, <1>2, <1>3, <1>4, <1>5, <1>6, <1>7 DEF Method

LEMMA TickType ==
  ASSUME BackendTypeOK, Tick
  PROVE  BackendTypeOK'
<1>1. \A b \in Backends :
        UpTo(OpenStateTimeout, sinceFailure[b] + 1) \in 0 .. OpenStateTimeout
  <2> SUFFICES ASSUME NEW b \in Backends
               PROVE  UpTo(OpenStateTimeout, sinceFailure[b] + 1)
                        \in 0 .. OpenStateTimeout
    OBVIOUS
  <2>1. sinceFailure[b] + 1 \in Nat
    BY TimeoutAssumption DEF BackendTypeOK
  <2> QED BY <2>1, UpToRange, TimeoutAssumption
<1> QED BY <1>1 DEF Tick, BackendTypeOK

(* The state of every backend is well typed.                               *)
THEOREM BackendTypeCorrect == BackendSpec => []BackendTypeOK
<1>1. BackendInit => BackendTypeOK
  BY MaxFailuresAssumption, TimeoutAssumption
  DEF BackendInit, BackendTypeOK, CircuitState
<1>2. BackendTypeOK /\ [BackendNext]_backendVars => BackendTypeOK'
  <2> SUFFICES ASSUME BackendTypeOK, [BackendNext]_backendVars
               PROVE  BackendTypeOK'
    OBVIOUS
  <2>1. CASE BackendNext
    BY <2>1, MethodType, TickType DEF BackendNext
  <2>2. CASE UNCHANGED backendVars
    BY <2>2 DEF backendVars, BackendTypeOK
  <2> QED BY <2>1, <2>2
<1> QED BY <1>1, <1>2, PTL DEF BackendSpec

(* Only RecordFailure raises the count and only RecordSuccess closes the   *)
(* circuit; the first opens a closed circuit with the failure that reaches *)
(* the threshold, the second resets the count in the same critical section.*)
LEMMA MethodThreshold ==
  ASSUME BackendTypeOK, ClosedBelowThreshold, NEW b \in Backends, Method(b)
  PROVE  ClosedBelowThreshold'
<1> USE DEF BackendTypeOK, ClosedBelowThreshold
<1>1. CASE RecordFailure(b)
  <2> SUFFICES ASSUME NEW c \in Backends, circuit'[c] = "Closed"
               PROVE  failureCount'[c] < MaxFailures
    OBVIOUS
  <2>1. CASE c = b
    <3>1. circuit[b] = "Closed" /\ failureCount[b] + 1 < MaxFailures
      BY <1>1, <2>1, MaxFailuresAssumption DEF RecordFailure
    <3> QED BY <1>1, <2>1, <3>1 DEF RecordFailure, UpTo
  <2>2. CASE c # b
    BY <1>1, <2>2 DEF RecordFailure
  <2> QED BY <2>1, <2>2
<1>2. CASE RecordSuccess(b)
  BY <1>2, MaxFailuresAssumption DEF RecordSuccess
<1>3. CASE SetCircuitHalfOpen(b)
  BY <1>3 DEF SetCircuitHalfOpen
<1>4. CASE UNCHANGED <<circuit, failureCount>>
  BY <1>4
<1> QED BY <1>1, <1>2, <1>3, <1>4
        DEF Method, SetAlive, IncConnections, DecConnections, RecordLatency

(* The breaker never misses the failure that should open it, for any       *)
(* number of backends, callers, failures and any threshold.                *)
THEOREM ThresholdTheorem == BackendSpec => []ClosedBelowThreshold
<1>1. BackendInit => ClosedBelowThreshold
  BY MaxFailuresAssumption DEF BackendInit, ClosedBelowThreshold
<1>2. BackendTypeOK /\ ClosedBelowThreshold /\ [BackendNext]_backendVars
        => ClosedBelowThreshold'
  <2> SUFFICES ASSUME BackendTypeOK, ClosedBelowThreshold,
                      [BackendNext]_backendVars
               PROVE  ClosedBelowThreshold'
    OBVIOUS
  <2>1. CASE \E b \in Backends : Method(b)
    BY <2>1, MethodThreshold
  <2>2. CASE Tick
    BY <2>2 DEF Tick, ClosedBelowThreshold
  <2>3. CASE UNCHANGED backendVars
    BY <2>3 DEF backendVars, ClosedBelowThreshold
  <2> QED BY <2>1, <2>2, <2>3 DEF BackendNext
<1> QED BY <1>1, <1>2, BackendTypeCorrect, PTL DEF BackendSpec

(* No method takes a circuit from open to closed.                          *)
THEOREM TrialTheorem == BackendSpec => ClosesThroughTrial
<1>1. ASSUME BackendTypeOK, [BackendNext]_backendVars, NEW c \in Backends,
             circuit[c] = "Open"
      PROVE  circuit'[c] # "Closed"
  <2> USE <1>1 DEF BackendTypeOK
  <2>1. CASE Tick
    BY <2>1 DEF Tick
  <2>2. ASSUME NEW b \in Backends, Method(b)
        PROVE  circuit'[c] # "Closed"
    BY <2>2 DEF Method, SetAlive, IncConnections, DecConnections,
                RecordLatency, RecordFailure, RecordSuccess,
                SetCircuitHalfOpen
  <2>3. CASE UNCHANGED backendVars
    BY <2>3 DEF backendVars
  <2> QED BY <2>1, <2>2, <2>3 DEF BackendNext
<1>2. BackendTypeOK /\ [BackendNext]_backendVars
        => [\A b \in Backends :
              circuit[b] = "Open" => circuit'[b] # "Closed"]_backendVars
  BY <1>1
<1> QED BY <1>2, BackendTypeCorrect, PTL DEF BackendSpec, ClosesThroughTrial

(* The new average is four parts of the old one and one of the sample: a  *)
(* bound of both is a bound of it.                                         *)
LEMMA AverageBounds ==
  ASSUME NEW avg \in Nat, NEW sample \in Nat, NEW low \in Nat, NEW high \in Nat,
         low <= avg, low <= sample, avg <= high, sample <= high
  PROVE  low <= (4 * avg + sample) \div 5 /\ (4 * avg + sample) \div 5 <= high
OBVIOUS

(* avg lies between two samples.                                           *)
Between(avg) == \E low, high \in Samples : low <= avg /\ avg <= high

(* What was recorded of a backend lies between two samples, and the next   *)
(* sample keeps it so.                                                     *)
Measured == \A b \in Backends : avgLatency[b] = 0 \/ Between(avgLatency[b])

LEMMA SampleStep ==
  ASSUME NEW avg \in Nat, avg = 0 \/ Between(avg), NEW sample \in Samples
  PROVE  Between(IF avg = 0 THEN sample ELSE (4 * avg + sample) \div 5)
<1>1. sample \in Nat
  BY SamplesAssumption
<1>2. CASE avg = 0
  BY <1>1, <1>2 DEF Between
<1>3. CASE avg # 0
  <2>1. PICK low \in Samples, high \in Samples : low <= avg /\ avg <= high
    BY <1>3 DEF Between
  <2>2. low \in Nat /\ high \in Nat
    BY SamplesAssumption
  <2> DEFINE l == IF low <= sample THEN low ELSE sample
             h == IF sample <= high THEN high ELSE sample
             new == (4 * avg + sample) \div 5
  <2>3. /\ l \in Samples /\ l \in Nat /\ l <= avg /\ l <= sample
        /\ h \in Samples /\ h \in Nat /\ avg <= h /\ sample <= h
    BY <1>1, <2>1, <2>2
  <2> HIDE DEF l, h
  <2>4. l <= new /\ new <= h
    BY <1>1, <2>3, AverageBounds
  <2> HIDE DEF new
  <2>5. Between(new)
    BY <2>3, <2>4 DEF Between
  <2> QED
    BY <1>3, <2>5 DEF new
<1> QED
  BY <1>2, <1>3

(* A method records a sample or leaves the averages alone.                 *)
LEMMA MethodAverage ==
  ASSUME BackendTypeOK, Measured, NEW b \in Backends, Method(b)
  PROVE  /\ Measured'
         /\ \A c \in Backends : avgLatency'[c] # avgLatency[c] => Between(avgLatency'[c])
<1>1. CASE \E sample \in Samples : RecordLatency(b, sample)
  <2>1. PICK sample \in Samples : RecordLatency(b, sample)
    BY <1>1
  <2> DEFINE new == IF avgLatency[b] = 0 THEN sample
                    ELSE (4 * avgLatency[b] + sample) \div 5
  <2>2. Between(new)
    BY SampleStep DEF BackendTypeOK, Measured
  <2>3. avgLatency' = [avgLatency EXCEPT ![b] = new]
    BY <2>1 DEF RecordLatency
  <2> HIDE DEF new
  <2>4. \A c \in Backends : avgLatency'[c] = IF c = b THEN new ELSE avgLatency[c]
    BY <2>3 DEF BackendTypeOK
  <2>5. \A c \in Backends : c = b => Between(avgLatency'[c])
    BY <2>2, <2>4
  <2> QED
    BY <2>4, <2>5 DEF Measured
<1>2. CASE UNCHANGED avgLatency
  BY <1>2 DEF Measured
<1> QED
  BY <1>1, <1>2 DEF Method, SetAlive, IncConnections, DecConnections, RecordFailure,
                    RecordSuccess, SetCircuitHalfOpen

(* Whatever the latencies are and in whatever order they are recorded, the *)
(* average stays within them, truncation and all.                          *)
THEOREM AverageTheorem == BackendSpec => AverageWithin
<1> DEFINE Kept == \A b \in Backends :
                     avgLatency'[b] # avgLatency[b] =>
                       \E low, high \in Samples :
                         low <= avgLatency'[b] /\ avgLatency'[b] <= high
<1>1. BackendInit => Measured
  BY DEF BackendInit, Measured
<1>2. ASSUME BackendTypeOK, Measured, [BackendNext]_backendVars
      PROVE  Measured' /\ Kept
  <2>1. CASE \E b \in Backends : Method(b)
    BY <1>2, <2>1, MethodAverage DEF Between
  <2>2. CASE UNCHANGED avgLatency
    BY <1>2, <2>2 DEF Measured
  <2> QED
    BY <1>2, <2>1, <2>2 DEF BackendNext, Tick, backendVars
<1>3. BackendTypeOK /\ Measured /\ [BackendNext]_backendVars
        => Measured' /\ [Kept]_backendVars
  BY <1>2
<1> QED
  BY <1>1, <1>3, BackendTypeCorrect, PTL DEF BackendSpec, AverageWithin

----------------------------------------------------------------------------
(***************************************************************************)
(* BackendPool.  Every step of the pool is a call of one method of         *)
(* *Backend, a tick of the clock, or leaves the backends alone (PoolStep); *)
(* so whatever is shown above of BackendSpec holds of the pool, and what   *)
(* remains is the bookkeeping of the callers.                              *)
(***************************************************************************)

(* Each step of ServeHTTP calls at most one method, of the backend that    *)
(* serves the request.                                                     *)
LEMMA ProxyMethod ==
  ASSUME ProxyTypeOK, NEW r \in Requests, ProxyStep(r)
  PROVE  Method(on[r]) \/ UNCHANGED backendVars
<1>1. CASE \E b \in Backends : Start(r, b)
  BY <1>1 DEF Start
<1>2. CASE Gate(r)
  BY <1>2 DEF Gate, Reject, Admit
<1>3. CASE TrialStep(r)
  BY <1>3 DEF TrialStep, ReadState, ReadCooldown, StartTrial, Method
<1>4. CASE Track(r)
  BY <1>4 DEF Track, Method
<1>5. CASE Prepare(r)
  BY <1>5 DEF Prepare
<1>6. CASE Outcome(r)
  BY <1>6 DEF Outcome, HandleSuccess, UpstreamError, ClientError, HandleError,
              Method
<1>7. CASE Copy(r)
  BY <1>7 DEF Copy, CopyBody, UpgradeRefused, AbortCopy, Method
<1>8. CASE Measure(r)
  BY <1>8 DEF Measure, Method
<1>9. CASE Release(r)
  BY <1>9 DEF Release, Method
<1>10. CASE Finish(r)
  BY <1>10 DEF Finish
<1> QED BY <1>1, <1>2, <1>3, <1>4, <1>5, <1>6, <1>7, <1>8, <1>9, <1>10
        DEF ProxyStep

LEMMA HealthMethod ==
  ASSUME HealthTypeOK, HealthStep
  PROVE  Method(hcAt) \/ UNCHANGED backendVars
<1>1. CASE HealthTick
  BY <1>1 DEF HealthTick
<1>2. CASE \E ok \in BOOLEAN : Probe(ok)
  BY <1>2 DEF Probe
<1>3. CASE Verdict
  BY <1>3 DEF Verdict, HealthTypeOK, Method
<1>4. CASE Record
  BY <1>4 DEF Record, Method
<1> QED BY <1>1, <1>2, <1>3, <1>4 DEF HealthStep

(* The pool only uses the backends through their methods.                  *)
LEMMA PoolStep ==
  ASSUME PoolTypeOK, [PoolNext]_poolVars
  PROVE  [BackendNext]_backendVars
<1>1. CASE RequestStep
  <2>1. PICK r \in Requests : ProxyStep(r)
    BY <1>1 DEF RequestStep
  <2>2. on[r] \in Backends
    BY DEF PoolTypeOK, ProxyTypeOK
  <2> QED BY <2>1, <2>2, ProxyMethod DEF PoolTypeOK, BackendNext
<1>2. CASE CheckerStep
  BY <1>2, HealthMethod DEF CheckerStep, PoolTypeOK, HealthTypeOK, BackendNext
<1>3. CASE ClockStep
  BY <1>3 DEF ClockStep, BackendNext
<1>4. CASE OutsideStep
  BY <1>4 DEF OutsideStep
<1>5. CASE UNCHANGED poolVars
  BY <1>5 DEF poolVars
<1> QED BY <1>1, <1>2, <1>3, <1>4, <1>5 DEF PoolNext

----------------------------------------------------------------------------
(* Type correctness.                                                       *)

LEMMA BackendStepType ==
  ASSUME BackendTypeOK, [BackendNext]_backendVars
  PROVE  BackendTypeOK'
<1>1. CASE BackendNext
  BY <1>1, MethodType, TickType DEF BackendNext
<1>2. CASE UNCHANGED backendVars
  BY <1>2 DEF backendVars, BackendTypeOK
<1> QED BY <1>1, <1>2

LEMMA ProxyType ==
  ASSUME BackendTypeOK, ProxyTypeOK, NEW r \in Requests, ProxyStep(r)
  PROVE  ProxyTypeOK'
<1> USE DEF ProxyTypeOK, Goto, Holding
<1>1. CASE \E b \in Backends : Start(r, b)
  BY <1>1 DEF Start
<1>2. CASE Gate(r)
  BY <1>2 DEF Gate, Reject, Admit, BackendTypeOK
<1>3. CASE TrialStep(r)
  BY <1>3 DEF TrialStep, ReadState, ReadCooldown, StartTrial
<1>4. CASE Track(r) \/ Prepare(r)
  BY <1>4 DEF Track, Prepare
<1>5. CASE Outcome(r)
  BY <1>5 DEF Outcome, HandleSuccess, UpstreamError, ClientError, HandleError
<1>6. CASE CopyBody(r) \/ UpgradeRefused(r)
  BY <1>6 DEF CopyBody, UpgradeRefused
<1>7. CASE AbortCopy(r)
  <2>1. leaked[on[r]] + 1 \in 0 .. MaxLeaks
    BY <1>7, MaxLeaksAssumption DEF AbortCopy
  <2> QED BY <1>7, <2>1 DEF AbortCopy
<1>8. CASE Measure(r) \/ Release(r)
  BY <1>8 DEF Measure, Release
<1>9. CASE Finish(r)
  <2>1. 0 \in Backends
    BY NumBackendsAssumption DEF Backends
  <2> QED BY <1>9, <2>1 DEF Finish, CircuitState
<1> QED BY <1>1, <1>2, <1>3, <1>4, <1>5, <1>6, <1>7, <1>8, <1>9
        DEF ProxyStep, Copy

LEMMA HealthType ==
  ASSUME HealthTypeOK, HealthStep
  PROVE  HealthTypeOK'
<1> USE DEF HealthTypeOK
<1>1. CASE HealthTick
  BY <1>1 DEF HealthTick
<1>2. CASE \E ok \in BOOLEAN : Probe(ok)
  BY <1>2 DEF Probe
<1>3. CASE Verdict
  BY <1>3 DEF Verdict
<1>4. CASE Record
  <2>1. hcAt' \in Backends
    BY <1>4, NumBackendsAssumption DEF Record, Backends
  <2>2. hcPc' \in {"probe", "wait"} /\ hcOk' = FALSE
    BY <1>4 DEF Record
  <2> QED BY <2>1, <2>2
<1> QED BY <1>1, <1>2, <1>3, <1>4 DEF HealthStep

(* What one step of the whole pool does to the types.                      *)
LEMMA StepType ==
  ASSUME PoolTypeOK, [PoolNext]_poolVars
  PROVE  PoolTypeOK'
<1>1. BackendTypeOK'
  BY PoolStep, BackendStepType DEF PoolTypeOK
<1>2. CASE RequestStep
  BY <1>1, <1>2, ProxyType
  DEF RequestStep, PoolTypeOK, healthVars, HealthTypeOK, UpstreamTypeOK
<1>3. CASE CheckerStep
  BY <1>1, <1>3, HealthType
  DEF CheckerStep, PoolTypeOK, proxyVars, ProxyTypeOK, UpstreamTypeOK
<1>4. CASE ClockStep
  BY <1>1, <1>4
  DEF ClockStep, PoolTypeOK, healthVars, proxyVars, HealthTypeOK, ProxyTypeOK,
      UpstreamTypeOK
<1>5. CASE OutsideStep
  <2>1. UpstreamTypeOK'
    BY <1>5 DEF OutsideStep, Break, Repair, PoolTypeOK, UpstreamTypeOK
  <2> QED BY <1>1, <1>5, <2>1
          DEF OutsideStep, PoolTypeOK, healthVars, proxyVars, HealthTypeOK,
              ProxyTypeOK
<1>6. CASE UNCHANGED poolVars
  BY <1>1, <1>6
  DEF poolVars, PoolTypeOK, healthVars, proxyVars, HealthTypeOK, ProxyTypeOK,
      UpstreamTypeOK
<1> QED BY <1>2, <1>3, <1>4, <1>5, <1>6 DEF PoolNext

LEMMA InitType == PoolInit => PoolTypeOK
<1>1. 0 \in Backends
  BY NumBackendsAssumption DEF Backends
<1>2. BackendInit => BackendTypeOK
  BY MaxFailuresAssumption, TimeoutAssumption
  DEF BackendInit, BackendTypeOK, CircuitState
<1>3. HealthInit => HealthTypeOK
  BY <1>1 DEF HealthInit, HealthTypeOK
<1>4. ProxyInit => ProxyTypeOK
  BY <1>1, MaxLeaksAssumption DEF ProxyInit, ProxyTypeOK, CircuitState
<1>5. UpstreamInit => UpstreamTypeOK
  BY DEF UpstreamInit, UpstreamTypeOK
<1> QED BY <1>2, <1>3, <1>4, <1>5 DEF PoolInit, PoolTypeOK

(* Every variable of the pool keeps its type, for any number of backends   *)
(* and requests and any bounds.                                            *)
THEOREM PoolTypeCorrect == PoolSpec => []PoolTypeOK
<1>1. PoolTypeOK /\ [PoolNext]_poolVars => PoolTypeOK'
  BY StepType
<1> QED BY InitType, <1>1, PTL DEF PoolSpec

----------------------------------------------------------------------------
(* The pool implements BackendSpec, and inherits its theorems.             *)

(* The goroutines of the proxy and the health checker use a backend as     *)
(* module Backend allows: one locked method at a time.                     *)
THEOREM PoolImplementsBackend == PoolSpec => BackendSpec
<1>1. PoolInit => BackendInit
  BY DEF PoolInit
<1>2. PoolTypeOK /\ [PoolNext]_poolVars => [BackendNext]_backendVars
  BY PoolStep
<1> QED BY <1>1, <1>2, PoolTypeCorrect, PTL DEF PoolSpec, BackendSpec

(* A closed circuit is below its threshold in the composed system too.     *)
THEOREM PoolThreshold == PoolSpec => []ClosedBelowThreshold
BY PoolImplementsBackend, ThresholdTheorem, PTL

(* And an open circuit closes only by way of half-open.                    *)
THEOREM PoolTrial == PoolSpec => ClosesThroughTrial
BY PoolImplementsBackend, TrialTheorem, PTL

----------------------------------------------------------------------------
(* The connection counts.  PoolTypeOK and the equation itself are inductive:   *)
(* three steps change a count, a set of holders or a leak, in pairs.       *)

(* Finitely many requests hold a backend.                                  *)
LEMMA HeldFinite ==
  ASSUME NEW b
  PROVE  IsFiniteSet(Held(b)) /\ Cardinality(Held(b)) \in Nat
<1>1. Held(b) \in SUBSET Requests
  BY DEF Held
<1> QED BY <1>1, RequestsAssumption, FS_Subset, FS_CardinalityType

(* The steps that leave counts and holders alone.                          *)
LEMMA OtherStep ==
  ASSUME ProxyTypeOK, NEW r \in Requests, NEW b \in Backends,
         \/ \E c \in Backends : Start(r, c)
         \/ Gate(r) \/ TrialStep(r) \/ Prepare(r) \/ Outcome(r)
         \/ CopyBody(r) \/ UpgradeRefused(r) \/ Measure(r) \/ Finish(r)
  PROVE  /\ activeConnections' = activeConnections
         /\ leaked' = leaked
         /\ Held(b)' = Held(b)
<1> USE DEF ProxyTypeOK, Goto, backendVars
<1>1. CASE \E c \in Backends : Start(r, c)
  BY <1>1 DEF Start, Held, Holding
<1>2. CASE Gate(r)
  BY <1>2 DEF Gate, Reject, Admit, Held, Holding
<1>3. CASE TrialStep(r)
  BY <1>3 DEF TrialStep, ReadState, ReadCooldown, StartTrial,
              SetCircuitHalfOpen, Held, Holding
<1>4. CASE Prepare(r)
  BY <1>4 DEF Prepare, Held, Holding
<1>5. CASE Outcome(r)
  BY <1>5 DEF Outcome, HandleSuccess, UpstreamError, ClientError, HandleError,
              RecordSuccess, RecordFailure, Held, Holding
<1>6. CASE CopyBody(r) \/ UpgradeRefused(r)
  BY <1>6 DEF CopyBody, UpgradeRefused, RecordFailure, Held, Holding
<1>7. CASE Measure(r)
  BY <1>7 DEF Measure, RecordLatency, Held, Holding
<1>8. CASE Finish(r)
  BY <1>8 DEF Finish, Held, Holding
<1> QED BY <1>1, <1>2, <1>3, <1>4, <1>5, <1>6, <1>7, <1>8

(* The counter and the set of holders change together.                     *)
LEMMA ProxyAccounts ==
  ASSUME PoolTypeOK, ConnectionsAccounted, NEW r \in Requests, ProxyStep(r),
         NEW b \in Backends
  PROVE  activeConnections'[b] = Cardinality(Held(b)') + leaked'[b]
<1> DEFINE n == Cardinality(Held(b))
<1>1. /\ activeConnections[b] = n + leaked[b]
      /\ n \in Nat /\ leaked[b] \in Nat
      /\ activeConnections \in [Backends -> Nat]
      /\ leaked \in [Backends -> Nat]
      /\ on[r] \in Backends
  BY HeldFinite, MaxLeaksAssumption
  DEF ConnectionsAccounted, PoolTypeOK, BackendTypeOK, ProxyTypeOK
<1>2. /\ Cardinality(Held(b) \cup {r})
           = IF r \in Held(b) THEN n ELSE n + 1
      /\ Cardinality(Held(b) \ {r})
           = IF r \in Held(b) THEN n - 1 ELSE n
  BY HeldFinite, FS_AddElement, FS_RemoveElement
<1>3. CASE Track(r)
  <2>1. r \notin Held(b)
    BY <1>3 DEF Track, Goto, Held, Holding
  <2>2. Held(b)' = IF on[r] = b THEN Held(b) \cup {r} ELSE Held(b)
    BY <1>3 DEF Track, Goto, Held, Holding, PoolTypeOK, ProxyTypeOK
  <2>3. /\ activeConnections'[b]
             = IF on[r] = b THEN activeConnections[b] + 1
                            ELSE activeConnections[b]
        /\ leaked' = leaked
    BY <1>1, <1>3 DEF Track, IncConnections
  <2> HIDE DEF n
  <2> QED BY <1>1, <1>2, <2>1, <2>2, <2>3 DEF n
<1>4. CASE Release(r)
  <2>1. Held(b)' = IF on[r] = b THEN Held(b) \ {r} ELSE Held(b)
    BY <1>4 DEF Release, Goto, Held, Holding, PoolTypeOK, ProxyTypeOK
  <2>2. on[r] = b => r \in Held(b) /\ Held(b) # {}
    BY <1>4 DEF Release, Goto, Held, Holding
  <2>3. on[r] = b => n > 0
    BY <2>2, <1>1, HeldFinite, FS_EmptySet
  <2>4. /\ activeConnections'[b]
             = IF on[r] = b /\ activeConnections[b] > 0
               THEN activeConnections[b] - 1 ELSE activeConnections[b]
        /\ leaked' = leaked
    BY <1>1, <1>4 DEF Release, DecConnections
  <2> HIDE DEF n
  <2> QED BY <1>1, <1>2, <2>1, <2>2, <2>3, <2>4 DEF n
<1>5. CASE AbortCopy(r)
  <2>1. Held(b)' = IF on[r] = b THEN Held(b) \ {r} ELSE Held(b)
    BY <1>5 DEF AbortCopy, Goto, Held, Holding, PoolTypeOK, ProxyTypeOK
  <2>2. on[r] = b => r \in Held(b)
    BY <1>5 DEF AbortCopy, Goto, Held, Holding
  <2>3. /\ activeConnections' = activeConnections
        /\ leaked'[b] = IF on[r] = b THEN leaked[b] + 1 ELSE leaked[b]
    BY <1>1, <1>5 DEF AbortCopy, backendVars
  <2> HIDE DEF n
  <2> QED BY <1>1, <1>2, <2>1, <2>2, <2>3 DEF n
<1>6. CASE \/ \E c \in Backends : Start(r, c)
           \/ Gate(r) \/ TrialStep(r) \/ Prepare(r) \/ Outcome(r)
           \/ CopyBody(r) \/ UpgradeRefused(r) \/ Measure(r) \/ Finish(r)
  BY <1>1, <1>6, OtherStep DEF PoolTypeOK
<1> QED BY <1>3, <1>4, <1>5, <1>6 DEF ProxyStep, Copy

(* ActiveConnections is exact but for the handlers that panicked, for any  *)
(* number of requests, backends and panics.                                *)
THEOREM AccountsTheorem == PoolSpec => []ConnectionsAccounted
<1>1. PoolInit => ConnectionsAccounted
  <2> SUFFICES ASSUME PoolInit, NEW b \in Backends
               PROVE  activeConnections[b] = Cardinality(Held(b)) + leaked[b]
    BY DEF ConnectionsAccounted
  <2>1. Held(b) = {}
    BY DEF PoolInit, ProxyInit, Held, Holding
  <2> QED BY <2>1, FS_EmptySet DEF PoolInit, BackendInit, ProxyInit
<1>2. PoolTypeOK /\ ConnectionsAccounted /\ [PoolNext]_poolVars => ConnectionsAccounted'
  <2> SUFFICES ASSUME PoolTypeOK, ConnectionsAccounted, [PoolNext]_poolVars,
                      NEW b \in Backends
               PROVE  activeConnections'[b] = Cardinality(Held(b)') + leaked'[b]
    BY DEF ConnectionsAccounted
  <2>1. CASE RequestStep
    BY <2>1, ProxyAccounts DEF RequestStep
  <2>2. CASE UNCHANGED <<activeConnections, proxyVars>>
    BY <2>2 DEF ConnectionsAccounted, proxyVars, Held
  <2>3. CASE CheckerStep
    <3>1. UNCHANGED activeConnections
      BY <2>3 DEF CheckerStep, HealthStep, HealthTick, Probe, Verdict, Record,
                  SetAlive, RecordSuccess, RecordFailure, backendVars
    <3> QED BY <2>2, <2>3, <3>1 DEF CheckerStep
  <2>4. CASE ClockStep
    BY <2>2, <2>4 DEF ClockStep, Tick
  <2>5. CASE OutsideStep
    BY <2>2, <2>5 DEF OutsideStep, backendVars
  <2>6. CASE UNCHANGED poolVars
    BY <2>2, <2>6 DEF poolVars, backendVars
  <2> QED BY <2>1, <2>3, <2>4, <2>5, <2>6 DEF PoolNext
<1> QED BY <1>1, <1>2, PoolTypeCorrect, PTL DEF PoolSpec

----------------------------------------------------------------------------
(* Health checks.                                                          *)

LEMMA ProxyKeepsAlive ==
  ASSUME NEW r \in Requests, ProxyStep(r)
  PROVE  alive' = alive
BY DEF ProxyStep, Start, Gate, Reject, Admit, TrialStep, ReadState,
       ReadCooldown, StartTrial, SetCircuitHalfOpen, Track, IncConnections,
       Prepare, Outcome, HandleSuccess, UpstreamError, ClientError,
       HandleError, RecordSuccess, RecordFailure, Copy, CopyBody, UpgradeRefused,
       AbortCopy, Measure, RecordLatency, Release, DecConnections, Finish,
       backendVars

(* Of all the goroutines only the health checker, after a probe of this    *)
(* backend that passed, makes it alive again.                              *)
THEOREM ReviveTheorem == PoolSpec => OnlyChecksRevive
<1>1. ASSUME PoolTypeOK, [PoolNext]_poolVars, NEW b \in Backends, ~alive[b], alive'[b]
      PROVE  hcPc = "verdict" /\ hcAt = b /\ hcOk
  <2>1. CASE RequestStep
    BY <1>1, <2>1, ProxyKeepsAlive DEF RequestStep
  <2>2. CASE CheckerStep
    <3>1. CASE Verdict
      BY <1>1, <3>1 DEF Verdict, SetAlive, PoolTypeOK, BackendTypeOK
    <3>2. CASE ~Verdict
      BY <1>1, <2>2, <3>2
      DEF CheckerStep, HealthStep, HealthTick, Probe, Record, RecordSuccess,
          RecordFailure, backendVars
    <3> QED BY <3>1, <3>2
  <2>3. CASE ClockStep
    BY <1>1, <2>3 DEF ClockStep, Tick
  <2>4. CASE OutsideStep \/ UNCHANGED poolVars
    BY <1>1, <2>4 DEF OutsideStep, poolVars, backendVars
  <2> QED BY <1>1, <2>1, <2>2, <2>3, <2>4 DEF PoolNext
<1>2. PoolTypeOK /\ [PoolNext]_poolVars
        => [\A b \in Backends :
              ~alive[b] /\ alive'[b] =>
                hcPc = "verdict" /\ hcAt = b /\ hcOk]_poolVars
  BY <1>1
<1> QED BY <1>2, PoolTypeCorrect, PTL DEF PoolSpec, OnlyChecksRevive

----------------------------------------------------------------------------
(* Backends that always answer.  BlamelessKept alone is not inductive: a   *)
(* failed probe already under way, or a request about to start a trial,    *)
(* would remove the backend a step later.  Blameless rules those out too.  *)

Blameless(b) ==
  /\ circuit[b] = "Closed" /\ failureCount[b] = 0 /\ alive[b]
  /\ \A r \in Requests : on[r] = b => pc[r] \notin {"cooldown", "trial"}
  /\ hcAt = b /\ hcPc \in {"verdict", "record"} => hcOk

AllBlameless == \A b \in Backends \ Faulty : Blameless(b)

(* A request disturbs a blameless backend in no step.                      *)
LEMMA ProxyBlameless ==
  ASSUME PoolTypeOK, PlainClients, NEW b \in Backends \ Faulty, Blameless(b),
         NEW r \in Requests, ProxyStep(r), UNCHANGED <<healthVars, up>>
  PROVE  Blameless(b)'
<1>1. /\ up[b]
      /\ circuit \in [Backends -> CircuitState]
      /\ failureCount \in [Backends -> 0 .. MaxFailures]
      /\ alive \in [Backends -> BOOLEAN]
      /\ ProxyTypeOK
  BY DEF PoolTypeOK, UpstreamTypeOK, BackendTypeOK
<1> USE <1>1 DEF Blameless, ProxyTypeOK, Goto, healthVars, backendVars
<1>2. CASE (\E c \in Backends : Start(r, c)) \/ Gate(r) \/ Prepare(r)
             \/ Copy(r) \/ Finish(r)
  BY <1>2 DEF Start, Gate, Reject, Admit, Prepare, Copy, CopyBody, UpgradeRefused,
              AbortCopy, Finish
<1>3. CASE TrialStep(r)
  <2>1. CASE ReadState(r)
    BY <2>1 DEF ReadState
  <2>2. CASE ReadCooldown(r)
    BY <2>2 DEF ReadCooldown
  <2>3. CASE StartTrial(r)
    BY <2>3 DEF StartTrial, SetCircuitHalfOpen
  <2> QED BY <1>3, <2>1, <2>2, <2>3 DEF TrialStep
<1>4. CASE Track(r) \/ Measure(r) \/ Release(r)
  BY <1>4 DEF Track, IncConnections, Measure, RecordLatency, Release,
              DecConnections
<1>5. CASE HandleSuccess(r)
  BY <1>5 DEF HandleSuccess, RecordSuccess
<1>6. CASE UpstreamError(r)
  <2>1. on[r] # b
    BY <1>6 DEF UpstreamError, MayFail
  <2> QED BY <1>6, <2>1 DEF UpstreamError, HandleError, RecordFailure
<1>7. CASE ClientError(r)
  BY <1>7 DEF ClientError
<1> QED BY <1>2, <1>3, <1>4, <1>5, <1>6, <1>7 DEF ProxyStep, Outcome

(* Nor does the health checker: its probes of b pass.                      *)
LEMMA HealthBlameless ==
  ASSUME PoolTypeOK, NEW b \in Backends \ Faulty, Blameless(b),
         HealthStep, UNCHANGED proxyVars
  PROVE  Blameless(b)'
<1>1. /\ up[b]
      /\ circuit \in [Backends -> CircuitState]
      /\ failureCount \in [Backends -> 0 .. MaxFailures]
      /\ alive \in [Backends -> BOOLEAN]
      /\ hcAt \in Backends
  BY DEF PoolTypeOK, UpstreamTypeOK, BackendTypeOK, HealthTypeOK
<1> USE <1>1 DEF Blameless, proxyVars, backendVars
<1>2. CASE HealthTick
  BY <1>2 DEF HealthTick
<1>3. CASE \E ok \in BOOLEAN : Probe(ok)
  BY <1>3 DEF Probe, MayFail
<1>4. CASE Verdict
  BY <1>4 DEF Verdict, SetAlive
<1>5. CASE Record
  <2>1. hcPc' \in {"probe", "wait"}
    BY <1>5 DEF Record
  <2>2. CASE hcOk
    BY <1>5, <2>1, <2>2 DEF Record, RecordSuccess
  <2>3. CASE ~hcOk
    <3>1. hcAt # b
      BY <1>5, <2>3 DEF Record
    <3> QED BY <1>5, <2>1, <2>3, <3>1 DEF Record, RecordFailure
  <2> QED BY <2>2, <2>3
<1> QED BY <1>2, <1>3, <1>4, <1>5 DEF HealthStep

(* No interleaving takes a backend that always answers out of rotation,    *)
(* whatever the other backends do, unless clients cancel.                  *)
THEOREM BlamelessTheorem == PoolSpec => []BlamelessKept
<1>1. PoolInit => (PlainClients => AllBlameless)
  BY DEF PoolInit, BackendInit, HealthInit, ProxyInit, AllBlameless, Blameless
<1>2. PoolTypeOK /\ (PlainClients => AllBlameless) /\ [PoolNext]_poolVars
        => (PlainClients => AllBlameless)'
  <2> SUFFICES ASSUME PoolTypeOK, PlainClients, AllBlameless, [PoolNext]_poolVars,
                      NEW b \in Backends \ Faulty
               PROVE  Blameless(b)'
    BY DEF AllBlameless
  <2>1. Blameless(b)
    BY DEF AllBlameless
  <2>2. CASE RequestStep
    BY <2>1, <2>2, ProxyBlameless DEF RequestStep
  <2>3. CASE CheckerStep
    BY <2>1, <2>3, HealthBlameless DEF CheckerStep
  <2>4. CASE ClockStep
    BY <2>1, <2>4 DEF ClockStep, Tick, Blameless, healthVars, proxyVars
  <2>5. CASE OutsideStep \/ UNCHANGED poolVars
    BY <2>1, <2>5 DEF OutsideStep, poolVars, Blameless, backendVars, healthVars,
                      proxyVars
  <2> QED BY <2>2, <2>3, <2>4, <2>5 DEF PoolNext
<1>3. (PlainClients => AllBlameless) => BlamelessKept
  BY DEF AllBlameless, Blameless, BlamelessKept, CheckCircuitState
<1> QED BY <1>1, <1>2, <1>3, PoolTypeCorrect, PTL DEF PoolSpec

----------------------------------------------------------------------------
(***************************************************************************)
(* Server.  It uses the pool as BackendPool allows, and keeps the promises *)
(* of Exchange.                                                            *)
(***************************************************************************)

----------------------------------------------------------------------------
(* Server implements BackendPool.                                          *)

(* Every step of the loop is a step of the request in the proxy, or leaves *)
(* the pool alone.                                                         *)
LEMMA ServerProxyStep ==
  ASSUME NEW r \in Requests, ServerStep(r)
  PROVE  ProxyStep(r) \/ UNCHANGED <<backendVars, proxyVars>>
<1>1. CASE Begin(r) \/ NoBackend(r) \/ Leave(r)
  BY <1>1 DEF Begin, NoBackend, Leave
<1>2. CASE \E b \in Backends : Choose(r, b)
  BY <1>2 DEF Choose, ProxyStep
<1>3. CASE Attempt(r)
  BY <1>3 DEF Attempt, Rejected, Silent, Prepared, Failed, Copied, Refused,
              Aborted, ProxyStep, Gate, Outcome, Copy
<1>4. CASE Decide(r)
  BY <1>4 DEF Decide, SendResponse, Retry, GiveUp, Unwind, ProxyStep
<1> QED BY <1>1, <1>2, <1>3, <1>4 DEF ServerStep, NextBackend

LEMMA ServerPoolStep ==
  ASSUME [Next]_vars
  PROVE  [PoolNext]_poolVars
<1>1. CASE \E r \in Requests : ServerStep(r) /\ UNCHANGED <<healthVars, up>>
  BY <1>1, ServerProxyStep DEF PoolNext, RequestStep, poolVars
<1>2. CASE CheckerStep \/ ClockStep \/ OutsideStep
  BY <1>2 DEF PoolNext
<1>3. CASE UNCHANGED vars
  BY <1>3 DEF vars
<1> QED BY <1>1, <1>2, <1>3 DEF Next

(* The retry loop drives the pool only in ways BackendPool allows, so all  *)
(* that is proved of the pool holds under the loop.                        *)
THEOREM ServerImplementsPool == Spec => PoolSpec
<1>1. Init => PoolInit
  BY DEF Init
<1>2. [Next]_vars => [PoolNext]_poolVars
  BY ServerPoolStep
<1> QED BY <1>1, <1>2, PTL DEF Spec, PoolSpec

----------------------------------------------------------------------------
(* Where a request is in the proxy, and what its call may have done by     *)
(* then.  These facts make the promises of Exchange inductive.             *)

Early    == {"gate", "state", "cooldown", "trial", "track", "prepare"}
Sent     == {"upstream", "copy"}
Answered == {"latency", "release", "returned", "aborted"}

LoopOK(c, place) ==
  /\ c.at = "proxy" <=> place # "idle"
  /\ c.at = "idle" => c = Fresh
  /\ c.at \in {"choose", "proxy"} /\ ~c.retryable => c.attempt = 0
  /\ c.at = "choose" => c.status # "final" /\ c.sends <= c.attempt
  /\ (c.at = "choose" \/ place \in Early \cup Sent) /\ ~c.retryable
       => c.reply = "none"
  /\ place \in Early => c.status = "none" /\ c.sends <= c.attempt
  /\ place \in Sent => c.status = "none" /\ c.sends \in 1 .. (c.attempt + 1)
  /\ place \in Answered => /\ c.status # "none" /\ c.reply # "none"
                           /\ c.sends <= c.attempt + 1
  /\ place = "aborted" => c.sends > 0
  /\ c.at \in {"done", "cut"} => c.reply # "none"

LoopInv == \A r \in Requests : LoopOK(call[r], pc[r])

(* An action of request r changes the call and the place of r only.        *)
LEMMA CallFrame ==
  ASSUME ServerTypeOK, ProxyTypeOK, NEW r \in Requests, ServerStep(r)
  PROVE  /\ call' = [call EXCEPT ![r] = call'[r]]
         /\ pc' = [pc EXCEPT ![r] = pc'[r]]
<1> USE DEF ServerTypeOK, ProxyTypeOK, Goto, Move, WriteError
<1>1. CASE Begin(r) \/ NoBackend(r) \/ Leave(r)
  BY <1>1 DEF Begin, NoBackend, Leave, proxyVars
<1>2. CASE \E b \in Backends : Choose(r, b)
  BY <1>2 DEF Choose, Start
<1>3. CASE Rejected(r)
  BY <1>3 DEF Rejected, Reject
<1>4. CASE Silent(r)
  BY <1>4 DEF Silent, Admit, TrialStep, ReadState, ReadCooldown, StartTrial,
              Track, HandleSuccess, Measure, Release, serverVars
<1>5. CASE Prepared(r)
  BY <1>5 DEF Prepared, Prepare
<1>6. CASE Failed(r)
  BY <1>6 DEF Failed, UpstreamError, ClientError, HandleError
<1>7. CASE Copied(r)
  BY <1>7 DEF Copied, CopyBody
<1>8. CASE Refused(r)
  BY <1>8 DEF Refused, UpgradeRefused
<1>9. CASE Aborted(r)
  BY <1>9 DEF Aborted, AbortCopy
<1>10. CASE Decide(r)
  BY <1>10 DEF Decide, SendResponse, Retry, GiveUp, Unwind, Finish
<1> QED BY <1>1, <1>2, <1>3, <1>4, <1>5, <1>6, <1>7, <1>8, <1>9, <1>10
        DEF ServerStep, NextBackend, Attempt

(* Written sets the status and, if there is none yet, the reply.           *)
LEMMA WrittenFields ==
  ASSUME NEW c \in Calls, NEW status \in Status, NEW sized \in BOOLEAN
  PROVE  LET d == Written(c, status, sized)
         IN  /\ d \in Calls
             /\ d.at = c.at /\ d.retryable = c.retryable
             /\ d.attempt = c.attempt /\ d.sends = c.sends
             /\ d.status = status
             /\ d.reply = IF c.reply = "none" THEN status ELSE c.reply
             /\ d.reply # "none"
BY DEF Written, Calls, Status

(* The attempt of a call that waits in Early or Sent writes its status.    *)
LEMMA WriteOK ==
  ASSUME NEW c \in Calls, NEW place \in Early \cup Sent, LoopOK(c, place),
         NEW status \in Status, NEW sized \in BOOLEAN,
         NEW after \in Answered, after = "aborted" => place \in Sent
  PROVE  LoopOK(Written(c, status, sized), after)
<1> DEFINE d == Written(c, status, sized)
<1>1. c.at = "proxy" /\ c.sends <= c.attempt + 1 /\ (place \in Sent => c.sends > 0)
  BY DEF LoopOK, Calls, Early, Sent
<1>2. /\ d.at = "proxy" /\ d.retryable = c.retryable
      /\ d.attempt = c.attempt /\ d.sends = c.sends
      /\ d.status # "none" /\ d.reply # "none"
  BY <1>1, WrittenFields DEF Status
<1> HIDE DEF d
<1>3. LoopOK(d, after)
  BY <1>1, <1>2 DEF LoopOK, Early, Sent, Answered
<1> QED BY <1>3 DEF d

(* What the actions do to the call and the place of their request.         *)
LEMMA CallStep ==
  ASSUME ServerTypeOK, ProxyTypeOK, LoopInv, NEW r \in Requests, ServerStep(r)
  PROVE  call'[r] \in Calls /\ LoopOK(call'[r], pc'[r])
<1> DEFINE c == call[r]
           p == pc[r]
<1>0. c \in Calls /\ LoopOK(c, p) /\ MaxRetries \in Nat
  BY MaxRetriesAssumption DEF LoopInv, ServerTypeOK
<1>1. CASE Begin(r)
  <2>1. PICK retryable \in BOOLEAN, id \in {NoID, ClientID} :
          call'[r] = [c EXCEPT !.at = "choose", !.retryable = retryable,
                               !.id = id]
    BY <1>1 DEF Begin, ServerTypeOK
  <2>2. c = Fresh /\ pc'[r] = "idle"
    BY <1>0, <1>1 DEF Begin, At, LoopOK, proxyVars
  <2>3. call'[r] \in Calls
    <3>1. id \in Nat \cup {ClientID}
      BY DEF NoID
    <3> QED BY <1>0, <2>1, <3>1 DEF Calls
  <2>4. /\ call'[r].at = "choose" /\ call'[r].status = "none"
        /\ call'[r].attempt = 0 /\ call'[r].sends = 0
        /\ call'[r].reply = "none"
    BY <2>1, <2>2 DEF Fresh
  <2> QED BY <2>2, <2>3, <2>4 DEF LoopOK, Early, Sent, Answered
<1>2. CASE NoBackend(r)
  <2>1. /\ call'[r] = [Written(c, "retryable", FALSE) EXCEPT !.at = "done"]
        /\ pc'[r] = "idle"
    BY <1>0, <1>2 DEF NoBackend, At, LoopOK, ServerTypeOK, proxyVars
  <2>2. /\ Written(c, "retryable", FALSE) \in Calls
        /\ Written(c, "retryable", FALSE).reply # "none"
    BY <1>0, WrittenFields DEF Status
  <2> QED BY <2>1, <2>2 DEF Calls, LoopOK, Early, Sent, Answered
<1>3. CASE \E b \in Backends : Choose(r, b)
  <2>1. /\ call'[r] = [c EXCEPT !.at = "proxy", !.status = "none"]
        /\ pc'[r] = "gate" /\ c.at = "choose"
    BY <1>3 DEF Choose, Start, Goto, At, ServerTypeOK, ProxyTypeOK
  <2> QED BY <1>0, <2>1 DEF Calls, LoopOK, Early, Sent, Answered
<1>4. CASE Rejected(r)
  <2>1. /\ call'[r] = Written(c, "retryable", FALSE)
        /\ p \in Early /\ pc'[r] \in Answered /\ pc'[r] # "aborted"
    BY <1>4 DEF Rejected, Reject, Goto, WriteError, ServerTypeOK, ProxyTypeOK,
                Early, Answered
  <2>2. call'[r] \in Calls
    BY <1>0, <2>1, WrittenFields DEF Status
  <2>3. LoopOK(call'[r], pc'[r])
    BY <1>0, <2>1, WriteOK DEF Status
  <2> QED BY <2>2, <2>3
<1>5. CASE Silent(r)
  <2>1. call'[r] = c
    BY <1>5 DEF Silent, serverVars
  <2>2. CASE Admit(r) \/ TrialStep(r) \/ Track(r)
    <3>1. p \in Early /\ pc'[r] \in Early
      BY <2>2 DEF Admit, TrialStep, ReadState, ReadCooldown, StartTrial,
                  Track, Goto, ProxyTypeOK, Early
    <3> QED BY <1>0, <2>1, <3>1 DEF LoopOK, Early, Sent, Answered
  <2>3. CASE HandleSuccess(r)
    <3>1. p \in Sent /\ pc'[r] \in Sent
      BY <2>3 DEF HandleSuccess, Goto, ProxyTypeOK, Sent
    <3> QED BY <1>0, <2>1, <3>1 DEF LoopOK, Early, Sent, Answered
  <2>4. CASE Measure(r) \/ Release(r)
    <3>1. p \in Answered /\ pc'[r] \in Answered /\ pc'[r] # "aborted"
      BY <2>4 DEF Measure, Release, Goto, ProxyTypeOK, Answered
    <3> QED BY <1>0, <2>1, <3>1 DEF LoopOK, Early, Sent, Answered
  <2> QED BY <1>5, <2>2, <2>3, <2>4 DEF Silent
<1>6. CASE Prepared(r)
  <2>1. p = "prepare" /\ pc'[r] = "upstream"
    BY <1>6 DEF Prepared, Prepare, Goto, ProxyTypeOK
  <2>2. PICK id \in Nat \cup {ClientID} :
          call'[r] = [c EXCEPT !.id = id, !.sends = @ + 1]
    <3>1. CASE c.id = NoID
      <4>1. requestCounter + 1 \in Nat
        BY DEF ServerTypeOK
      <4>2. call'[r] = [c EXCEPT !.id = requestCounter + 1, !.sends = @ + 1]
        BY <1>6, <3>1 DEF Prepared, ServerTypeOK
      <4> QED BY <4>1, <4>2
    <3>2. CASE c.id # NoID
      <4>1. call'[r] = [c EXCEPT !.sends = @ + 1]
        BY <1>6, <3>2 DEF Prepared, ServerTypeOK
      <4>2. c = [c EXCEPT !.id = c.id]
        BY <1>0 DEF Calls
      <4>3. c.id \in Nat \cup {ClientID}
        BY <1>0 DEF Calls
      <4>4. [c EXCEPT !.id = c.id, !.sends = @ + 1] = [c EXCEPT !.sends = @ + 1]
        BY <1>0 DEF Calls
      <4> QED BY <4>1, <4>3, <4>4
    <3> QED BY <3>1, <3>2
  <2>3. /\ c.sends \in Nat /\ c.attempt \in Nat /\ c.sends <= c.attempt
        /\ c.at = "proxy" /\ c.status = "none"
    BY <1>0, <2>1 DEF Calls, LoopOK, Early
  <2>4. call'[r] \in Calls
    <3>1. c.sends + 1 \in Nat
      BY <2>3
    <3> QED BY <1>0, <2>2, <3>1, Zenon DEF Calls
  <2>5. /\ call'[r].at = c.at /\ call'[r].retryable = c.retryable
        /\ call'[r].attempt = c.attempt /\ call'[r].status = c.status
        /\ call'[r].reply = c.reply /\ call'[r].sends = c.sends + 1
    BY <1>0, <2>2 DEF Calls
  <2>6. call'[r].sends \in 1 .. (call'[r].attempt + 1)
    BY <2>3, <2>5
  <2> HIDE DEF c
  <2> QED BY <1>0, <2>1, <2>3, <2>4, <2>5, <2>6
          DEF LoopOK, Early, Sent, Answered
<1>7. CASE Failed(r) \/ Refused(r)
  <2>1. /\ call'[r] = Written(c, "retryable", FALSE)
        /\ p \in Sent /\ pc'[r] \in Answered
    BY <1>7 DEF Failed, UpstreamError, ClientError, HandleError, Refused,
                UpgradeRefused, Goto, WriteError, ServerTypeOK, ProxyTypeOK,
                Sent, Answered
  <2>2. call'[r] \in Calls
    BY <1>0, <2>1, WrittenFields DEF Status
  <2>3. LoopOK(call'[r], pc'[r])
    BY <1>0, <2>1, WriteOK DEF Status
  <2> QED BY <2>2, <2>3
<1>8. CASE Copied(r) \/ Aborted(r)
  <2>1. PICK status \in Status, sized \in BOOLEAN :
          call'[r] = Written(c, status, sized)
    BY <1>8 DEF Copied, Aborted, ServerTypeOK
  <2>2. p \in Sent /\ pc'[r] \in Answered
    BY <1>8 DEF Copied, CopyBody, Aborted, AbortCopy, Goto, ProxyTypeOK, Sent,
                Answered
  <2> QED BY <1>0, <2>1, <2>2, WrittenFields, WriteOK
<1>9. CASE Decide(r)
  <2>1. /\ p \in {"returned", "aborted"} /\ pc'[r] = "idle"
        /\ c.at = "proxy" /\ c.status # "none" /\ c.reply # "none"
        /\ c.sends <= c.attempt + 1
    BY <1>0, <1>9 DEF Decide, SendResponse, Retry, GiveUp, Unwind, Finish,
                      ProxyTypeOK, LoopOK, Answered
  <2>2. CASE SendResponse(r) \/ Unwind(r)
    <3>1. PICK place \in {"done", "cut"} : call'[r] = [c EXCEPT !.at = place]
      BY <2>2 DEF SendResponse, Unwind, Move, ServerTypeOK
    <3> QED BY <1>0, <2>1, <3>1 DEF Calls, LoopOK, Early, Sent, Answered
  <2>3. CASE Retry(r)
    <3>1. /\ call'[r] = [c EXCEPT !.at = "choose", !.attempt = @ + 1]
          /\ c.retryable /\ c.status = "retryable" /\ c.attempt < MaxRetries
      BY <2>3 DEF Retry, MayRetry, isRetryableStatus, ServerTypeOK
    <3>2. c.attempt + 1 \in 0 .. MaxRetries
      BY <1>0, <3>1 DEF Calls
    <3>3. call'[r] \in Calls
      BY <1>0, <3>1, <3>2 DEF Calls
    <3>4. /\ call'[r].at = "choose" /\ call'[r].retryable
          /\ call'[r].status = "retryable"
          /\ call'[r].sends <= call'[r].attempt
      BY <1>0, <2>1, <3>1 DEF Calls
    <3> QED BY <2>1, <3>3, <3>4 DEF LoopOK, Early, Sent, Answered
  <2>4. CASE GiveUp(r)
    <3>1. /\ call'[r] = [Written(c, c.status, FALSE) EXCEPT !.at = "done"]
          /\ c.status \in Status
      BY <2>4 DEF GiveUp, MayRetry, isRetryableStatus, ServerTypeOK, Status
    <3>2. /\ Written(c, c.status, FALSE) \in Calls
          /\ Written(c, c.status, FALSE).reply # "none"
      BY <1>0, <3>1, WrittenFields
    <3> QED BY <2>1, <3>1, <3>2 DEF Calls, LoopOK, Early, Sent, Answered
  <2> QED BY <1>9, <2>2, <2>3, <2>4 DEF Decide
<1>10. CASE Leave(r)
  <2>1. call'[r] = Fresh /\ pc'[r] = "idle"
    BY <1>0, <1>10 DEF Leave, LoopOK, ServerTypeOK, proxyVars
  <2> QED BY <1>0, <2>1 DEF Fresh, Calls, Status, LoopOK, Early, Sent,
                            Answered, NoID
<1> QED BY <1>1, <1>2, <1>3, <1>4, <1>5, <1>6, <1>7, <1>8, <1>9, <1>10
        DEF ServerStep, NextBackend, Attempt

LEMMA CounterType ==
  ASSUME ServerTypeOK, NEW r \in Requests, ServerStep(r)
  PROVE  requestCounter' \in Nat
<1>1. CASE Prepared(r)
  BY <1>1 DEF Prepared, ServerTypeOK
<1>2. CASE ~Prepared(r)
  <2>1. UNCHANGED requestCounter
    BY <1>2 DEF ServerStep, Begin, NextBackend, NoBackend, Choose, Attempt,
                Rejected, Silent, Failed, Copied, Refused, Aborted, Decide,
                SendResponse, Retry, GiveUp, Unwind, Leave, serverVars
  <2> QED BY <2>1 DEF ServerTypeOK
<1> QED BY <1>1, <1>2

LEMMA LoopStep ==
  ASSUME PoolTypeOK, ServerTypeOK, LoopInv, [Next]_vars
  PROVE  ServerTypeOK' /\ LoopInv'
<1>1. CASE \E r \in Requests : ServerStep(r)
  <2>1. PICK r \in Requests : ServerStep(r)
    BY <1>1
  <2>2. /\ call' = [call EXCEPT ![r] = call'[r]]
        /\ pc' = [pc EXCEPT ![r] = pc'[r]]
        /\ call'[r] \in Calls /\ LoopOK(call'[r], pc'[r])
    BY <2>1, CallFrame, CallStep DEF PoolTypeOK
  <2>3. call' \in [Requests -> Calls]
    BY <2>2 DEF ServerTypeOK
  <2>4. ASSUME NEW q \in Requests
        PROVE  LoopOK(call'[q], pc'[q])
    <3>1. CASE q = r
      BY <3>1, <2>2
    <3>2. CASE q # r
      <4>1. call'[q] = call[q] /\ pc'[q] = pc[q]
        BY <2>2, <3>2 DEF ServerTypeOK, PoolTypeOK, ProxyTypeOK
      <4> QED BY <4>1 DEF LoopInv
    <3> QED BY <3>1, <3>2
  <2> QED BY <2>1, <2>3, <2>4, CounterType DEF ServerTypeOK, LoopInv
<1>2. CASE UNCHANGED <<call, requestCounter, pc>>
  BY <1>2 DEF ServerTypeOK, LoopInv
<1>3. CASE (CheckerStep \/ ClockStep \/ OutsideStep) /\ UNCHANGED serverVars
  BY <1>2, <1>3 DEF CheckerStep, ClockStep, OutsideStep, proxyVars, serverVars
<1>4. CASE UNCHANGED vars
  BY <1>2, <1>4 DEF vars, serverVars, poolVars, proxyVars
<1> QED BY <1>1, <1>3, <1>4 DEF Next

LEMMA LoopInit == Init => ServerTypeOK /\ LoopInv
<1> USE MaxRetriesAssumption DEF Init, ServerInit, PoolInit, ProxyInit, Fresh,
        NoID
<1>1. Init => ServerTypeOK
  BY DEF ServerTypeOK, Calls, Status
<1>2. Init => LoopInv
  BY DEF LoopInv, LoopOK, Early, Sent, Answered
<1> QED BY <1>1, <1>2

(* Where a request is in the retry loop and where it is in the proxy       *)
(* always fit together, as its attempts and its reply do (LoopInv).        *)
THEOREM LoopTheorem == Spec => [](PoolTypeOK /\ ServerTypeOK /\ LoopInv)
<1>1. Spec => []PoolTypeOK
  BY ServerImplementsPool, PoolTypeCorrect, PTL
<1>2. PoolTypeOK /\ ServerTypeOK /\ LoopInv /\ [Next]_vars
        => ServerTypeOK' /\ LoopInv'
  BY LoopStep
<1> QED BY <1>1, <1>2, LoopInit, PTL DEF Spec

(* Every variable of the server keeps its type, for any number of          *)
(* requests, backends and retries.                                         *)
THEOREM ServerTypeCorrect == Spec => []TypeOK
BY LoopTheorem, PTL DEF TypeOK

----------------------------------------------------------------------------
(* Server implements Exchange.                                             *)

LEMMA OneDeal ==
  ASSUME ServerTypeOK, NEW r \in Requests,
         call' = [call EXCEPT ![r] = call'[r]]
  PROVE  Deals' = [Deals EXCEPT ![r] = Deal(call'[r])]
<1>1. ASSUME NEW q \in Requests \ {r}
      PROVE  call'[q] = call[q]
  BY DEF ServerTypeOK
<1> QED BY <1>1 DEF Deals

DealSet == [phase : {"none", "open", "closed", "cut"}, retryable : BOOLEAN,
            tries : Nat, answer : {"none", "given", "final"}]

LEMMA DealType ==
  ASSUME NEW c \in Calls
  PROVE  Deal(c) \in DealSet
BY DEF Calls, Deal, DealSet

(* The two updates of a deal that set two fields, field by field.          *)
LEMMA OpenFields ==
  ASSUME NEW d \in DealSet, NEW x
  PROVE  [d EXCEPT !.phase = "open", !.retryable = x] =
           [phase |-> "open", retryable |-> x, tries |-> d.tries,
            answer |-> d.answer]
<1> DEFINE g == [d EXCEPT !.phase = "open", !.retryable = x]
<1>1. /\ g.phase = "open" /\ g.retryable = x
      /\ g.tries = d.tries /\ g.answer = d.answer
  BY DEF DealSet
<1>2. g \in [phase : {"open"}, retryable : {x}, tries : Nat,
             answer : {"none", "given", "final"}]
  BY DEF DealSet
<1> HIDE DEF g
<1>3. g = [phase |-> "open", retryable |-> x, tries |-> d.tries,
           answer |-> d.answer]
  BY <1>1, <1>2
<1> QED BY <1>3 DEF g

LEMMA CloseFields ==
  ASSUME NEW d \in DealSet
  PROVE  [d EXCEPT !.phase = "closed", !.answer = "given"] =
           [phase |-> "closed", retryable |-> d.retryable, tries |-> d.tries,
            answer |-> "given"]
<1> DEFINE g == [d EXCEPT !.phase = "closed", !.answer = "given"]
<1>1. /\ g.phase = "closed" /\ g.retryable = d.retryable
      /\ g.tries = d.tries /\ g.answer = "given"
  BY DEF DealSet
<1>2. g \in [phase : {"closed"}, retryable : BOOLEAN, tries : Nat,
             answer : {"given"}]
  BY DEF DealSet
<1> HIDE DEF g
<1>3. g = [phase |-> "closed", retryable |-> d.retryable, tries |-> d.tries,
           answer |-> "given"]
  BY <1>1, <1>2
<1> QED BY <1>3 DEF g

(* A write by the proxy is an answer; it is final only if r was sent.      *)
LEMMA WriteAnswers ==
  ASSUME ServerTypeOK, NEW r \in Requests, NEW status \in Status,
         NEW sized \in BOOLEAN,
         call' = [call EXCEPT ![r] = Written(call[r], status, sized)],
         call[r].at = "proxy", call[r].status = "none",
         status = "final" => call[r].sends > 0
  PROVE  Client!Answer(r)
<1> DEFINE c == call[r]
           d == Written(c, status, sized)
<1>1. c \in Calls /\ call'[r] = d /\ Deals[r] = Deal(c)
  BY DEF ServerTypeOK, Deals
<1>2. Deals' = [Deals EXCEPT ![r] = Deal(d)]
  BY <1>1, OneDeal
<1>3. /\ d.at = c.at /\ d.retryable = c.retryable /\ d.sends = c.sends
      /\ d.status = status /\ d.reply # "none"
  BY <1>1, WrittenFields
<1> DEFINE answer == IF status = "final" THEN "final" ELSE "given"
<1>4. /\ Deal(c).phase = "open" /\ Deal(c).answer # "final"
      /\ Deal(c).tries = c.sends
  BY DEF Deal
<1> HIDE DEF d, c
<1>5. Deal(d) = [Deal(c) EXCEPT !.answer = answer]
  BY <1>3 DEF Deal
<1>6. Deals' = [Deals EXCEPT ![r].answer = answer]
  BY <1>1, <1>2, <1>5
<1>7. answer \in {"given", "final"} /\ (answer = "final" => Deals[r].tries > 0)
  BY <1>1, <1>4 DEF c
<1> QED BY <1>1, <1>4, <1>6, <1>7 DEF Client!Answer

(* Every step of the loop is one that Exchange allows, or none at all.     *)
LEMMA ExchangeStep ==
  ASSUME ServerTypeOK, ProxyTypeOK, LoopInv, NEW r \in Requests, ServerStep(r)
  PROVE  Client!Next \/ UNCHANGED Deals
<1> DEFINE c == call[r]
           p == pc[r]
<1>0. /\ c \in Calls /\ LoopOK(c, p) /\ MaxRetries \in Nat
      /\ Deals[r] = Deal(c)
      /\ Deals' = [Deals EXCEPT ![r] = Deal(call'[r])]
  BY MaxRetriesAssumption, CallFrame, OneDeal
  DEF LoopInv, ServerTypeOK, Deals
<1>1. CASE Begin(r)
  <2>1. PICK retryable \in BOOLEAN, id \in {NoID, ClientID} :
          call'[r] = [c EXCEPT !.at = "choose", !.retryable = retryable,
                               !.id = id]
    BY <1>1 DEF Begin, ServerTypeOK
  <2>2. c = Fresh
    BY <1>0, <1>1 DEF Begin, At, LoopOK
  <2>3. Deal(c) = Client!Fresh
    BY <2>2 DEF Deal, Fresh, Client!Fresh
  <2>4. Deal(call'[r]) = [Deal(c) EXCEPT !.phase = "open",
                                         !.retryable = retryable]
    <3>1. /\ call'[r].at = "choose" /\ call'[r].retryable = retryable
          /\ call'[r].sends = 0 /\ call'[r].status = "none"
          /\ call'[r].reply = "none"
      BY <2>1, <2>2 DEF Fresh
    <3>2. Deal(call'[r]) =
            [phase |-> "open", retryable |-> retryable, tries |-> 0,
             answer |-> "none"]
      BY <3>1 DEF Deal
    <3>3. [Deal(c) EXCEPT !.phase = "open", !.retryable = retryable] =
            [phase |-> "open", retryable |-> retryable,
             tries |-> Deal(c).tries, answer |-> Deal(c).answer]
      BY <1>0, DealType, OpenFields
    <3>4. Deal(c).tries = 0 /\ Deal(c).answer = "none"
      BY <2>3 DEF Client!Fresh
    <3> QED BY <3>2, <3>3, <3>4
  <2>5. Client!Open(r)
    BY <1>0, <2>3, <2>4 DEF Client!Open
  <2> QED BY <2>5 DEF Client!Next
<1>2. CASE NoBackend(r)
  <2>1. /\ call'[r] = [Written(c, "retryable", FALSE) EXCEPT !.at = "done"]
        /\ c.at = "choose" /\ c.status # "final"
    BY <1>0, <1>2 DEF NoBackend, At, LoopOK, ServerTypeOK
  <2> DEFINE d == Written(c, "retryable", FALSE)
  <2>2. /\ d \in Calls /\ d.retryable = c.retryable /\ d.sends = c.sends
        /\ d.status = "retryable" /\ d.reply # "none"
    BY <1>0, WrittenFields DEF Status
  <2> HIDE DEF d
  <2>3. /\ call'[r].at = "done" /\ call'[r].retryable = c.retryable
        /\ call'[r].sends = c.sends /\ call'[r].status = "retryable"
        /\ call'[r].reply # "none"
    BY <2>1, <2>2 DEF Calls, d
  <2>4. Deal(call'[r]) = [Deal(c) EXCEPT !.phase = "closed", !.answer = "given"]
    <3>1. Deal(call'[r]) =
            [phase |-> "closed", retryable |-> c.retryable, tries |-> c.sends,
             answer |-> "given"]
      BY <2>3 DEF Deal
    <3>2. Deal(c) =
            [phase |-> "open", retryable |-> c.retryable, tries |-> c.sends,
             answer |-> Deal(c).answer]
      BY <2>1 DEF Deal
    <3>3. [Deal(c) EXCEPT !.phase = "closed", !.answer = "given"] =
            [phase |-> "closed", retryable |-> Deal(c).retryable,
             tries |-> Deal(c).tries, answer |-> "given"]
      BY <1>0, DealType, CloseFields
    <3> QED BY <3>1, <3>2, <3>3
  <2>5. Deals[r].phase = "open" /\ Deals[r].answer # "final"
    BY <1>0, <2>1 DEF Deal
  <2>6. Client!Refuse(r)
    BY <1>0, <2>4, <2>5 DEF Client!Refuse
  <2> QED BY <2>6 DEF Client!Next
<1>3. CASE \E b \in Backends : Choose(r, b)
  <2>1. /\ call'[r] = [c EXCEPT !.at = "proxy", !.status = "none"]
        /\ c.at = "choose" /\ c.status # "final"
    BY <1>0, <1>3 DEF Choose, At, LoopOK, ServerTypeOK
  <2>2. Deal(call'[r]) = Deal(c)
    BY <1>0, <2>1 DEF Deal, Calls
  <2> QED BY <1>0, <2>2 DEF Deals
<1>4. CASE Rejected(r) \/ Failed(r) \/ Refused(r)
  <2>1. call' = [call EXCEPT ![r] = Written(c, "retryable", FALSE)]
    BY <1>4 DEF Rejected, Failed, Refused, WriteError
  <2>2. p \in Early \cup Sent
    BY <1>4 DEF Rejected, Reject, Failed, UpstreamError, ClientError,
                HandleError, Refused, UpgradeRefused, Goto, Early, Sent
  <2>3. c.at = "proxy" /\ c.status = "none"
    BY <1>0, <2>2 DEF LoopOK, Early, Sent
  <2>4. Client!Answer(r)
    BY <2>1, <2>3, WriteAnswers DEF Status
  <2> QED BY <2>4 DEF Client!Next
<1>5. CASE Silent(r)
  BY <1>5 DEF Silent, serverVars, Deals
<1>6. CASE Prepared(r)
  <2>1. p = "prepare"
    BY <1>6 DEF Prepared, Prepare, Goto
  <2>2. /\ call'[r].at = c.at /\ call'[r].retryable = c.retryable
        /\ call'[r].status = c.status /\ call'[r].reply = c.reply
        /\ call'[r].sends = c.sends + 1
    BY <1>0, <1>6 DEF Prepared, Calls, ServerTypeOK
  <2>3. /\ c.at = "proxy" /\ c.status = "none" /\ c.sends <= c.attempt
        /\ c.attempt <= MaxRetries /\ c.sends \in Nat /\ c.attempt \in Nat
        /\ ~c.retryable => c.reply = "none" /\ c.attempt = 0
    BY <1>0, <2>1 DEF LoopOK, Early, Calls
  <2>4. Deal(call'[r]) = [Deal(c) EXCEPT !.tries = @ + 1]
    BY <2>2 DEF Deal
  <2>5. /\ Deal(c).phase = "open" /\ Deal(c).answer # "final"
        /\ Deal(c).answer = "given" => Deal(c).retryable
    BY <1>0, <2>3 DEF Deal, Calls
  <2>6. Deal(c).tries < Client!Limit(Deal(c))
    BY <1>0, <2>3 DEF Deal, Client!Limit
  <2>7. Client!Try(r)
    BY <1>0, <2>4, <2>5, <2>6 DEF Client!Try
  <2> QED BY <2>7 DEF Client!Next
<1>7. CASE Copied(r) \/ Aborted(r)
  <2>1. PICK status \in Status, sized \in BOOLEAN :
          call' = [call EXCEPT ![r] = Written(c, status, sized)]
    BY <1>7 DEF Copied, Aborted
  <2>2. p \in Sent
    BY <1>7 DEF Copied, CopyBody, Aborted, AbortCopy, Goto, Sent
  <2>3. c.at = "proxy" /\ c.status = "none" /\ c.sends > 0
    BY <1>0, <2>2 DEF LoopOK, Sent, Calls
  <2>4. Client!Answer(r)
    BY <2>1, <2>3, WriteAnswers
  <2> QED BY <2>4 DEF Client!Next
<1>8. CASE Decide(r)
  <2>1. /\ p \in {"returned", "aborted"}
        /\ c.at = "proxy" /\ c.status # "none" /\ c.reply # "none"
    BY <1>0, <1>8 DEF Decide, SendResponse, Retry, GiveUp, Unwind, Finish,
                      LoopOK, Answered
  <2>2. CASE Retry(r)
    <3>1. call'[r] = [c EXCEPT !.at = "choose", !.attempt = @ + 1]
      BY <2>2 DEF Retry, ServerTypeOK
    <3>2. Deal(call'[r]) = Deal(c)
      BY <1>0, <2>1, <3>1 DEF Deal, Calls
    <3> QED BY <1>0, <3>2 DEF Deals
  <2>3. CASE Unwind(r)
    <3>1. call'[r] = [c EXCEPT !.at = "cut"] /\ p = "aborted"
      BY <1>0, <2>3 DEF Unwind, Move, ServerTypeOK
    <3>2. Deal(call'[r]) = [Deal(c) EXCEPT !.phase = "cut"]
      BY <1>0, <3>1 DEF Deal, Calls
    <3>3. Deals[r].phase = "open" /\ Deals[r].answer # "none" /\ Deals[r].tries > 0
      BY <1>0, <2>1, <3>1 DEF Deal, LoopOK
    <3>4. Client!Cut(r)
      BY <1>0, <3>2, <3>3 DEF Client!Cut
    <3> QED BY <3>4 DEF Client!Next
  <2>4. CASE SendResponse(r) \/ GiveUp(r)
    <3>1. /\ call'[r].at = "done"
          /\ call'[r].retryable = c.retryable
          /\ call'[r].status = c.status /\ call'[r].reply = c.reply
          /\ call'[r].sends = c.sends
      <4>1. CASE SendResponse(r)
        BY <1>0, <4>1 DEF SendResponse, Move, Calls, ServerTypeOK
      <4>2. CASE GiveUp(r)
        <5> DEFINE d == Written(c, c.status, FALSE)
        <5>1. call'[r] = [d EXCEPT !.at = "done"] /\ c.status \in Status
          BY <4>2 DEF GiveUp, MayRetry, isRetryableStatus, Status, ServerTypeOK
        <5>2. /\ d \in Calls /\ d.retryable = c.retryable
              /\ d.sends = c.sends /\ d.status = c.status
              /\ d.reply = c.reply
          <6>1. c \in Calls /\ c.status \in Status /\ FALSE \in BOOLEAN
            BY <1>0, <5>1
          <6> QED
            BY <2>1, <6>1, WrittenFields, Zenon
        <5> HIDE DEF d
        <5>3. call'[r].at = "done"
          BY <5>1, <5>2 DEF Calls
        <5>4. /\ call'[r].retryable = d.retryable /\ call'[r].status = d.status
              /\ call'[r].reply = d.reply /\ call'[r].sends = d.sends
          BY <5>1, <5>2 DEF Calls
        <5> QED BY <5>2, <5>3, <5>4
      <4> QED BY <2>4, <4>1, <4>2
    <3>2. Deal(call'[r]) = [Deal(c) EXCEPT !.phase = "closed"]
      BY <3>1 DEF Deal
    <3>3. Deals[r].phase = "open" /\ Deals[r].answer # "none"
      BY <1>0, <2>1 DEF Deal
    <3>4. Client!Close(r)
      BY <1>0, <3>2, <3>3 DEF Client!Close
    <3> QED BY <3>4 DEF Client!Next
  <2> QED BY <1>8, <2>2, <2>3, <2>4 DEF Decide
<1>9. CASE Leave(r)
  <2>1. call'[r] = Fresh /\ c.at \in {"done", "cut"}
    BY <1>9 DEF Leave, ServerTypeOK
  <2>2. Deal(call'[r]) = Client!Fresh
    BY <2>1 DEF Deal, Fresh, Client!Fresh
  <2>3. Deals[r].phase \in {"closed", "cut"}
    BY <1>0, <2>1 DEF Deal
  <2>4. Client!Forget(r)
    BY <1>0, <2>2, <2>3 DEF Client!Forget
  <2> QED BY <2>4 DEF Client!Next
<1> QED BY <1>1, <1>2, <1>3, <1>4, <1>5, <1>6, <1>7, <1>8, <1>9
        DEF ServerStep, NextBackend, Attempt

(* The retry loop keeps the promises of Exchange, for any number of        *)
(* requests, backends and retries.                                         *)
THEOREM ContractTheorem == Spec => Contract
<1>1. Init => Client!Init
  BY DEF Init, ServerInit, Client!Init, Deals, Deal, Fresh, Client!Fresh
<1>2. PoolTypeOK /\ ServerTypeOK /\ LoopInv /\ [Next]_vars
        => [Client!Next]_Deals
  <2> SUFFICES ASSUME PoolTypeOK, ServerTypeOK, LoopInv, [Next]_vars
               PROVE  Client!Next \/ UNCHANGED Deals
    OBVIOUS
  <2>1. CASE \E r \in Requests : ServerStep(r)
    BY <2>1, ExchangeStep DEF PoolTypeOK
  <2>2. CASE UNCHANGED call
    BY <2>2 DEF Deals
  <2>3. CASE UNCHANGED serverVars \/ UNCHANGED vars
    BY <2>2, <2>3 DEF serverVars, vars
  <2> QED BY <2>1, <2>3 DEF Next
<1> QED BY <1>1, <1>2, LoopTheorem, PTL DEF Spec, Contract, Client!Spec

----------------------------------------------------------------------------
(* Request IDs.  They are distinct because none is above the counter.      *)

IdInv ==
  \A r \in Requests :
    /\ call[r].id <= requestCounter
    /\ \A q \in Requests \ {r} :
         call[r].id \notin {NoID, ClientID} => call[q].id # call[r].id

(* What an action does to the ID of its request.                           *)
LEMMA IdStep ==
  ASSUME ServerTypeOK, NEW r \in Requests, ServerStep(r)
  PROVE  \/ call'[r].id = call[r].id /\ requestCounter' = requestCounter
         \/ /\ At(r, "idle") \/ At(r, "idle")'
            /\ call'[r].id \in {NoID, ClientID}
            /\ requestCounter' = requestCounter
         \/ /\ call[r].id = NoID
            /\ call'[r].id = requestCounter + 1
            /\ requestCounter' = requestCounter + 1
<1> DEFINE c == call[r]
<1>0. c \in Calls /\ call \in [Requests -> Calls]
  BY DEF ServerTypeOK
<1>1. CASE Begin(r)
  BY <1>0, <1>1 DEF Begin, At, Calls
<1>2. CASE Leave(r)
  BY <1>0, <1>2 DEF Leave, At, Fresh
<1>3. CASE Prepared(r)
  BY <1>0, <1>3 DEF Prepared, Calls
<1>4. CASE (\E b \in Backends : Choose(r, b)) \/ SendResponse(r) \/ Retry(r)
             \/ Unwind(r) \/ Silent(r)
  BY <1>0, <1>4 DEF Choose, SendResponse, Retry, Unwind, Silent, Move, Calls,
                    serverVars
<1>5. CASE Rejected(r) \/ Failed(r) \/ Refused(r) \/ Copied(r) \/ Aborted(r)
  <2>1. \E status, sized : call'[r] = Written(c, status, sized)
    BY <1>0, <1>5 DEF Rejected, Failed, Refused, Copied, Aborted, WriteError
  <2>2. requestCounter' = requestCounter
    BY <1>5 DEF Rejected, Failed, Refused, Copied, Aborted
  <2> QED BY <1>0, <2>1, <2>2 DEF Written, Calls
<1>6. CASE NoBackend(r) \/ GiveUp(r)
  <2>1. \E status, sized :
          call'[r] = [Written(c, status, sized) EXCEPT !.at = "done"]
    BY <1>0, <1>6 DEF NoBackend, GiveUp
  <2>2. requestCounter' = requestCounter
    BY <1>6 DEF NoBackend, GiveUp
  <2> QED BY <1>0, <2>1, <2>2 DEF Written, Calls
<1> QED BY <1>1, <1>2, <1>3, <1>4, <1>5, <1>6
        DEF ServerStep, NextBackend, Attempt, Decide

LEMMA IdPreserved ==
  ASSUME PoolTypeOK, ServerTypeOK, LoopInv, IdInv, [Next]_vars
  PROVE  /\ IdInv'
         /\ \A r \in Requests :
              call[r].id # NoID /\ ~At(r, "idle") /\ ~At(r, "idle")'
                => call'[r].id = call[r].id
<1>0. /\ requestCounter \in Nat
      /\ \A q \in Requests : call[q].id \in Nat \cup {ClientID}
  BY DEF ServerTypeOK, Calls
<1>1. ASSUME NEW r \in Requests, ServerStep(r)
      PROVE  /\ IdInv'
             /\ \A q \in Requests :
                  call[q].id # NoID /\ ~At(q, "idle") /\ ~At(q, "idle")'
                    => call'[q].id = call[q].id
  <2>1. \A q \in Requests \ {r} : call'[q] = call[q]
    BY <1>1, CallFrame DEF PoolTypeOK, ServerTypeOK
  <2>2. CASE call'[r].id = call[r].id /\ requestCounter' = requestCounter
    BY <1>0, <2>1, <2>2 DEF IdInv
  <2>3. CASE /\ At(r, "idle") \/ At(r, "idle")'
             /\ call'[r].id \in {NoID, ClientID}
             /\ requestCounter' = requestCounter
    BY <1>0, <2>1, <2>3 DEF IdInv, NoID, ClientID
  <2>4. CASE /\ call[r].id = NoID
             /\ call'[r].id = requestCounter + 1
             /\ requestCounter' = requestCounter + 1
    BY <1>0, <2>1, <2>4 DEF IdInv, NoID, ClientID
  <2> QED BY <1>1, <2>2, <2>3, <2>4, IdStep
<1>2. CASE UNCHANGED serverVars
  BY <1>2 DEF serverVars, IdInv
<1> QED BY <1>1, <1>2 DEF Next, vars

(* A request keeps its ID through its retries and shares it with no other  *)
(* request, for any number of requests and retries.                        *)
THEOREM RequestIdTheorem == Spec => RequestIdKept
<1>1. Init => IdInv
  BY DEF Init, ServerInit, Fresh, IdInv, NoID
<1>2. PoolTypeOK /\ ServerTypeOK /\ LoopInv /\ IdInv /\ [Next]_vars => IdInv'
  BY IdPreserved
<1>3. PoolTypeOK /\ ServerTypeOK /\ LoopInv /\ IdInv /\ [Next]_vars
        => [\A r \in Requests :
              /\ call[r].id # NoID /\ ~At(r, "idle") /\ ~At(r, "idle")'
                   => call'[r].id = call[r].id
              /\ \A q \in Requests \ {r} :
                   call'[r].id \notin {NoID, ClientID}
                     => call'[q].id # call'[r].id]_vars
  BY IdPreserved DEF IdInv
<1> QED BY <1>1, <1>2, <1>3, LoopTheorem, PTL DEF Spec, RequestIdKept

----------------------------------------------------------------------------
(***************************************************************************)
(* Balancer.  The server with its strategies implements the server that    *)
(* may be given any backend: what is proved above of every strategy holds  *)
(* of round robin and of a strategy that is replaced while requests are    *)
(* retried.                                                                *)
(***************************************************************************)

(* A step of the server with its strategies is one of Server, or leaves    *)
(* its variables alone.                                                    *)
LEMMA BalancerStepIsServerStep ==
  [BalancerNext]_balancerVars => [Next]_vars
<1> SUFFICES ASSUME BalancerNext PROVE [Next]_vars
  BY DEF balancerVars
<1>1. ASSUME NEW r \in Requests, RequestMoves(r) PROVE [Next]_vars
  <2>1. CASE Draw(r) \/ Skip(r)
    BY <2>1 DEF Draw, Skip
  <2>2. CASE BalancerStep(r) /\ UNCHANGED <<healthVars, up>>
    <3>1. ServerStep(r)
      BY <2>2 DEF BalancerStep, Ask, Serve, Fail, Pick, ServerStep,
                  NextBackend, Decide
    <3> QED
      BY <2>2, <3>1 DEF Next
  <2> QED
    BY <1>1, <2>1, <2>2 DEF RequestMoves
<1>2. CASE Aside(CheckerStep) \/ Aside(ClockStep) \/ Aside(OutsideStep)
  BY <1>2 DEF Aside, Next
<1>3. CASE handleStrategy
  BY <1>3 DEF handleStrategy, Set
<1> QED
  BY <1>1, <1>2, <1>3 DEF BalancerNext

(* With StrategyController and round robin in place the loop of ServeHTTP  *)
(* remains the one of module Server (ServeHTTP, Current, NextBackend).     *)
THEOREM BalancerImplementsServer == BalancerSpec => Spec
<1>1. BalancerInit => Init
  BY DEF BalancerInit
<1>2. [BalancerNext]_balancerVars => [Next]_vars
  BY BalancerStepIsServerStep
<1> QED
  BY <1>1, <1>2, PTL DEF BalancerSpec, Spec

(* Hence the promises to clients hold with every strategy, also when the   *)
(* dashboard replaces it between two attempts (Exchange).                  *)
THEOREM BalancerKeepsContract == BalancerSpec => Contract
BY BalancerImplementsServer, ContractTheorem, PTL

(* What Exchange alone says of the deals, of whatever loop keeps it.       *)
DealsOK ==
  /\ Deals \in [Requests -> DealSet]
  /\ \A r \in Requests :
       /\ Deals[r].tries <= Client!Limit(Deals[r])
       /\ Deals[r].phase = "none" => Deals[r].tries = 0
       /\ Deals[r].phase = "closed" => Deals[r].answer # "none"

LEMMA DealsStep ==
  ASSUME DealsOK, NEW r \in Requests,
         \/ Client!Open(r) \/ Client!Try(r) \/ Client!Answer(r)
         \/ Client!Close(r) \/ Client!Refuse(r) \/ Client!Cut(r)
         \/ Client!Forget(r)
  PROVE  DealsOK'
<1> DEFINE Good(d) == /\ d \in DealSet
                      /\ d.tries <= Client!Limit(d)
                      /\ d.phase = "none" => d.tries = 0
                      /\ d.phase = "closed" => d.answer # "none"
           old == Deals[r]
<1>1. Deals = [q \in Requests |-> Deals[q]] /\ \A q \in Requests : Good(Deals[q])
  BY DEF DealsOK
<1>2. old \in DealSet /\ Good(old)
  BY <1>1
<1>3. MaxRetries + 1 \in Nat /\ MaxRetries + 1 >= 1
  BY MaxRetriesAssumption
<1>4. \E d : Good(d) /\ Deals' = [Deals EXCEPT ![r] = d]
  <2>1. CASE Client!Open(r)
    <3>1. PICK retryable \in BOOLEAN :
            Deals' = [Deals EXCEPT ![r].phase = "open", ![r].retryable = retryable]
      BY <2>1 DEF Client!Open
    <3> DEFINE d == [old EXCEPT !.phase = "open", !.retryable = retryable]
    <3>2. Deals' = [Deals EXCEPT ![r] = d]
      BY <1>1, <3>1
    <3>3. old.tries = 0 /\ old.answer = "none"
      BY <2>1 DEF Client!Open, Client!Fresh
    <3>4. d = [phase |-> "open", retryable |-> retryable, tries |-> 0, answer |-> "none"]
      BY <1>2, <3>3, OpenFields
    <3> HIDE DEF d
    <3>5. d \in DealSet
      BY <3>4 DEF DealSet
    <3>6. d.tries <= Client!Limit(d)
      BY <1>3, <3>4 DEF Client!Limit
    <3>7. d.phase # "none" /\ d.phase # "closed"
      BY <3>4
    <3> QED
      BY <3>2, <3>5, <3>6, <3>7
  <2>2. CASE Client!Try(r)
    <3> DEFINE d == [old EXCEPT !.tries = @ + 1]
    <3>1. Deals' = [Deals EXCEPT ![r] = d]
      BY <1>1, <2>2 DEF Client!Try
    <3>2. Good(d)
      BY <1>2, <1>3, <2>2 DEF Client!Try, Client!Limit, DealSet
    <3> QED
      BY <3>1, <3>2
  <2>3. CASE Client!Answer(r)
    <3>1. PICK answer \in {"given", "final"} : Deals' = [Deals EXCEPT ![r].answer = answer]
      BY <2>3 DEF Client!Answer
    <3> DEFINE d == [old EXCEPT !.answer = answer]
    <3>2. Deals' = [Deals EXCEPT ![r] = d]
      BY <1>1, <3>1
    <3>3. Good(d)
      BY <1>2, <3>1, <2>3 DEF Client!Answer, Client!Limit, DealSet
    <3> QED
      BY <3>2, <3>3
  <2>4. CASE Client!Close(r)
    <3> DEFINE d == [old EXCEPT !.phase = "closed"]
    <3>1. Deals' = [Deals EXCEPT ![r] = d]
      BY <1>1, <2>4 DEF Client!Close
    <3>2. Good(d)
      BY <1>2, <2>4 DEF Client!Close, Client!Limit, DealSet
    <3> QED
      BY <3>1, <3>2
  <2>5. CASE Client!Refuse(r)
    <3> DEFINE d == [old EXCEPT !.phase = "closed", !.answer = "given"]
    <3>1. Deals' = [Deals EXCEPT ![r] = d]
      BY <1>1, <2>5 DEF Client!Refuse
    <3>2. Good(d)
      BY <1>2, <2>5 DEF Client!Refuse, Client!Limit, DealSet
    <3> QED
      BY <3>1, <3>2
  <2>6. CASE Client!Forget(r)
    <3>1. Good(Client!Fresh)
      BY <1>3 DEF Client!Fresh, Client!Limit, DealSet
    <3> QED
      BY <2>6, <3>1 DEF Client!Forget
  <2>7. CASE Client!Cut(r)
    <3> DEFINE d == [old EXCEPT !.phase = "cut"]
    <3>1. Deals' = [Deals EXCEPT ![r] = d]
      BY <1>1, <2>7 DEF Client!Cut
    <3>2. Good(d)
      BY <1>2, <2>7 DEF Client!Cut, Client!Limit, DealSet
    <3> QED
      BY <3>1, <3>2
  <2> QED
    BY <2>1, <2>2, <2>3, <2>4, <2>5, <2>6, <2>7
<1>5. PICK d : Good(d) /\ Deals' = [Deals EXCEPT ![r] = d]
  BY <1>4
<1>6. /\ Deals' = [q \in Requests |-> Deals'[q]]
      /\ \A q \in Requests : Deals'[q] = IF q = r THEN d ELSE Deals[q]
  BY <1>1, <1>5
<1>7. \A q \in Requests : Good(Deals'[q])
  <2> HIDE DEF Good
  <2> QED
    BY <1>1, <1>5, <1>6
<1> QED
  BY <1>6, <1>7 DEF DealsOK, Client!Limit

(* What the contract comes to: a request that may change something reaches *)
(* a backend once, any other at most MaxRetries + 1 times, and whoever is  *)
(* done has been answered, with every strategy and whatever fails          *)
(* (ServeHTTP).                                                            *)
SentAtMost ==
  \A r \in Requests :
    /\ call[r].sends <= IF call[r].retryable THEN MaxRetries + 1 ELSE 1
    /\ At(r, "done") => call[r].reply # "none"

THEOREM SentTheorem == BalancerSpec => []SentAtMost
<1>1. Client!Init => DealsOK
  BY MaxRetriesAssumption DEF Client!Init, Client!Fresh, Client!Limit, DealsOK, DealSet
<1>2. DealsOK /\ [Client!Next]_Deals => DealsOK'
  <2>1. ASSUME DealsOK, UNCHANGED Deals PROVE DealsOK'
    BY <2>1 DEF DealsOK, Client!Limit
  <2> QED
    BY <2>1, DealsStep DEF Client!Next
<1>3. Contract => []DealsOK
  BY <1>1, <1>2, PTL DEF Contract, Client!Spec
<1>4. DealsOK /\ ServerTypeOK /\ LoopInv => SentAtMost
  <2> SUFFICES ASSUME DealsOK, ServerTypeOK, LoopInv, NEW r \in Requests
               PROVE  /\ call[r].sends <= IF call[r].retryable THEN MaxRetries + 1 ELSE 1
                      /\ At(r, "done") => call[r].reply # "none"
    BY DEF SentAtMost
  <2>1. Deals[r] = Deal(call[r])
    BY DEF Deals
  <2>2. /\ call[r].sends <= Client!Limit(Deals[r])
        /\ Deals[r].phase = "closed" => Deals[r].answer # "none"
    BY <2>1 DEF DealsOK, Deal
  <2>3. Deals[r].retryable = call[r].retryable
    BY <2>1 DEF Deal
  <2>4. call[r].sends <= IF call[r].retryable THEN MaxRetries + 1 ELSE 1
    BY <2>2, <2>3 DEF Client!Limit
  <2>5. ASSUME At(r, "done") PROVE call[r].reply # "none"
    <3>1. Deal(call[r]).phase = "closed"
      BY <2>5 DEF Deal, At
    <3>2. Deal(call[r]).answer # "none"
      BY <2>1, <2>2, <3>1
    <3>3. call[r].status = "final" => call[r].reply # "none"
      BY <2>5 DEF LoopInv, LoopOK, At
    <3> QED
      BY <3>2, <3>3 DEF Deal
  <2> QED
    BY <2>4, <2>5
<1> QED
  BY <1>3, <1>4, BalancerKeepsContract, BalancerImplementsServer, LoopTheorem, PTL

(* What is proved of each part holds of the balancer as it runs, with all  *)
(* its strategies: every part implements the one before it.                *)
THEOREM BalancerKeepsPool ==
  BalancerSpec =>
    /\ [](ClosedBelowThreshold /\ ConnectionsAccounted /\ BlamelessKept)
    /\ ClosesThroughTrial
    /\ AverageWithin
    /\ OnlyChecksRevive
    /\ RequestIdKept
BY BalancerImplementsServer, ServerImplementsPool, PoolImplementsBackend, ThresholdTheorem,
   AccountsTheorem, BlamelessTheorem, TrialTheorem, AverageTheorem, ReviveTheorem,
   RequestIdTheorem, PTL

----------------------------------------------------------------------------
(* Types.                                                                  *)

(* A backend is drawn only while the loop of NextBackend goes on.          *)
DrawnInLoop ==
  \A r \in Requests : loop[r].idx # NumBackends => loop[r].attempt < NumBackends

ChoiceInv == ChoiceTypeOK /\ DrawnInLoop

(* The backend that the last number drawn points at.                       *)
Pointed(r) == counter[using[r]] % NumBackends

(* The number after the last one points at the next backend.               *)
LEMMA Successor ==
  ASSUME NEW n \in Nat
  PROVE  /\ n % NumBackends \in Backends
         /\ (n + 1) % NumBackends =
              IF (n % NumBackends) + 1 < NumBackends THEN (n % NumBackends) + 1 ELSE 0
<1> DEFINE q == n \div NumBackends
           p == n % NumBackends
           q1 == (n + 1) \div NumBackends
           p1 == (n + 1) % NumBackends
           N == NumBackends
<1>0. N \in Nat \ {0}
  BY NumBackendsAssumption
<1>1. /\ q \in Int /\ p \in Backends /\ n = N * q + p
      /\ q1 \in Int /\ p1 \in Backends /\ n + 1 = N * q1 + p1
  BY <1>0 DEF Backends
<1> HIDE DEF q, p, q1, p1, N
<1>2. N * (q1 - q) = p + 1 - p1
  <2>1. N * (q1 - q) = N * q1 - N * q /\ N * q1 \in Int /\ N * q \in Int
    BY <1>0, <1>1
  <2> QED
    BY <1>0, <1>1, <2>1 DEF Backends, N
<1>3. 0 <= q1 - q /\ q1 - q <= 1
  <2>1. p + 1 - p1 \in (1 - N + 1) .. N
    BY <1>0, <1>1 DEF Backends, N
  <2>2. ASSUME NEW k \in Int, k <= -1 PROVE N * k <= -N
    BY <1>0, <2>2
  <2>3. ASSUME NEW k \in Int, 2 <= k PROVE N * k >= 2 * N
    BY <1>0, <2>3
  <2>4. q1 - q \in Int
    BY <1>1
  <2> QED
    BY <1>0, <1>2, <2>1, <2>2, <2>3, <2>4
<1>4. q1 - q = 0 \/ q1 - q = 1
  BY <1>1, <1>3
<1>5. p + 1 - p1 = 0 \/ p + 1 - p1 = N
  BY <1>0, <1>2, <1>4
<1>6. p1 = IF p + 1 < N THEN p + 1 ELSE 0
  BY <1>0, <1>1, <1>5 DEF Backends, N
<1> QED
  BY <1>1, <1>6 DEF p, p1, N

LEMMA ChoiceInit == BalancerInit => ChoiceInv
<1> USE NumBackendsAssumption, MaxSetsAssumption, CounterAssumption
    DEF BalancerInit, Instances, Backends, Entered
<1>1. BalancerInit => ChoiceTypeOK
  BY DEF ChoiceTypeOK
<1>2. BalancerInit => DrawnInLoop
  BY DEF DrawnInLoop
<1> QED
  BY <1>1, <1>2 DEF ChoiceInv

LEMMA WatchType ==
  ASSUME Watch
  PROVE  stayed' \in [Requests -> SUBSET Backends]
BY DEF Watch, Available

LEMMA ChoiceStep ==
  ASSUME ChoiceInv, [BalancerNext]_balancerVars
  PROVE  ChoiceInv'
<1> USE NumBackendsAssumption, MaxSetsAssumption, CounterAssumption
<1>1. ASSUME NEW r \in Requests, RequestMoves(r) PROVE ChoiceInv'
  <2>0. stayed' \in [Requests -> SUBSET Backends]
    BY <1>1, WatchType DEF RequestMoves
  <2>1. CASE Ask(r)
    <3>1. Entered \in [attempt : 0 .. NumBackends, idx : 0 .. NumBackends]
          /\ Entered.idx = NumBackends
      BY DEF Entered
    <3>2. /\ loop' \in [Requests -> [attempt : 0 .. NumBackends, idx : 0 .. NumBackends]]
          /\ DrawnInLoop'
      BY <2>1, <3>1 DEF Ask, ChoiceInv, ChoiceTypeOK, DrawnInLoop
    <3>3. using' \in [Requests -> Instances]
      BY <2>1 DEF Ask, Using, ChoiceInv, ChoiceTypeOK
    <3>4. tried' \in [Requests -> SUBSET Backends] /\ alone' \in [Requests -> BOOLEAN]
      BY <2>1 DEF Ask, ChoiceInv, ChoiceTypeOK
    <3> QED
      BY <2>0, <2>1, <3>2, <3>3, <3>4 DEF Ask, controllerVars, ChoiceInv, ChoiceTypeOK
  <2>2. CASE Draw(r)
    <3>1. counter[using[r]] \in 0 .. (CounterSize - 1) /\ using[r] \in Instances
      BY DEF ChoiceInv, ChoiceTypeOK
    <3> DEFINE next == (counter[using[r]] + 1) % CounterSize
    <3>2. next \in 0 .. (CounterSize - 1) /\ next \in Nat
      BY <3>1
    <3>3. /\ counter' = [counter EXCEPT ![using[r]] = next]
          /\ counter' \in [Instances -> 0 .. (CounterSize - 1)]
          /\ counter'[using[r]] = next
      <4>1. counter' = [counter EXCEPT ![using[r]] = next]
        BY <2>2 DEF Draw
      <4> HIDE DEF next
      <4> QED
        BY <3>1, <3>2, <4>1 DEF ChoiceInv, ChoiceTypeOK
    <3> HIDE DEF next
    <3>11. next % NumBackends \in 0 .. NumBackends
      BY <3>2, Successor DEF Backends
    <3>4. /\ loop' \in [Requests -> [attempt : 0 .. NumBackends, idx : 0 .. NumBackends]]
          /\ DrawnInLoop'
      <4> DEFINE l == [loop[r] EXCEPT !.idx = next % NumBackends]
      <4>1. loop[r] \in [attempt : 0 .. NumBackends, idx : 0 .. NumBackends]
        BY DEF ChoiceInv, ChoiceTypeOK
      <4>2. /\ l \in [attempt : 0 .. NumBackends, idx : 0 .. NumBackends]
            /\ l.attempt = loop[r].attempt
        BY <3>11, <4>1
      <4>3. loop' = [loop EXCEPT ![r] = l] /\ loop[r].attempt < NumBackends
        BY <2>2, <3>3 DEF Draw
      <4> HIDE DEF l
      <4> QED
        BY <4>2, <4>3 DEF ChoiceInv, ChoiceTypeOK, DrawnInLoop
    <3>5. alone' \in [Requests -> BOOLEAN]
      BY <2>2 DEF Draw, ChoiceInv, ChoiceTypeOK
    <3> QED
      BY <2>0, <2>2, <3>3, <3>4, <3>5 DEF Draw, controllerVars, ChoiceInv, ChoiceTypeOK
  <2>3. CASE Skip(r)
    <3>1. loop[r].attempt + 1 \in 0 .. NumBackends
      BY <2>3 DEF Skip, ChoiceInv, ChoiceTypeOK, DrawnInLoop, Backends
    <3>2. /\ loop' \in [Requests -> [attempt : 0 .. NumBackends, idx : 0 .. NumBackends]]
          /\ DrawnInLoop'
      BY <2>3, <3>1 DEF Skip, ChoiceInv, ChoiceTypeOK, DrawnInLoop
    <3> QED
      BY <2>0, <2>3, <3>2 DEF Skip, controllerVars, ChoiceInv, ChoiceTypeOK
  <2>4. CASE Serve(r) \/ Fail(r) \/ \E b \in Backends : Pick(r, b)
    <3>1. tried' \in [Requests -> SUBSET Backends]
      BY <2>4 DEF Serve, Fail, Pick, ChoiceInv, ChoiceTypeOK
    <3> QED
      BY <2>0, <2>4, <3>1 DEF Serve, Fail, Pick, controllerVars, choiceVars, ChoiceInv,
                              ChoiceTypeOK, DrawnInLoop
  <2> QED
    BY <1>1, <2>1, <2>2, <2>3, <2>4 DEF RequestMoves, BalancerStep
<1>2. CASE Aside(CheckerStep) \/ Aside(ClockStep) \/ Aside(OutsideStep)
  BY <1>2, WatchType DEF Aside, controllerVars, choiceVars, ChoiceInv, ChoiceTypeOK, DrawnInLoop
<1>3. CASE handleStrategy /\ Watch
  <2>1. PICK strategy \in Names : Set(strategy)
    BY <1>3 DEF handleStrategy
  <2>2. current' \in Instances /\ name' \in [Instances -> Names]
    BY <2>1 DEF Set, ChoiceInv, ChoiceTypeOK, Instances
  <2> QED
    BY <1>3, <2>1, <2>2, WatchType DEF Set, choiceVars, ChoiceInv, ChoiceTypeOK, DrawnInLoop
<1>4. CASE UNCHANGED balancerVars
  BY <1>4 DEF balancerVars, controllerVars, choiceVars, history, ChoiceInv, ChoiceTypeOK,
              DrawnInLoop
<1> QED
  BY <1>1, <1>2, <1>3, <1>4 DEF BalancerNext

(* Every variable keeps its type, for any number of requests, backends,    *)
(* retries and changes of the strategy: the index that round robin takes   *)
(* from its counter is one of the slice (Draw).                            *)
THEOREM BalancerTypeCorrect == BalancerSpec => []BalancerTypeOK
<1>1. BalancerSpec => []ChoiceInv
  BY ChoiceInit, ChoiceStep, PTL DEF BalancerSpec
<1>2. BalancerSpec => []TypeOK
  BY BalancerImplementsServer, ServerTypeCorrect, PTL
<1> QED
  BY <1>1, <1>2, PTL DEF ChoiceInv, BalancerTypeOK

----------------------------------------------------------------------------
(* The sweep of round robin over the attempts of one request.              *)

(* The index that the counter had k draws before it came to n.             *)
Behind(n, k) == IF k <= n THEN n - k ELSE n - k + NumBackends

(* The backends drawn `from' draws ago on, fewer than `to' draws ago, *)
(* were tried, or did not stay available.                                  *)
Swept(n, yes, st, from, to) ==
  \A k \in Backends : from <= k /\ k < to => Behind(n, k) \in yes \/ Behind(n, k) \notin st

(* Every attempt that is over swept at least one backend, and every step   *)
(* of the loop of NextBackend one more; the one that was drawn last is     *)
(* still to be looked at.                                                  *)
SweepOK(c, l, n, yes, st) ==
  /\ c.at = "choose" /\ l.idx = NumBackends =>
       Swept(n, yes, st, 0, c.attempt + l.attempt)
  /\ c.at = "choose" /\ l.idx # NumBackends =>
       l.idx = n /\ Swept(n, yes, st, 1, c.attempt + l.attempt + 1)
  /\ c.at = "proxy" => Swept(n, yes, st, 0, c.attempt + 1)
  /\ c.at = "done" /\ c.retryable /\ c.status = "retryable" /\ NumBackends <= MaxRetries + 1 =>
       st \subseteq yes

SweepInv ==
  \A r \in Requests :
    /\ using[r] <= current
    /\ RoundRobin(r) /\ alone[r] =>
         SweepOK(call[r], loop[r], Pointed(r), tried[r], stayed[r])

LEMMA SweptLess ==
  ASSUME NEW n, NEW yes, NEW st, NEW more, NEW fewer, NEW from \in Nat, NEW to \in Nat,
         Swept(n, yes, st, from, to), yes \subseteq more, fewer \subseteq st
  PROVE  Swept(n, more, fewer, from, to)
BY DEF Swept

LEMMA SweptShorter ==
  ASSUME NEW n, NEW yes, NEW st, NEW from \in Nat, NEW to \in Nat, NEW upto \in Nat,
         Swept(n, yes, st, from, to), upto <= to
  PROVE  Swept(n, yes, st, from, upto)
BY NumBackendsAssumption DEF Swept, Backends

LEMMA SweptDraw ==
  ASSUME NEW n \in Backends, NEW yes, NEW st, NEW to \in Nat, Swept(n, yes, st, 0, to),
         NEW m, m = IF n + 1 < NumBackends THEN n + 1 ELSE 0
  PROVE  Swept(m, yes, st, 1, to + 1)
<1> SUFFICES ASSUME NEW k \in Backends, 1 <= k, k < to + 1
             PROVE  Behind(m, k) \in yes \/ Behind(m, k) \notin st
  BY DEF Swept
<1>1. k - 1 \in Backends /\ 0 <= k - 1 /\ k - 1 < to
  BY NumBackendsAssumption DEF Backends
<1>2. Behind(m, k) = Behind(n, k - 1)
  BY NumBackendsAssumption DEF Behind, Backends
<1>3. Behind(n, k - 1) \in yes \/ Behind(n, k - 1) \notin st
  BY <1>1 DEF Swept
<1> QED
  BY <1>2, <1>3

(* A sweep up to the last number takes that one in, if its backend was     *)
(* tried or did not stay available.                                        *)
LEMMA SweptFront ==
  ASSUME NEW n \in Backends, NEW yes, NEW st, NEW to \in Nat, Swept(n, yes, st, 1, to),
         n \in yes \/ n \notin st
  PROVE  Swept(n, yes, st, 0, to)
<1>1. Behind(n, 0) = n
  BY NumBackendsAssumption DEF Behind, Backends
<1>2. ASSUME NEW k \in Backends, k # 0 PROVE 1 <= k
  BY <1>2, NumBackendsAssumption DEF Backends
<1> QED
  BY <1>1, <1>2 DEF Swept

(* A sweep over NumBackends numbers is one over all backends.              *)
LEMMA SweptAll ==
  ASSUME NEW n \in Backends, NEW yes, NEW st \in SUBSET Backends, NEW to \in Nat,
         NumBackends <= to, Swept(n, yes, st, 0, to)
  PROVE  st \subseteq yes
<1> SUFFICES ASSUME NEW b \in st PROVE b \in yes
  OBVIOUS
<1> DEFINE k == IF b <= n THEN n - b ELSE n - b + NumBackends
<1>1. k \in Backends /\ 0 <= k /\ k < to /\ Behind(n, k) = b
  BY NumBackendsAssumption DEF Backends, Behind
<1> QED
  BY <1>1 DEF Swept

(* What the sweep needs of the steps of ServeHTTP.                         *)
LEMMA ServeCalls ==
  ASSUME ServerTypeOK, ProxyTypeOK, LoopInv, NEW r \in Requests, Serve(r)
  PROVE  \/ /\ call[r].at = "proxy" /\ call'[r].at = "proxy"
            /\ call'[r].attempt = call[r].attempt
         \/ call'[r].at \in {"cut", "idle"}
         \/ call'[r].at = "done" /\ call'[r].retryable /\ call'[r].status # "retryable"
         \/ call'[r].at = "done" /\ ~call'[r].retryable
         \/ /\ call[r].at = "proxy" /\ call'[r].at = "done"
            /\ call[r].attempt = MaxRetries
<1>0. call[r] \in Calls /\ LoopOK(call[r], pc[r])
  BY DEF LoopInv, ServerTypeOK
<1>1. CASE Attempt(r)
  <2>1. pc[r] # "idle"
    BY <1>1 DEF Attempt, Rejected, Reject, Silent, Admit, TrialStep, ReadState, ReadCooldown,
                StartTrial, Track, HandleSuccess, Measure, Release, Prepared, Prepare, Failed,
                UpstreamError, ClientError, HandleError, Copied, CopyBody, Refused,
                UpgradeRefused, Aborted, AbortCopy, Goto
  <2>2. call[r].at = "proxy"
    BY <1>0, <2>1 DEF LoopOK
  <2>3. CASE Rejected(r) \/ Failed(r) \/ Refused(r) \/ Copied(r) \/ Aborted(r)
    <3>1. PICK status \in Status, sized \in BOOLEAN :
            call'[r] = Written(call[r], status, sized)
      BY <2>3 DEF Rejected, Failed, Refused, Copied, Aborted, WriteError, Status, ServerTypeOK
    <3> QED
      BY <1>0, <2>2, <3>1, WrittenFields
  <2>4. CASE Silent(r)
    BY <2>2, <2>4 DEF Silent, serverVars
  <2>5. CASE Prepared(r)
    <3>1. PICK id : \/ call'[r] = [call[r] EXCEPT !.id = id, !.sends = @ + 1]
                    \/ call'[r] = [call[r] EXCEPT !.sends = @ + 1]
      BY <2>5 DEF Prepared, ServerTypeOK
    <3> QED
      BY <1>0, <2>2, <3>1 DEF Calls
  <2> QED
    BY <1>1, <2>3, <2>4, <2>5 DEF Attempt
<1>2. CASE SendResponse(r)
  BY <1>0, <1>2 DEF SendResponse, Move, isRetryableStatus, ServerTypeOK, Calls
<1>3. CASE GiveUp(r)
  <2>1. call[r].status \in Status /\ pc[r] # "idle"
    BY <1>3 DEF GiveUp, Finish, MayRetry, isRetryableStatus, Status
  <2>2. Written(call[r], call[r].status, FALSE) \in Calls
    BY <1>0, <2>1, WrittenFields
  <2>3. call'[r].at = "done"
    BY <1>3, <2>2 DEF GiveUp, ServerTypeOK, Calls
  <2> QED
    BY <1>0, <1>3, <2>1, <2>3 DEF GiveUp, LoopOK
<1>4. CASE Unwind(r)
  BY <1>0, <1>4 DEF Unwind, Move, ServerTypeOK, Calls
<1>5. CASE Leave(r)
  BY <1>5 DEF Leave, Fresh, ServerTypeOK
<1> QED
  BY <1>1, <1>2, <1>3, <1>4, <1>5 DEF Serve

(* The step of a request keeps its own sweep.                              *)
LEMMA OwnSweep ==
  ASSUME ServerTypeOK, ProxyTypeOK, LoopInv, ChoiceInv, SweepInv,
         NEW r \in Requests, RequestMoves(r), RoundRobin(r)', alone'[r]
  PROVE  SweepOK(call'[r], loop'[r], Pointed(r)', tried'[r], stayed'[r])
<1> DEFINE c == call[r]
           n == Pointed(r)
<1>0. /\ c \in Calls /\ LoopOK(c, pc[r]) /\ c.attempt \in Nat
      /\ loop[r] \in [attempt : 0 .. NumBackends, idx : 0 .. NumBackends]
      /\ loop[r].attempt \in Nat /\ using[r] \in Instances /\ n \in Backends
      /\ NumBackends \in Nat
      /\ tried[r] \in SUBSET Backends /\ stayed[r] \in SUBSET Backends
      /\ counter[using[r]] \in 0 .. (CounterSize - 1)
  <2>1. using[r] \in Instances /\ counter[using[r]] \in 0 .. (CounterSize - 1)
    BY DEF ChoiceInv, ChoiceTypeOK
  <2>2. counter[using[r]] \in Nat
    BY <2>1, CounterAssumption
  <2>3. n \in Backends
    BY <2>2, Successor DEF Pointed
  <2> QED
    BY <2>1, <2>3, NumBackendsAssumption
    DEF LoopInv, ServerTypeOK, Calls, ChoiceInv, ChoiceTypeOK
<1>1. /\ stayed'[r] \in SUBSET Backends
      /\ ~At(r, "idle") => stayed'[r] \subseteq stayed[r] /\ stayed'[r] \subseteq Available'
  BY DEF RequestMoves, Watch, Available
<1>2. CASE Ask(r) /\ Begin(r)
  <2>1. call'[r].at = "choose" /\ call'[r].attempt = 0
    <3>1. c = Fresh
      BY <1>0, <1>2 DEF Begin, At, LoopOK
    <3>2. PICK retryable \in BOOLEAN, id \in {NoID, ClientID} :
            call'[r] = [c EXCEPT !.at = "choose", !.retryable = retryable, !.id = id]
      BY <1>2 DEF Begin, ServerTypeOK
    <3> QED
      BY <3>1, <3>2 DEF Fresh
  <2>2. loop'[r] = Entered
    BY <1>2 DEF Ask, ChoiceInv, ChoiceTypeOK
  <2>3. Swept(Pointed(r)', tried'[r], stayed'[r], 0, 0)
    BY NumBackendsAssumption DEF Swept, Backends
  <2> QED
    BY <1>0, <2>1, <2>2, <2>3 DEF SweepOK, Entered
<1>3. CASE ~At(r, "idle")
  <2>1. /\ using'[r] = using[r] /\ name' = name
        /\ alone'[r] => alone[r]
        /\ counter' = counter => Pointed(r)' = n
    BY <1>3 DEF RequestMoves, BalancerStep, Ask, Using, Draw, Skip, Serve, Fail, Pick,
                controllerVars, choiceVars, ChoiceInv, ChoiceTypeOK, Pointed
  <2>2. RoundRobin(r) /\ SweepOK(c, loop[r], n, tried[r], stayed[r])
    BY <2>1 DEF RoundRobin, SweepInv
  <2>3. CASE Ask(r) /\ Retry(r)
    <3>1. /\ call'[r].at = "choose" /\ call'[r].attempt = c.attempt + 1
          /\ c.at = "proxy"
      <4>1. call'[r] = [c EXCEPT !.at = "choose", !.attempt = @ + 1] /\ pc[r] # "idle"
        BY <2>3 DEF Retry, Finish, ServerTypeOK
      <4> QED
        BY <1>0, <4>1 DEF Calls, LoopOK
    <3>2. loop'[r] = Entered /\ tried'[r] = tried[r] /\ counter' = counter
      BY <1>3, <2>3 DEF Ask, ChoiceInv, ChoiceTypeOK
    <3>3. Swept(n, tried'[r], stayed'[r], 0, c.attempt + 1)
      BY <1>0, <1>1, <1>3, <2>2, <3>1, <3>2, SweptLess DEF SweepOK
    <3> QED
      BY <1>0, <2>1, <3>1, <3>2, <3>3 DEF SweepOK, Entered
  <2>4. CASE Draw(r)
    <3>1. /\ call'[r] = c /\ c.at = "choose" /\ loop[r].idx = NumBackends
          /\ tried'[r] = tried[r]
      BY <2>4 DEF Draw, At, vars, serverVars
    <3>2. Pointed(r)' = IF n + 1 < NumBackends THEN n + 1 ELSE 0
      <4> DEFINE k == counter[using[r]]
                 next == (k + 1) % CounterSize
      <4>1. counter' = [counter EXCEPT ![using[r]] = next] /\ counter'[using[r]] # 0
        BY <2>4 DEF Draw
      <4>2. k \in 0 .. (CounterSize - 1) /\ k \in Nat
        BY <1>0, CounterAssumption
      <4>3. counter'[using[r]] = next
        BY <1>0, <4>1 DEF ChoiceInv, ChoiceTypeOK
      <4>4. next = k + 1
        BY <4>1, <4>2, <4>3, CounterAssumption
      <4>5. Pointed(r)' = (k + 1) % NumBackends /\ n = k % NumBackends
        BY <2>1, <4>3, <4>4 DEF Pointed
      <4> HIDE DEF k, n
      <4> QED
        BY <4>2, <4>5, Successor
    <3>3. /\ loop'[r].attempt = loop[r].attempt
          /\ loop'[r].idx = Pointed(r)'
      BY <1>0, <2>1, <2>4 DEF Draw, ChoiceInv, ChoiceTypeOK, Pointed
    <3>4. Swept(n, tried'[r], stayed'[r], 0, c.attempt + loop[r].attempt)
      BY <1>0, <1>1, <1>3, <2>2, <3>1, SweptLess DEF SweepOK
    <3>5. Swept(Pointed(r)', tried'[r], stayed'[r], 1, c.attempt + loop[r].attempt + 1)
      BY <1>0, <3>2, <3>4, SweptDraw
    <3>6. loop'[r].idx # NumBackends
      BY <1>0, <3>2, <3>3, NumBackendsAssumption DEF Backends
    <3> QED
      BY <3>1, <3>3, <3>5, <3>6 DEF SweepOK
  <2>5. CASE Skip(r)
    <3>1. /\ call'[r] = c /\ c.at = "choose" /\ counter' = counter /\ tried'[r] = tried[r]
          /\ loop[r].idx \in Backends \ Available /\ Available' = Available
      BY <2>5 DEF Skip, At, vars, serverVars, poolVars, backendVars, Available,
                  CheckCircuitState, CooldownOver
    <3>2. loop[r].idx = n /\ Swept(n, tried[r], stayed[r], 1, c.attempt + loop[r].attempt + 1)
      BY <2>2, <3>1, NumBackendsAssumption DEF SweepOK, Backends
    <3>3. Swept(n, tried[r], stayed'[r], 1, c.attempt + loop[r].attempt + 1)
      BY <1>0, <1>1, <1>3, <3>2, SweptLess
    <3>4. Swept(n, tried[r], stayed'[r], 0, c.attempt + loop[r].attempt + 1)
      BY <1>0, <1>1, <1>3, <3>1, <3>2, <3>3, SweptFront
    <3>5. loop'[r].attempt = loop[r].attempt + 1 /\ loop'[r].idx = NumBackends
      BY <2>5 DEF Skip, ChoiceInv, ChoiceTypeOK
    <3>6. c.attempt + loop'[r].attempt = c.attempt + loop[r].attempt + 1
      BY <1>0, <3>5
    <3> QED
      BY <2>1, <3>1, <3>4, <3>5, <3>6 DEF SweepOK
  <2>6. ASSUME NEW b \in Backends, Pick(r, b)
        PROVE  SweepOK(call'[r], loop'[r], Pointed(r)', tried'[r], stayed'[r])
    <3>1. /\ c.at = "choose" /\ b = loop[r].idx /\ counter' = counter
          /\ tried'[r] = tried[r] \cup {b}
      BY <2>2, <2>6 DEF Pick, Choose, At, choiceVars, ChoiceInv, ChoiceTypeOK
    <3>2. call'[r].at = "proxy" /\ call'[r].attempt = c.attempt
      BY <1>0, <2>6 DEF Pick, Choose, ServerTypeOK, Calls
    <3>3. b = n /\ Swept(n, tried[r], stayed[r], 1, c.attempt + loop[r].attempt + 1)
      BY <2>2, <3>1, NumBackendsAssumption DEF SweepOK, Backends
    <3>4. Swept(n, tried'[r], stayed'[r], 1, c.attempt + loop[r].attempt + 1)
      BY <1>0, <1>1, <1>3, <3>1, <3>3, SweptLess
    <3>5. Swept(n, tried'[r], stayed'[r], 0, c.attempt + loop[r].attempt + 1)
      BY <1>0, <3>1, <3>3, <3>4, SweptFront
    <3>6. Swept(n, tried'[r], stayed'[r], 0, c.attempt + 1)
      BY <1>0, <3>5, SweptShorter
    <3> QED
      BY <2>1, <3>1, <3>2, <3>6 DEF SweepOK
  <2>7. CASE Fail(r)
    <3>1. /\ c.at = "choose" /\ loop[r].attempt = NumBackends /\ tried'[r] = tried[r]
      BY <2>2, <2>7 DEF Fail, NoBackend, At
    <3>2. loop[r].idx = NumBackends
      BY <3>1, NumBackendsAssumption DEF ChoiceInv, DrawnInLoop
    <3>3. Swept(n, tried[r], stayed[r], 0, c.attempt + NumBackends)
      BY <2>2, <3>1, <3>2 DEF SweepOK
    <3>4. stayed[r] \subseteq tried[r]
      BY <1>0, <3>3, SweptAll
    <3>5. call'[r].at = "done"
      <4>1. Written(c, "retryable", FALSE) \in Calls
        BY <1>0, WrittenFields DEF Status
      <4> QED
        BY <2>7, <4>1 DEF Fail, NoBackend, ServerTypeOK, Calls
    <3> QED
      BY <1>1, <1>3, <3>1, <3>4, <3>5 DEF SweepOK
  <2>8. CASE Serve(r)
    <3>1. tried' = tried /\ counter' = counter
      BY <2>8 DEF Serve, choiceVars
    <3>2. ASSUME c.at = "proxy"
          PROVE  Swept(n, tried'[r], stayed'[r], 0, c.attempt + 1)
      BY <1>0, <1>1, <1>3, <2>2, <3>1, <3>2, SweptLess DEF SweepOK
    <3>3. CASE c.at = "proxy" /\ call'[r].at = "proxy" /\ call'[r].attempt = c.attempt
      BY <2>1, <3>1, <3>2, <3>3 DEF SweepOK
    <3>4. CASE c.at = "proxy" /\ call'[r].at = "done" /\ c.attempt = MaxRetries
      <4>1. NumBackends <= MaxRetries + 1 => stayed'[r] \subseteq tried'[r]
        BY <1>0, <1>1, <3>1, <3>2, <3>4, SweptAll
      <4> QED
        BY <3>4, <4>1 DEF SweepOK
    <3> QED
      BY <2>8, <3>3, <3>4, ServeCalls DEF SweepOK
  <2> QED
    BY <1>3, <2>3, <2>4, <2>5, <2>6, <2>7, <2>8
    DEF RequestMoves, BalancerStep, Ask, Begin
<1>4. CASE At(r, "idle")
  <2>1. pc[r] = "idle" /\ c.at = "idle"
    BY <1>0, <1>4 DEF At, LoopOK
  <2>2. Ask(r) /\ Begin(r)
    BY <2>1 DEF RequestMoves, BalancerStep, Ask, Retry, Draw, Skip, Fail, NoBackend, Pick,
                Choose, Serve, Attempt, Rejected, Reject, Silent, Admit, TrialStep, ReadState,
                ReadCooldown, StartTrial, Track, HandleSuccess, Measure, Release, Prepared,
                Prepare, Failed, UpstreamError, ClientError, HandleError, Copied, CopyBody,
                Refused, UpgradeRefused, Aborted, AbortCopy, Goto, SendResponse, GiveUp,
                Unwind, Leave, At
  <2> QED
    BY <1>2, <2>2
<1> QED
  BY <1>3, <1>4

(* A step that leaves the request alone, and the counter of its strategy   *)
(* unless somebody else draws.                                             *)
LEMMA OtherSweep ==
  ASSUME SweepInv, ChoiceInv, ServerTypeOK, Watch, NEW r \in Requests,
         call'[r] = call[r], loop'[r] = loop[r], tried'[r] = tried[r],
         using'[r] = using[r], name'[using[r]] = name[using[r]],
         alone'[r] => alone[r] /\ counter'[using[r]] = counter[using[r]],
         RoundRobin(r)', alone'[r]
  PROVE  SweepOK(call'[r], loop'[r], Pointed(r)', tried'[r], stayed'[r])
<1> DEFINE c == call[r]
           n == Pointed(r)
<1>0. Pointed(r)' = n
  BY DEF Pointed
<1>1. SweepOK(c, loop[r], n, tried[r], stayed[r])
  BY DEF SweepInv, RoundRobin
<1>2. c.attempt \in Nat /\ loop[r].attempt \in Nat
  BY DEF ServerTypeOK, Calls, ChoiceInv, ChoiceTypeOK
<1>3. CASE At(r, "idle")
  BY <1>0, <1>3 DEF At, SweepOK
<1>4. CASE ~At(r, "idle")
  <2>1. stayed'[r] \subseteq stayed[r]
    BY <1>4 DEF Watch
  <2>2. ASSUME NEW from \in Nat, NEW to \in Nat, Swept(n, tried[r], stayed[r], from, to)
        PROVE  Swept(n, tried[r], stayed'[r], from, to)
    BY <2>1, <2>2, SweptLess
  <2>3. /\ c.attempt + loop[r].attempt \in Nat /\ c.attempt + 1 \in Nat
        /\ c.attempt + loop[r].attempt + 1 \in Nat
    BY <1>2
  <2>4. SweepOK(c, loop[r], n, tried[r], stayed'[r])
    BY <1>1, <2>1, <2>2, <2>3 DEF SweepOK
  <2> QED
    BY <1>0, <2>4
<1> QED
  BY <1>3, <1>4

LEMMA SweepStep ==
  ASSUME PoolTypeOK, ServerTypeOK, LoopInv, ChoiceInv, SweepInv,
         [BalancerNext]_balancerVars
  PROVE  SweepInv'
<1>0. ProxyTypeOK /\ current \in Nat /\ \A r \in Requests : using[r] \in Nat
  BY MaxSetsAssumption DEF PoolTypeOK, ChoiceInv, ChoiceTypeOK, Instances
<1>1. ASSUME NEW q \in Requests, RequestMoves(q) PROVE SweepInv'
  <2>1. current' = current /\ name' = name /\ Watch
    BY <1>1 DEF RequestMoves, BalancerStep, Ask, Draw, Skip, Serve, Fail, Pick, controllerVars
  <2>2. ASSUME NEW r \in Requests PROVE using'[r] <= current'
    <3>1. using' = using \/ using' = [using EXCEPT ![q] = IF At(q, "idle") THEN current ELSE @]
      BY <1>1 DEF RequestMoves, BalancerStep, Ask, Using, Draw, Skip, Serve, Fail, Pick,
                  choiceVars
    <3>2. using'[r] = using[r] \/ using'[r] = current
      BY <3>1 DEF ChoiceInv, ChoiceTypeOK
    <3> QED
      BY <1>0, <2>1, <3>2 DEF SweepInv
  <2>3. ASSUME NEW r \in Requests, r # q
        PROVE  /\ call'[r] = call[r] /\ loop'[r] = loop[r] /\ tried'[r] = tried[r]
               /\ using'[r] = using[r]
               /\ alone'[r] => alone[r] /\ counter'[using[r]] = counter[using[r]]
    <3>1. CASE Draw(q)
      BY <2>3, <3>1 DEF Draw, vars, serverVars, ChoiceInv, ChoiceTypeOK
    <3>2. CASE Skip(q)
      BY <2>3, <3>2 DEF Skip, vars, serverVars, ChoiceInv, ChoiceTypeOK
    <3>3. CASE BalancerStep(q)
      <4>1. ServerStep(q)
        BY <3>3 DEF BalancerStep, Ask, Serve, Fail, Pick, ServerStep, NextBackend, Decide
      <4>2. call'[r] = call[r]
        BY <1>0, <2>3, <4>1, CallFrame DEF ServerTypeOK
      <4> QED
        BY <2>3, <3>3, <4>2 DEF BalancerStep, Ask, Using, Serve, Fail, Pick, choiceVars,
                                ChoiceInv, ChoiceTypeOK
    <3> QED
      BY <1>1, <3>1, <3>2, <3>3 DEF RequestMoves
  <2>4. ASSUME NEW r \in Requests, RoundRobin(r)', alone'[r]
        PROVE  SweepOK(call'[r], loop'[r], Pointed(r)', tried'[r], stayed'[r])
    <3>1. CASE r = q
      BY <1>0, <1>1, <2>4, <3>1, OwnSweep
    <3>2. CASE r # q
      BY <2>1, <2>3, <2>4, <3>2, OtherSweep
    <3> QED
      BY <3>1, <3>2
  <2> QED
    BY <2>2, <2>4 DEF SweepInv
<1>2. CASE Aside(CheckerStep) \/ Aside(ClockStep) \/ Aside(OutsideStep)
  <2>1. Watch /\ UNCHANGED <<call, controllerVars, choiceVars, tried, alone>>
    BY <1>2 DEF Aside, serverVars
  <2>2. ASSUME NEW r \in Requests, RoundRobin(r)', alone'[r]
        PROVE  SweepOK(call'[r], loop'[r], Pointed(r)', tried'[r], stayed'[r])
    BY <2>1, <2>2, OtherSweep DEF controllerVars, choiceVars
  <2> QED
    BY <2>1, <2>2 DEF SweepInv, controllerVars, choiceVars
<1>3. CASE handleStrategy /\ Watch
  <2>1. PICK strategy \in Names : Set(strategy)
    BY <1>3 DEF handleStrategy
  <2>2. /\ current' = current + 1 /\ name' = [name EXCEPT ![current'] = strategy]
        /\ UNCHANGED <<call, loop, using, counter, tried, alone>>
    BY <2>1 DEF Set, vars, serverVars, choiceVars
  <2>3. ASSUME NEW r \in Requests
        PROVE  using'[r] <= current' /\ name'[using[r]] = name[using[r]]
    <3>1. using[r] <= current /\ using[r] \in Instances
      BY DEF SweepInv, ChoiceInv, ChoiceTypeOK
    <3> QED
      BY <1>0, <2>2, <3>1 DEF ChoiceInv, ChoiceTypeOK
  <2>4. ASSUME NEW r \in Requests, RoundRobin(r)', alone'[r]
        PROVE  SweepOK(call'[r], loop'[r], Pointed(r)', tried'[r], stayed'[r])
    BY <1>3, <2>2, <2>3, <2>4, OtherSweep
  <2> QED
    BY <2>3, <2>4 DEF SweepInv
<1>4. CASE UNCHANGED balancerVars
  BY <1>4 DEF balancerVars, vars, serverVars, controllerVars, choiceVars, history, SweepInv,
              RoundRobin, Pointed
<1> QED
  BY <1>1, <1>2, <1>3, <1>4 DEF BalancerNext

LEMMA SweepInit == BalancerInit => SweepInv
BY DEF BalancerInit, Init, ServerInit, Fresh, SweepInv, SweepOK

(* A request alone with its round robin, whose counter does not wrap, is   *)
(* sent to every backend that stayed available before the client is told   *)
(* that none served it, for any number of backends up to that of attempts, *)
(* whatever the other requests and the dashboard do (ServeHTTP,            *)
(* NextBackend, Current).                                                  *)
THEOREM RetriesTheorem == BalancerSpec => []RetriesReachAll
<1>1. BalancerSpec => [](PoolTypeOK /\ ServerTypeOK /\ LoopInv)
  BY BalancerImplementsServer, LoopTheorem, PTL
<1>2. BalancerSpec => []ChoiceInv
  BY ChoiceInit, ChoiceStep, PTL DEF BalancerSpec
<1>3. PoolTypeOK /\ ServerTypeOK /\ LoopInv /\ ChoiceInv /\ SweepInv
        /\ [BalancerNext]_balancerVars => SweepInv'
  BY SweepStep
<1>4. SweepInv => RetriesReachAll
  BY DEF SweepInv, SweepOK, RetriesReachAll, At
<1> QED
  BY <1>1, <1>2, <1>3, <1>4, SweepInit, PTL DEF BalancerSpec
============================================================================
