--------------------------- MODULE HealthChecker ---------------------------
(***************************************************************************)
(* The health checker (backend/health.go): one goroutine that, at every    *)
(* tick of its ticker, probes the backends one after the other.  After the *)
(* answer to a probe it updates the backend in two critical sections, the  *)
(* verdict first and the circuit breaker second, and anything may run      *)
(* between the two.                                                        *)
(***************************************************************************)
EXTENDS Upstream

VARIABLES
  hcPc,   \* where the goroutine is
  hcAt,   \* the backend being checked
  hcOk    \* did it pass its probe?

healthVars == <<hcPc, hcAt, hcOk>>

HealthInit == hcPc = "wait" /\ hcAt = 0 /\ hcOk = FALSE

(* Start: the ticker fires and checkAll begins.                            *)
HealthTick ==
  /\ hcPc = "wait"
  /\ hcPc' = "probe"
  /\ UNCHANGED <<hcAt, hcOk>>
  /\ UNCHANGED backendVars

(* checkOne: GET /healthz.  An answer below 500 passes; an error, a        *)
(* timeout or an answer from 500 on does not.                              *)
Probe(ok) ==
  /\ hcPc = "probe"
  /\ ok \/ MayFail(hcAt)
  /\ hcOk' = ok
  /\ hcPc' = "verdict"
  /\ UNCHANGED hcAt
  /\ UNCHANGED backendVars

Verdict ==
  /\ hcPc = "verdict"
  /\ SetAlive(hcAt, hcOk)
  /\ hcPc' = "record"
  /\ UNCHANGED <<hcAt, hcOk>>

(* Mutant: checkAll goes one past the last backend.                        *)
Record_OneTooMany ==
  /\ hcPc = "record"
  /\ IF hcOk THEN RecordSuccess(hcAt) ELSE RecordFailure(hcAt)
  /\ IF hcAt + 1 <= NumBackends
       THEN hcAt' = hcAt + 1 /\ hcPc' = "probe"
       ELSE hcAt' = 0 /\ hcPc' = "wait"
  /\ hcOk' = FALSE

(* The end of checkOne, and checkAll's move to the next backend.           *)
Record ==
  /\ hcPc = "record"
  /\ IF hcOk THEN RecordSuccess(hcAt) ELSE RecordFailure(hcAt)
  /\ IF hcAt + 1 < NumBackends
       THEN hcAt' = hcAt + 1 /\ hcPc' = "probe"
       ELSE hcAt' = 0 /\ hcPc' = "wait"
  /\ hcOk' = FALSE

HealthStep == HealthTick \/ (\E ok \in BOOLEAN : Probe(ok)) \/ Verdict \/ Record

HealthTypeOK ==
  /\ hcPc \in {"wait", "probe", "verdict", "record"}
  /\ hcAt \in Backends
  /\ hcOk \in BOOLEAN
=============================================================================
