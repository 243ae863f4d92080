------------------------------- MODULE Proxy -------------------------------
(***************************************************************************)
(* proxy/reverse_proxy.go: Proxy.ServeHTTP, run by one goroutine for each  *)
(* request, on the backend the strategy chose.  Each call of a method of   *)
(* *Backend is a step of its own, since b.mu is released between them: the *)
(* gate, the two reads that decide on a trial and the write that starts it *)
(* interleave with other requests and with the health checker.             *)
(*                                                                         *)
(* NewProxy stores the two handlers in the ReverseProxy that all requests  *)
(* to b share, without a lock.  Whichever of the racing stores a request   *)
(* reads, the handler it finds belongs to a Proxy whose backend is b and   *)
(* does the same thing, so the race leaves no trace in the model.          *)
(***************************************************************************)
EXTENDS Upstream, FiniteSets

CONSTANTS
  Requests,   \* the requests that may be in progress at the same time
  MaxLeaks    \* bound: handlers that panic, for each backend

ASSUME RequestsAssumption == IsFiniteSet(Requests)
ASSUME MaxLeaksAssumption == MaxLeaks \in Nat

VARIABLES
  pc,        \* pc[r]: where ServeHTTP is, "idle" before and after it
  on,        \* on[r]: the backend that serves r
  leaked     \* leaked[b]: handlers that panicked on b (history)

proxyVars == <<pc, on, leaked>>

Goto(r, from, to) == pc[r] = from /\ pc' = [pc EXCEPT ![r] = to]

ProxyInit ==
  /\ pc = [r \in Requests |-> "idle"]
  /\ on = [r \in Requests |-> 0]
  /\ leaked = [b \in Backends |-> 0]

----------------------------------------------------------------------------
(* NewProxy(b) and the call of its ServeHTTP.                              *)
Start(r, b) ==
  /\ Goto(r, "idle", "gate")
  /\ on' = [on EXCEPT ![r] = b]
  /\ UNCHANGED leaked
  /\ UNCHANGED backendVars

(* Mutant: DecConnections is deferred before the gate.                     *)
Reject_Releases(r) ==
  /\ Goto(r, "gate", "release")
  /\ ~CheckCircuitState(on[r])
  /\ UNCHANGED <<on, leaked>>
  /\ UNCHANGED backendVars

(* The circuit breaker gate: 503 when the backend may not be tried.        *)
Reject(r) ==
  /\ Goto(r, "gate", "returned")
  /\ ~CheckCircuitState(on[r])
  /\ UNCHANGED <<on, leaked>>
  /\ UNCHANGED backendVars

Admit(r) ==
  /\ Goto(r, "gate", "state")
  /\ CheckCircuitState(on[r])
  /\ UNCHANGED <<on, leaked>>
  /\ UNCHANGED backendVars

(* Mutant: the test for an open circuit is forgotten.                      *)
ReadState_Always(r) ==
  /\ Goto(r, "state", "cooldown")
  /\ UNCHANGED <<on, leaked>>
  /\ UNCHANGED backendVars

(* GetCircuitState() == CircuitOpen && CanAttemptHalfOpen(), two reads.    *)
ReadState(r) ==
  /\ Goto(r, "state", IF circuit[on[r]] = "Open" THEN "cooldown" ELSE "track")
  /\ UNCHANGED <<on, leaked>>
  /\ UNCHANGED backendVars

ReadCooldown(r) ==
  /\ Goto(r, "cooldown",
          IF CanAttemptHalfOpen(on[r]) THEN "trial" ELSE "track")
  /\ UNCHANGED <<on, leaked>>
  /\ UNCHANGED backendVars

StartTrial(r) ==
  /\ Goto(r, "trial", "track")
  /\ SetCircuitHalfOpen(on[r])
  /\ UNCHANGED <<on, leaked>>

Track(r) ==
  /\ Goto(r, "track", "prepare")
  /\ IncConnections(on[r])
  /\ UNCHANGED <<on, leaked>>

(* prepareRequest writes on the request only: see module Server.           *)
Prepare(r) ==
  /\ Goto(r, "prepare", "upstream")
  /\ UNCHANGED <<on, leaked>>
  /\ UNCHANGED backendVars

(* ReverseProxy calls ModifyResponse, here handleSuccess, for an answer of *)
(* any status, and then copies the body.                                   *)
HandleSuccess(r) ==
  /\ Goto(r, "upstream", "copy")
  /\ RecordSuccess(on[r])
  /\ UNCHANGED <<on, leaked>>

(* ReverseProxy calls ErrorHandler, here handleError, when the round trip  *)
(* fails: the backend cannot be reached or is late, or the client has gone *)
(* and its context is cancelled, or its body is over the limit.            *)
HandleError(r) ==
  /\ Goto(r, "upstream", "latency")
  /\ RecordFailure(on[r])
  /\ UNCHANGED <<on, leaked>>

UpstreamError(r) == MayFail(on[r]) /\ HandleError(r)
ClientError(r)   == ~PlainClients /\ HandleError(r)

CopyBody(r) ==
  /\ Goto(r, "copy", "latency")
  /\ UNCHANGED <<on, leaked>>
  /\ UNCHANGED backendVars

(* The answer is 101 Switching Protocols.  ReverseProxy wants to hijack    *)
(* the connection, the recorder of a retryable request does not let it,    *)
(* and ErrorHandler follows ModifyResponse: a success, then a failure.     *)
UpgradeRefused(r) ==
  /\ ~PlainClients
  /\ Goto(r, "copy", "latency")
  /\ RecordFailure(on[r])
  /\ UNCHANGED <<on, leaked>>

(* When the copy fails half-way ReverseProxy panics with ErrAbortHandler:  *)
(* the backend or the client breaks off, or (module Server) the answer     *)
(* does not fit the length an earlier attempt declared.  Nothing in        *)
(* ServeHTTP is deferred: the panic unwinds it, and its caller, past       *)
(* RecordLatency and DecConnections.                                       *)
AbortCopy(r) ==
  /\ Goto(r, "copy", "aborted")
  /\ leaked[on[r]] < MaxLeaks
  /\ leaked' = [leaked EXCEPT ![on[r]] = @ + 1]
  /\ UNCHANGED on
  /\ UNCHANGED backendVars

Measure(r) ==
  /\ Goto(r, "latency", "release")
  /\ \E sample \in Samples : RecordLatency(on[r], sample)
  /\ UNCHANGED <<on, leaked>>

Release(r) ==
  /\ Goto(r, "release", "returned")
  /\ DecConnections(on[r])
  /\ UNCHANGED <<on, leaked>>

(* The caller is done with r; its slot serves another request.             *)
Finish(r) ==
  /\ pc[r] \in {"returned", "aborted"}
  /\ pc' = [pc EXCEPT ![r] = "idle"]
  /\ on' = [on EXCEPT ![r] = 0]
  /\ UNCHANGED leaked
  /\ UNCHANGED backendVars

----------------------------------------------------------------------------
(* Every step of ServeHTTP itself, in the order of the code.               *)
Gate(r)      == Reject(r) \/ Admit(r)
TrialStep(r) == ReadState(r) \/ ReadCooldown(r) \/ StartTrial(r)
Outcome(r)   == HandleSuccess(r) \/ UpstreamError(r) \/ ClientError(r)
Copy(r)      == CopyBody(r) \/ UpgradeRefused(r) \/ AbortCopy(r)
Local(r)     == Gate(r) \/ TrialStep(r) \/ Track(r) \/ Prepare(r)
                 \/ Measure(r) \/ Release(r)

ProxyStep(r) ==
  \/ \E b \in Backends : Start(r, b)
  \/ Gate(r)
  \/ TrialStep(r)
  \/ Track(r)
  \/ Prepare(r)
  \/ Outcome(r)
  \/ Copy(r)
  \/ Measure(r)
  \/ Release(r)
  \/ Finish(r)

Holding == {"prepare", "upstream", "copy", "latency", "release"}

(* The requests between their IncConnections and their DecConnections.     *)
Held(b) == {r \in Requests : on[r] = b /\ pc[r] \in Holding}

ProxyTypeOK ==
  /\ pc \in [Requests -> Holding \cup {"idle", "gate", "state", "cooldown",
                "trial", "track", "returned", "aborted"}]
  /\ on \in [Requests -> Backends]
  /\ leaked \in [Backends -> 0 .. MaxLeaks]
=============================================================================
