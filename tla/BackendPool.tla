---------------------------- MODULE BackendPool ----------------------------
(***************************************************************************)
(* The backends with everything that touches them at the same time: the    *)
(* request goroutines (module Proxy), the health checker (module           *)
(* HealthChecker), the clock, and the servers and clients outside (module  *)
(* Upstream).                                                              *)
(*                                                                         *)
(* Any request may come with any backend: a strategy offers one that       *)
(* passed CheckCircuitState some time ago (or, with a stale hash ring,     *)
(* one that did not), and it is the gate of ServeHTTP that decides.        *)
(***************************************************************************)
EXTENDS HealthChecker, Proxy

poolVars == <<backendVars, healthVars, proxyVars, up>>

PoolInit == BackendInit /\ HealthInit /\ ProxyInit /\ UpstreamInit

RequestStep ==
  /\ \E r \in Requests : ProxyStep(r)
  /\ UNCHANGED <<healthVars, up>>

CheckerStep == HealthStep /\ UNCHANGED <<proxyVars, up>>

ClockStep == Tick /\ UNCHANGED <<healthVars, proxyVars, up>>

OutsideStep ==
  /\ \E b \in Backends : Break(b) \/ Repair(b)
  /\ UNCHANGED <<backendVars, healthVars, proxyVars>>

PoolNext == RequestStep \/ CheckerStep \/ ClockStep \/ OutsideStep

PoolSpec == PoolInit /\ [][PoolNext]_poolVars

----------------------------------------------------------------------------
(* Fairness.  Goroutines are scheduled and clocks advance, and a probe     *)
(* ends, for the checker's client has a timeout.  Nothing bounds the       *)
(* writing of a request's body nor the copy of an answer's, so a round     *)
(* trip and a copy are sure to end only if the client is plain and the     *)
(* backend is up.  Clients keep sending to every backend.                  *)

Quietly(A) == A /\ UNCHANGED <<healthVars, up>>

PoolFairness ==
  /\ WF_poolVars(CheckerStep)
  /\ WF_poolVars(ClockStep)
  /\ \A r \in Requests :
       /\ WF_poolVars(Quietly(Local(r)))
       /\ WF_poolVars(Quietly(PlainClients /\ up[on[r]] /\ (Outcome(r) \/ CopyBody(r))))
       /\ WF_poolVars(Quietly(Finish(r)))
  /\ \A b \in Backends : SF_poolVars(Quietly(\E r \in Requests : Start(r, b)))

FairPoolSpec == PoolSpec /\ PoolFairness

----------------------------------------------------------------------------
PoolTypeOK == BackendTypeOK /\ HealthTypeOK /\ ProxyTypeOK /\ UpstreamTypeOK

(* ActiveConnections counts the requests between IncConnections and        *)
(* DecConnections, plus those whose handler panicked in between and never  *)
(* gave theirs back; so the guard of DecConnections never hides a miscount.*)
ConnectionsAccounted ==
  \A b \in Backends :
    activeConnections[b] = Cardinality(Held(b)) + leaked[b]

(* A backend that always answers stays in rotation whatever the others do, *)
(* as long as clients wait for their answers: no interleaving of gate,     *)
(* trial and report on other backends removes it.                          *)
BlamelessKept ==
  PlainClients =>
    \A b \in Backends \ Faulty : CheckCircuitState(b) /\ circuit[b] = "Closed"

(* Only a passed health check brings a backend back to life: the answer to *)
(* a request never overrides a failed check (the note in RecordSuccess).   *)
OnlyChecksRevive ==
  [][\A b \in Backends :
       ~alive[b] /\ alive'[b] =>
         hcPc = "verdict" /\ hcAt = b /\ hcOk]_poolVars

(* A backend that behaves from some time on is back for good, where clients *)
(* are plain: its circuit closes and its checks pass (backend.go, the       *)
(* cycle Open, HalfOpen, Closed), even though a trial started from stale    *)
(* reads may come late.                                                     *)
Recovery ==
  PlainClients =>
    \A b \in Backends :
      <>[]up[b] => <>[](circuit[b] = "Closed" /\ alive[b])
=============================================================================
