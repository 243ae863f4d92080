----------------------------- MODULE MCBalancer ----------------------------
(* Model values for the runs of module Balancer.                           *)
EXTENDS Balancer

CONSTANTS r1, r2

OneRequest == {r1}
FirstBackend == {0}
ZeroSample == {0}
SomeNames == {"round_robin", "latency"}
=============================================================================
