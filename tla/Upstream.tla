------------------------------ MODULE Upstream -----------------------------
(***************************************************************************)
(* The servers behind the balancer, and the clients in front of it, as far *)
(* as the balancer can tell.  They are not part of the program.            *)
(*                                                                         *)
(* A server that is up answers every probe and every request.  One that is *)
(* not may do anything to each: answer, fail, answer probes and drop       *)
(* requests, or (as the demo backend does once its health is toggled) fail *)
(* probes and answer requests.  An answer is one of any status: 503 from a *)
(* server that is up is an answer like another.                            *)
(*                                                                         *)
(* A plain client sends its body and reads its answer without stopping,    *)
(* stays within the limits on its body, sends none with a request that may *)
(* be repeated (the second attempt would find it consumed), and does not   *)
(* ask to switch protocols.                                                *)
(***************************************************************************)
EXTENDS Backend

CONSTANTS
  Faulty,         \* the backends that may ever misbehave
  PlainClients    \* are all clients plain?

ASSUME FaultyAssumption == Faulty \subseteq Backends
ASSUME PlainClientsAssumption == PlainClients \in BOOLEAN

VARIABLE up       \* up[b]: b behaves

UpstreamInit == up = [b \in Backends |-> TRUE]

Break(b)  == b \in Faulty /\ up[b] /\ up' = [up EXCEPT ![b] = FALSE]
Repair(b) == ~up[b] /\ up' = [up EXCEPT ![b] = TRUE]

MayFail(b) == ~up[b]

UpstreamTypeOK ==
  /\ up \in [Backends -> BOOLEAN]
  /\ \A b \in Backends \ Faulty : up[b]
=============================================================================
