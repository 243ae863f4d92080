---------------------------- MODULE LeastMetric ----------------------------
(***************************************************************************)
(* strategy/least_connections.go and strategy/latency.go: NextBackend goes *)
(* over the backends once and keeps the one with the least metric, active  *)
(* connections for the one and average latency for the other.  The two     *)
(* functions are the same but for the metric.                              *)
(*                                                                         *)
(* A backend is asked whether it may be tried in one critical section and  *)
(* for its metric in another, and all of them are asked at different       *)
(* times, while requests, health checks and the clock go on.  Calls share  *)
(* nothing, so one is enough: other calls are part of what goes on.        *)
(***************************************************************************)
EXTENDS Integers

CONSTANTS
  NumBackends,   \* len(backends); NewServer refuses an empty slice
  Values         \* the values of the metric

ASSUME NumBackendsAssumption == NumBackends \in Nat \ {0}
ASSUME ValuesAssumption == Values \subseteq Nat /\ 0 \in Values

Backends == 0 .. (NumBackends - 1)
None == -1

VARIABLES
  available,   \* the backends that pass CheckCircuitState
  metric,      \* metric[b]: ActiveConnections or AvgLatency, at first 0
  at,          \* where the call is
  pos,         \* the backend it is looking at, in the order of the slice
  selected,    \* the best backend so far, and in the end the result
  best,        \* minConnections, bestLatency: its metric when it was read
  steady,      \* the backends available throughout the call (history)
  low,         \* low[b]: the least metric of b during the call (history)
  high         \* high[b]: the greatest (history)

scanVars == <<at, pos, selected, best>>
outside == <<available, metric>>
history == <<steady, low, high>>
vars == <<scanVars, outside, history>>

Init ==
  /\ available \in SUBSET Backends
  /\ metric = [b \in Backends |-> 0]
  /\ at = "idle"
  /\ pos = 0
  /\ selected = None
  /\ best = 0
  /\ steady = {}
  /\ low = metric
  /\ high = metric

----------------------------------------------------------------------------
(* What the others do.                                                     *)

LesserOf(m, n) == IF m < n THEN m ELSE n
GreaterOf(m, n) == IF m < n THEN n ELSE m

Turn(b) ==
  /\ available' = IF b \in available THEN available \ {b} ELSE available \cup {b}
  /\ steady' = steady \cap available'
  /\ UNCHANGED <<scanVars, metric, low, high>>

Report(b, value) ==
  /\ metric' = [metric EXCEPT ![b] = value]
  /\ low'  = [low EXCEPT ![b] = LesserOf(@, value)]
  /\ high' = [high EXCEPT ![b] = GreaterOf(@, value)]
  /\ UNCHANGED <<scanVars, available, steady>>

----------------------------------------------------------------------------
Call ==
  /\ at = "idle"
  /\ at' = "look"
  /\ pos' = 0
  /\ selected' = None
  /\ best' = 0
  /\ steady' = available
  /\ low' = metric
  /\ high' = metric
  /\ UNCHANGED outside

(* if !b.CheckCircuitState() { continue }                                  *)
Skip ==
  /\ at = "look" /\ pos < NumBackends
  /\ pos \notin available
  /\ pos' = pos + 1
  /\ UNCHANGED <<at, selected, best, outside, history>>

Look ==
  /\ at = "look" /\ pos < NumBackends
  /\ pos \in available
  /\ at' = "read"
  /\ UNCHANGED <<pos, selected, best, outside, history>>

(* Mutant: the first available backend is not taken as it is.              *)
Better_NoFirst(value) == value < best

(* The first available backend, or one better than the best so far.        *)
Better(value) == selected = None \/ value < best

(* Mutant: the best metric is not kept.                                    *)
Read_ForgetsBest ==
  /\ at = "read"
  /\ at' = "look"
  /\ pos' = pos + 1
  /\ IF Better(metric[pos]) THEN selected' = pos ELSE UNCHANGED selected
  /\ UNCHANGED <<best, outside, history>>

Read ==
  /\ at = "read"
  /\ at' = "look"
  /\ pos' = pos + 1
  /\ IF Better(metric[pos])
       THEN selected' = pos /\ best' = metric[pos]
       ELSE UNCHANGED <<selected, best>>
  /\ UNCHANGED <<outside, history>>

Return ==
  /\ at = "look" /\ pos = NumBackends
  /\ at' = "returned"
  /\ UNCHANGED <<pos, selected, best, outside, history>>

Leave ==
  /\ at = "returned"
  /\ at' = "idle"
  /\ UNCHANGED <<pos, selected, best, outside, history>>

NextBackend == Call \/ Skip \/ Look \/ Read \/ Return \/ Leave

Next ==
  \/ NextBackend
  \/ \E b \in Backends : Turn(b)
  \/ \E b \in Backends, value \in Values : Report(b, value)

Spec == Init /\ [][Next]_vars

----------------------------------------------------------------------------
TypeOK ==
  /\ available \in SUBSET Backends
  /\ metric \in [Backends -> Values]
  /\ at \in {"idle", "look", "read", "returned"}
  /\ pos \in 0 .. NumBackends
  /\ at = "read" => pos < NumBackends
  /\ selected \in Backends \cup {None}
  /\ best \in Values
  /\ steady \in SUBSET Backends
  /\ low \in [Backends -> Values]
  /\ high \in [Backends -> Values]

(* nil is returned only if no backend stayed available during the call     *)
(* (every backend is looked at, and the first that is available is taken). *)
ScanFinds == at = "returned" /\ selected = None => steady = {}

(* The choice is as good as readings taken at different times allow: the   *)
(* selected backend, at its best during the call, was no worse than any    *)
(* backend that stayed available was at its worst.  If nothing changed     *)
(* during the call, it has the least metric ("Routes to backend with       *)
(* fewest active connections", README.md:132).                             *)
LeastSeen ==
  at = "returned" /\ selected # None =>
    \A b \in steady : low[selected] <= high[b]
=============================================================================
