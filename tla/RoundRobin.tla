----------------------------- MODULE RoundRobin ----------------------------
(***************************************************************************)
(* strategy/round_robin.go: NextBackend, called by many requests at once.  *)
(* The only state is a counter shared by all calls.  A call draws a number *)
(* with an atomic add, asks the backend it points at whether it may be     *)
(* tried, and draws again if not, as often as there are backends.          *)
(*                                                                         *)
(* Whether a backend may be tried is Backend!CheckCircuitState; here it    *)
(* changes at any time, as requests, health checks and the clock of module *)
(* BackendPool make it.                                                    *)
(***************************************************************************)
EXTENDS Integers, FiniteSets

CONSTANTS
  NumBackends,   \* len(backends); NewServer refuses an empty slice
  Callers,       \* requests that may choose at the same time
  CounterSize,   \* the counter wraps at this (2^64 in the code)
  MaxDraws       \* bound: numbers drawn

ASSUME NumBackendsAssumption == NumBackends \in Nat \ {0}
ASSUME CallersAssumption == IsFiniteSet(Callers)
ASSUME CounterAssumption == CounterSize \in Nat \ {0}

Backends == 0 .. (NumBackends - 1)
None == -1

VARIABLES
  drawn,       \* numbers drawn so far; rr.counter is this, wrapped
  available,   \* the backends that pass CheckCircuitState
  call,        \* call[c]: where caller c is, what it drew and returned
  steady,      \* steady[c]: available throughout c's call so far (history)
  alone,       \* alone[c]: c has drawn with nobody in between (history)
  picked,      \* picked[b]: how often b was returned (history)
  always       \* the backends that never were unavailable (history)

history == <<steady, alone, picked, always>>
vars == <<drawn, available, call, history>>

NotCalled == [at |-> "idle", attempt |-> 0, idx |-> 0, result |-> None]

Init ==
  /\ drawn = 0
  /\ available \in SUBSET Backends
  /\ call = [c \in Callers |-> NotCalled]
  /\ steady = [c \in Callers |-> {}]
  /\ alone = [c \in Callers |-> TRUE]
  /\ picked = [b \in Backends |-> 0]
  /\ always = available

At(c, place) == call[c].at = place

----------------------------------------------------------------------------
Call(c) ==
  /\ At(c, "idle")
  /\ call' = [call EXCEPT ![c].at = "draw"]
  /\ steady' = [steady EXCEPT ![c] = available]
  /\ alone' = [alone EXCEPT ![c] = TRUE]
  /\ UNCHANGED <<drawn, available, picked, always>>

(* Mutants: one attempt too many; one number for a call, and its attempts  *)
(* count on from there.                                                    *)
Draw_OneTooMany(c) ==
  /\ At(c, "draw")
  /\ call[c].attempt <= NumBackends
  /\ drawn < MaxDraws
  /\ drawn' = drawn + 1
  /\ call' = [call EXCEPT ![c].at  = "check",
                          ![c].idx = (drawn' % CounterSize) % NumBackends]
  /\ alone' = [d \in Callers |-> alone[d] /\ (d = c \/ At(d, "idle"))]
  /\ UNCHANGED <<available, steady, picked, always>>

Draw_Once(c) ==
  /\ At(c, "draw")
  /\ call[c].attempt < NumBackends
  /\ drawn < MaxDraws
  /\ IF call[c].attempt = 0
       THEN /\ drawn' = drawn + 1
            /\ call' = [call EXCEPT ![c].at  = "check",
                          ![c].idx = (drawn' % CounterSize) % NumBackends]
       ELSE /\ UNCHANGED drawn
            /\ call' = [call EXCEPT ![c].at  = "check",
                                    ![c].idx = (@ + 1) % NumBackends]
  /\ alone' = [d \in Callers |-> alone[d] /\ (d = c \/ At(d, "idle"))]
  /\ UNCHANGED <<available, steady, picked, always>>

(* idx := atomic.AddUint64(&rr.counter, 1) % uint64(n)                     *)
Draw(c) ==
  /\ At(c, "draw")
  /\ call[c].attempt < NumBackends
  /\ drawn < MaxDraws
  /\ drawn' = drawn + 1
  /\ call' = [call EXCEPT ![c].at  = "check",
                          ![c].idx = (drawn' % CounterSize) % NumBackends]
  /\ alone' = [d \in Callers |-> alone[d] /\ (d = c \/ At(d, "idle"))]
  /\ UNCHANGED <<available, steady, picked, always>>

Pick(c) ==
  /\ At(c, "check")
  /\ call[c].idx \in available
  /\ call' = [call EXCEPT ![c].at = "returned", ![c].result = call[c].idx]
  /\ picked' = [picked EXCEPT ![call[c].idx] = @ + 1]
  /\ UNCHANGED <<drawn, available, steady, alone, always>>

Skip(c) ==
  /\ At(c, "check")
  /\ call[c].idx \notin available
  /\ call' = [call EXCEPT ![c].at = "draw", ![c].attempt = @ + 1]
  /\ UNCHANGED <<drawn, available, history>>

(* Mutant: one attempt too few.                                            *)
Fail_Early(c) ==
  /\ At(c, "draw")
  /\ call[c].attempt = NumBackends - 1
  /\ call' = [call EXCEPT ![c].at = "returned"]
  /\ UNCHANGED <<drawn, available, history>>

(* All attempts were in vain: return nil.                                  *)
Fail(c) ==
  /\ At(c, "draw")
  /\ call[c].attempt = NumBackends
  /\ call' = [call EXCEPT ![c].at = "returned"]
  /\ UNCHANGED <<drawn, available, history>>

Leave(c) ==
  /\ At(c, "returned")
  /\ call' = [call EXCEPT ![c] = NotCalled]
  /\ UNCHANGED <<drawn, available, history>>

(* A backend stops passing CheckCircuitState, or passes it again.          *)
Turn(b) ==
  /\ available' = IF b \in available THEN available \ {b} ELSE available \cup {b}
  /\ steady' = [c \in Callers |-> steady[c] \cap available']
  /\ always' = always \cap available'
  /\ UNCHANGED <<drawn, call, alone, picked>>

NextBackend(c) ==
  Call(c) \/ Draw(c) \/ Pick(c) \/ Skip(c) \/ Fail(c) \/ Leave(c)

Next == (\E c \in Callers : NextBackend(c)) \/ (\E b \in Backends : Turn(b))

Spec == Init /\ [][Next]_vars

----------------------------------------------------------------------------
TypeOK ==
  /\ drawn \in Nat
  /\ available \subseteq Backends
  /\ call \in [Callers -> [at : {"idle", "draw", "check", "returned"},
                           attempt : 0 .. NumBackends,
                           idx : Backends,
                           result : Backends \cup {None}]]
  /\ steady \in [Callers -> SUBSET Backends]
  /\ alone \in [Callers -> BOOLEAN]
  /\ picked \in [Backends -> Nat]
  /\ always \in SUBSET available

(* A call returns nil only if no backend stayed available ("find next      *)
(* healthy round robin server", round_robin.go:25), as long as its numbers *)
(* are consecutive: no other call draws from the counter in between, and   *)
(* the counter does not wrap.  Otherwise it may be dealt the number of an  *)
(* unavailable backend every time.                                         *)
InOneLap == (drawn - NumBackends + 1) \div CounterSize = drawn \div CounterSize

SoleFinds ==
  \A c \in Callers :
    At(c, "returned") /\ call[c].result = None /\ alone[c] /\ InOneLap
      => steady[c] = {}

Pending(b) == Cardinality({c \in Callers : At(c, "check") /\ call[c].idx = b})

(* Backends that never go away get the same number of requests, to within  *)
(* one ("Every server gets the same number of requests over time",         *)
(* round_robin.go:8), whatever the others do: a skipped backend uses up    *)
(* its turn and does not push it on its neighbour.  The wrap of the        *)
(* counter may cost one more each time it happens.                         *)
FairShare ==
  \A a, b \in always :
    picked[a] + Pending(a)
      <= picked[b] + Pending(b) + 1 + drawn \div CounterSize
=============================================================================
