------------------------------ MODULE Balancer -----------------------------
(***************************************************************************)
(* The server with its strategies: module Server, which takes any backend  *)
(* at any time, together with StrategyController                           *)
(* (server/strategy_controller.go) and the round robin of                  *)
(* strategy/round_robin.go.                                                *)
(*                                                                         *)
(* Each Set makes a strategy of its own, and a request keeps the one that  *)
(* was current at its start over its retries.  The other strategies may    *)
(* take any backend or none here.                                          *)
(***************************************************************************)
EXTENDS Server

CONSTANTS
  Names,        \* the strategies that may be set
  CounterSize,  \* rr.counter wraps at this (2^64 in the code)
  MaxSets       \* bound: changes of the strategy

ASSUME NamesAssumption == "round_robin" \in Names
ASSUME CounterAssumption == CounterSize \in Nat \ {0}
ASSUME MaxSetsAssumption == MaxSets \in Nat

Instances == 0 .. MaxSets

VARIABLES
  current,    \* the instance the controller hands out
  name,       \* name[i]: the strategy that instance i is of, or will be
  counter,    \* counter[i]: rr.counter of instance i
  using,      \* using[r]: the instance that r got
  loop,       \* loop[r]: the variables of NextBackend
  stayed,     \* stayed[r]: available throughout r so far (history)
  tried,      \* tried[r]: what NextBackend returned to r (history)
  alone       \* alone[r]: nobody else drew from r's instance, and its
              \* counter did not wrap (history)

controllerVars == <<current, name>>
choiceVars == <<counter, using, loop>>
history == <<stayed, tried, alone>>
balancerVars == <<vars, controllerVars, choiceVars, history>>

(* Mutant: a backend must be alive, its circuit not open.                  *)
Available_Alive == {b \in Backends : IsAlive(b)}

Available == {b \in Backends : CheckCircuitState(b)}

Entered == [attempt |-> 0, idx |-> NumBackends]

BalancerInit ==
  /\ Init
  /\ current = 0
  /\ \E strategy \in Names : name = [i \in Instances |-> strategy]
  /\ counter = [i \in Instances |-> 0]
  /\ using = [r \in Requests |-> 0]
  /\ loop = [r \in Requests |-> Entered]
  /\ stayed = [r \in Requests |-> {}]
  /\ tried = [r \in Requests |-> {}]
  /\ alone = [r \in Requests |-> TRUE]

RoundRobin(r) == name[using[r]] = "round_robin"

----------------------------------------------------------------------------
(* StrategyController.Set makes a strategy of its own.                     *)
Set(strategy) ==
  /\ current < MaxSets
  /\ current' = current + 1
  /\ name' = [name EXCEPT ![current'] = strategy]
  /\ UNCHANGED <<vars, choiceVars, alone, tried>>

(* The dashboard's form.  A name that is missing or not known changes      *)
(* nothing.                                                                *)
handleStrategy == \E strategy \in Names : Set(strategy)

(* Mutant: the current strategy is asked for at every attempt.             *)
Using_Current(r) == using' = [using EXCEPT ![r] = current]

(* strat := s.StrategyController.Current(), once for all attempts.         *)
Using(r) ==
  using' = [using EXCEPT ![r] = IF At(r, "idle") THEN current ELSE @]

(* NextBackend is called, by a request that begins or retries.             *)
Ask(r) ==
  /\ Begin(r) \/ Retry(r)
  /\ Using(r)
  /\ loop' = [loop EXCEPT ![r] = Entered]
  /\ tried' = [tried EXCEPT ![r] = IF At(r, "idle") THEN {} ELSE @]
  /\ alone' = [alone EXCEPT ![r] = IF At(r, "idle") THEN TRUE ELSE @]
  /\ UNCHANGED <<controllerVars, counter>>

(* idx := atomic.AddUint64(&rr.counter, 1) % uint64(n)                     *)
Draw(r) ==
  LET i == using[r] IN
  /\ At(r, "choose") /\ RoundRobin(r)
  /\ loop[r].idx = NumBackends /\ loop[r].attempt < NumBackends
  /\ counter' = [counter EXCEPT ![i] = (@ + 1) % CounterSize]
  /\ loop' = [loop EXCEPT ![r].idx = counter'[i] % NumBackends]
  /\ alone' = [q \in Requests |->
       alone[q] /\ IF q = r THEN counter'[i] # 0 ELSE using[q] # i]
  /\ UNCHANGED <<vars, controllerVars, using, tried>>

(* if b.CheckCircuitState() fails: the next attempt of the loop.           *)
Skip(r) ==
  /\ At(r, "choose")
  /\ loop[r].idx \in Backends \ Available
  /\ loop' = [loop EXCEPT ![r] = [attempt |-> @.attempt + 1, idx |-> NumBackends]]
  /\ UNCHANGED <<vars, controllerVars, counter, using, tried, alone>>

(* NextBackend returns a backend, and a Proxy is made for it.              *)
Pick(r, b) ==
  /\ RoundRobin(r) => b = loop[r].idx /\ b \in Available
  /\ Choose(r, b)
  /\ tried' = [tried EXCEPT ![r] = @ \cup {b}]
  /\ UNCHANGED <<controllerVars, choiceVars, alone>>

(* NextBackend returns nil.                                                *)
Fail(r) ==
  /\ RoundRobin(r) => loop[r].attempt = NumBackends
  /\ NoBackend(r)
  /\ UNCHANGED <<controllerVars, choiceVars, tried, alone>>

Serve(r) ==
  /\ Attempt(r) \/ SendResponse(r) \/ GiveUp(r) \/ Unwind(r) \/ Leave(r)
  /\ UNCHANGED <<controllerVars, choiceVars, tried, alone>>

BalancerStep(r) ==
  \/ Ask(r) \/ Serve(r) \/ Fail(r) \/ \E b \in Backends : Pick(r, b)

(* What becomes of the backends that stayed available is told by the step, *)
(* whichever it is.                                                        *)
Watch ==
  stayed' = [r \in Requests |->
    IF At(r, "idle") THEN Available' ELSE stayed[r] \cap Available']

RequestMoves(r) ==
  /\ \/ BalancerStep(r) /\ UNCHANGED <<healthVars, up>>
     \/ Draw(r)
     \/ Skip(r)
  /\ Watch

(* A step of the checker, the clock or the world outside.                  *)
Aside(Step) ==
  /\ Step
  /\ UNCHANGED <<serverVars, controllerVars, choiceVars, tried, alone>>
  /\ Watch

BalancerNext ==
  \/ \E r \in Requests : RequestMoves(r)
  \/ Aside(CheckerStep)
  \/ Aside(ClockStep)
  \/ Aside(OutsideStep)
  \/ handleStrategy /\ Watch

BalancerSpec == BalancerInit /\ [][BalancerNext]_balancerVars

(* Goroutines are scheduled and clocks advance; clients keep sending       *)
(* requests.  A round trip and a copy end if the backend is up and the     *)
(* client plain: the server of main sets no timeouts, and those of the     *)
(* transport do not cover bodies.  That the requests reach every backend   *)
(* is left to round robin.                                                 *)
BalancerFairness ==
  /\ WF_balancerVars(Aside(CheckerStep))
  /\ WF_balancerVars(Aside(ClockStep))
  /\ \A r \in Requests :
       WF_balancerVars(/\ RequestMoves(r)
                       /\ Outside(r) => PlainClients /\ up[on[r]])

FairBalancerSpec == BalancerSpec /\ BalancerFairness

----------------------------------------------------------------------------
ChoiceTypeOK ==
  /\ current \in Instances
  /\ name \in [Instances -> Names]
  /\ counter \in [Instances -> 0 .. (CounterSize - 1)]
  /\ using \in [Requests -> Instances]
  /\ loop \in [Requests -> [attempt : 0 .. NumBackends, idx : 0 .. NumBackends]]
  /\ stayed \in [Requests -> SUBSET Backends]
  /\ tried \in [Requests -> SUBSET Backends]
  /\ alone \in [Requests -> BOOLEAN]

BalancerTypeOK == TypeOK /\ ChoiceTypeOK

(* A request that may be retried gives up only after it was sent to every  *)
(* backend that stayed available: the attempts of one request take the     *)
(* backends in turn, whatever the dashboard makes of the strategy in the   *)
(* meantime, if nobody else draws, the counter does not wrap, and there    *)
(* are as many attempts as backends (ServeHTTP, NextBackend, Current).     *)
RetriesReachAll ==
  \A r \in Requests :
    At(r, "done") /\ call[r].retryable /\ call[r].status = "retryable"
      /\ RoundRobin(r) /\ alone[r] /\ NumBackends <= MaxRetries + 1
        => stayed[r] \subseteq tried[r]

(* Once the backends behave for good and round robin is in use, all of     *)
(* them come back into rotation, where clients are plain: an open circuit  *)
(* needs a request for its trial, and the counter brings it one, through   *)
(* skipped backends, retries, rejected trials and wraps (NextBackend,      *)
(* ServeHTTP, the cycle of backend.go).                                    *)
RotationRestored ==
  PlainClients /\ (\A b \in Backends : <>[]up[b]) /\ <>[](name[current] = "round_robin") =>
    \A b \in Backends : <>[](circuit[b] = "Closed" /\ alive[b])
=============================================================================
