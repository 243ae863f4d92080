---------------------------- MODULE TimedHealth ----------------------------
(***************************************************************************)
(* The health checker against the clock: how long after a backend falls    *)
(* ill or recovers the balancer knows, and what that does to a cooldown.   *)
(*                                                                         *)
(* One step of Pass is one tick of time.  The goroutines take no time of   *)
(* their own: a step of the checker that can be taken is taken before time *)
(* passes.  A probe takes up to ProbeTimeout; the backend looks at its     *)
(* flag at some moment in between, so the answer may be old when it comes. *)
(***************************************************************************)
EXTENDS DemoBackend, FiniteSetsExt

CONSTANTS
  Interval,      \* of the health checker's ticker (2 seconds)
  ProbeTimeout,  \* of its client (1 second)
  Slow           \* backends that may not answer a probe in time

ASSUME IntervalAssumption == Interval \in Nat \ {0}
ASSUME ProbeTimeoutAssumption == ProbeTimeout \in Nat \ {0}
ASSUME SlowAssumption == Slow \subseteq Backends

VARIABLES
  phase,     \* time since the last tick of the ticker
  ticked,    \* does the ticker's channel, of capacity 1, hold a tick?
  elapsed,   \* time since the probe was sent
  trial,     \* trial[b]: how far a request on its way to b has come with
             \* a trial of an open circuit
  since      \* since[b]: time since up[b] changed, up to Long (history)

timeVars == <<phase, ticked, elapsed, since>>
vars == <<backendVars, healthVars, demoVars, timeVars, trial>>

(* The longest way from a look at the flag of b to the verdict of the next *)
(* round: to the next round, which starts with the ticker or as soon as    *)
(* this one is over, and over the backends before b.                       *)
Reaction(b) == Max({Interval, NumBackends * ProbeTimeout}) + (b + 1) * ProbeTimeout

(* From then on a backend that is well can be tried again: a check that    *)
(* still saw it ill may fail up to ProbeTimeout later.                     *)
Rotation(b) == Max({Reaction(b) + 1, ProbeTimeout + OpenStateTimeout})

Long == Rotation(NumBackends - 1)

Init ==
  /\ BackendInit /\ HealthInit /\ DemoInit
  /\ phase = 0 /\ ticked = FALSE /\ elapsed = 0
  /\ trial = [b \in Backends |-> "none"]
  /\ since = [b \in Backends |-> 0]

----------------------------------------------------------------------------
(* The checker.                                                            *)

Checker(A) == A /\ UNCHANGED <<demoVars, phase, since, trial>>

StartRound == ticked /\ HealthTick /\ ticked' = FALSE /\ elapsed' = 0

(* Mutant: any answer will do.                                             *)
Look_Trusts ==
  /\ hcPc = "probe"
  /\ hcPc' = "answer"
  /\ hcOk' = TRUE
  /\ UNCHANGED <<hcAt, backendVars, ticked, elapsed>>

(* handleHealthz loads the flag: 200 or 503.                               *)
Look ==
  /\ hcPc = "probe"
  /\ hcPc' = "answer"
  /\ hcOk' = up[hcAt]
  /\ UNCHANGED <<hcAt, backendVars, ticked, elapsed>>

Arrive ==
  /\ hcPc = "answer"
  /\ hcPc' = "verdict"
  /\ UNCHANGED <<hcAt, hcOk, backendVars, ticked, elapsed>>

TimeOut ==
  /\ hcPc \in {"probe", "answer"} /\ elapsed = ProbeTimeout
  /\ hcAt \in Slow
  /\ hcPc' = "verdict"
  /\ hcOk' = FALSE
  /\ UNCHANGED <<hcAt, backendVars, ticked, elapsed>>

Report ==
  /\ Verdict \/ Record
  /\ elapsed' = IF hcPc = "record" THEN 0 ELSE elapsed
  /\ UNCHANGED ticked

CheckerStep == Checker(StartRound \/ Look \/ Arrive \/ TimeOut \/ Report)

----------------------------------------------------------------------------
(* The requests under way, of which module Proxy has every step; here they *)
(* are any number.  The demo backend answers them whatever its flag, and a *)
(* failure is the backend's or the client's.                               *)
Outcome(b) ==
  /\ RecordSuccess(b) \/ ((b \in Slow \/ ~PlainClients) /\ RecordFailure(b))
  /\ UNCHANGED trial

(* Two reads, and then the write, however late: one request may wait at    *)
(* each place while others come and go.                                    *)
TrialStep(b) ==
  \/ /\ trial[b] = "none" /\ circuit[b] = "Open"
     /\ trial' = [trial EXCEPT ![b] = "open"]
     /\ UNCHANGED backendVars
  \/ /\ trial[b] = "open" /\ CooldownOver(b)
     /\ trial' = [trial EXCEPT ![b] = "due"]
     /\ UNCHANGED backendVars
  \/ /\ trial[b] = "due" /\ SetCircuitHalfOpen(b)
     /\ UNCHANGED trial

Traffic ==
  /\ \E b \in Backends : Outcome(b) \/ TrialStep(b)
  /\ UNCHANGED <<healthVars, demoVars, timeVars>>

Toggle ==
  /\ DemoStep
  /\ since' = [b \in Backends |-> IF up'[b] = up[b] THEN since[b] ELSE 0]
  /\ UNCHANGED <<backendVars, healthVars, phase, ticked, elapsed, trial>>

Busy ==
  \/ hcPc = "wait" /\ ticked
  \/ hcPc \in {"verdict", "record"}
  \/ hcPc \in {"probe", "answer"} /\ elapsed = ProbeTimeout

Pass ==
  /\ ~Busy
  /\ Tick
  /\ phase' = (phase + 1) % Interval
  /\ ticked' = (ticked \/ phase' = 0)
  /\ elapsed' = IF hcPc \in {"probe", "answer"} THEN elapsed + 1 ELSE elapsed
  /\ since' = [b \in Backends |-> UpTo(Long, since[b] + 1)]
  /\ UNCHANGED <<healthVars, demoVars, trial>>

Next == CheckerStep \/ Traffic \/ Toggle \/ Pass

Spec == Init /\ [][Next]_vars

----------------------------------------------------------------------------
TypeOK ==
  /\ BackendTypeOK /\ DemoTypeOK
  /\ hcPc \in {"wait", "probe", "answer", "verdict", "record"}
  /\ hcAt \in Backends /\ hcOk \in BOOLEAN
  /\ phase \in 0 .. (Interval - 1) /\ ticked \in BOOLEAN
  /\ elapsed \in 0 .. ProbeTimeout
  /\ trial \in [Backends -> {"none", "open", "due"}]
  /\ since \in [Backends -> 0 .. Long]

(* The verdict follows the backend within one round and a probe of it ("the *)
(* backend will show as unhealthy after the next health check",            *)
(* structure.md:94): the check that is next may have asked already.        *)
ShownInTime ==
  \A b \in Backends :
    since[b] > Reaction(b) =>
      /\ ~up[b] => ~alive[b]
      /\ up[b] /\ b \notin Slow => alive[b]

(* While a backend stays ill its failed checks renew the cooldown before   *)
(* it is over, so an open circuit lets nothing through -- as long as a     *)
(* round of all backends fits into the cooldown (checkOne, RecordFailure). *)
QuietWhileDown ==
  \A b \in Backends :
    OpenStateTimeout > Reaction(b) /\ since[b] > Reaction(b) /\ ~up[b]
      /\ circuit[b] = "Open" => ~CheckCircuitState(b)

(* A backend that recovers may be tried again after the cooldown and the   *)
(* probe that failed last, or the round that notices: whichever is later   *)
(* ("it will re-enter rotation after ~10 seconds (circuit breaker          *)
(* cooldown)", structure.md:96) -- unless clients go away meanwhile, whose *)
(* failures handleError puts down to the backend, so that they renew the   *)
(* cooldown.                                                               *)
BackInTime ==
  PlainClients =>
    \A b \in Backends \ Slow :
      up[b] /\ since[b] >= Rotation(b) => CheckCircuitState(b)
=============================================================================
