------------------------- MODULE TimedHealthProofs -------------------------
(***************************************************************************)
(* Proofs about modules TimedHealth and DemoBackend, for any number of     *)
(* backends and toggles, any periods of the ticker, the probes and the     *)
(* cooldown, and whichever backends are slow or toggled.                   *)
(***************************************************************************)
EXTENDS TimedHealth, TLAPS

Round == Max({Interval, NumBackends * ProbeTimeout})

(* Time since the round began, at most.                                    *)
Spent == hcAt * ProbeTimeout + elapsed

(* Can t be the time since the check of b that was reported last?  A round *)
(* begins with a tick that is taken from the channel, so as long as the    *)
(* channel is empty no more than phase has passed since.                   *)
WithinAt(pc, at, spent, full, ph, b, t) ==
  IF pc # "wait" /\ at <= b
    THEN t <= Round + spent
    ELSE /\ t <= IF pc = "wait" THEN Round ELSE spent
         /\ ~full => t <= ph

Within(b, t) == WithinAt(hcPc, hcAt, Spent, ticked, phase, b, t)

(* The verdict is not what the flag says.  A slow backend may be found ill *)
(* at any time.                                                            *)
Wrong(b, verdict) == IF up[b] THEN ~verdict /\ b \notin Slow ELSE verdict

Placed ==
  /\ hcPc = "wait" => hcAt = 0
  /\ hcPc = "record" => alive[hcAt] = hcOk

(* An answer is no older than the probe.                                   *)
Answered ==
  hcPc \in {"answer", "verdict", "record"} /\ Wrong(hcAt, hcOk) =>
    since[hcAt] <= elapsed /\ (~ticked => since[hcAt] <= phase)

(* A verdict is wrong only until the next report; ...                      *)
Aware == \A b \in Backends : Wrong(b, alive[b]) => Within(b, since[b])

(* ... the last report found an ill backend ill, or is older than that; ...*)
Renewed ==
  \A b \in Backends :
    ~up[b] => Within(b, since[b]) \/ Within(b, sinceFailure[b])

(* ... and no failure is recorded of one that has been well for a probe,   *)
(* where none is the client's.                                             *)
Spared ==
  PlainClients =>
    \A b \in Backends \ Slow :
      up[b] => \/ sinceFailure[b] = OpenStateTimeout
               \/ since[b] <= sinceFailure[b] + ProbeTimeout

(* The presses that may be under way are those expected of the flag.       *)
Pressed ==
  \A b \in Backends :
    \/ expected[b] = BOOLEAN
    \/ Toggling(b) = {} /\ expected[b] = {up[b]}
    \/ \E c \in Togglers : Toggling(b) = {c} /\ expected[b] = {~toggler[c].current}

IInv == TypeOK /\ Placed /\ Answered /\ Aware /\ Renewed /\ Spared /\ Pressed

----------------------------------------------------------------------------
(* Periods.                                                                *)

(* More probes take longer.                                                *)
LEMMA ProductMonotone ==
  ASSUME NEW m \in Nat, NEW n \in Nat, NEW p \in Nat, m <= n
  PROVE  m * p <= n * p
<1>1. n - m \in Nat /\ (n - m) * p \in Nat
  OBVIOUS
<1>2. n * p = m * p + (n - m) * p
  OBVIOUS
<1> QED
  BY <1>1, <1>2

(* The backends before b take their probes' time.                          *)
LEMMA ProbeTimes ==
  ASSUME NEW a \in Backends
  PROVE  /\ a * ProbeTimeout \in Nat
         /\ (a + 1) * ProbeTimeout = a * ProbeTimeout + ProbeTimeout
         /\ (a + 1) * ProbeTimeout <= NumBackends * ProbeTimeout
         /\ \A b \in Backends : a <= b => a * ProbeTimeout <= b * ProbeTimeout
<1>1. a \in Nat /\ a + 1 \in Nat /\ a + 1 <= NumBackends /\ NumBackends \in Nat
  BY NumBackendsAssumption DEF Backends
<1>2. ProbeTimeout \in Nat
  BY ProbeTimeoutAssumption
<1>3. (a + 1) * ProbeTimeout = a * ProbeTimeout + ProbeTimeout
  BY <1>1, <1>2
<1>4. (a + 1) * ProbeTimeout <= NumBackends * ProbeTimeout
  BY <1>1, <1>2, ProductMonotone
<1>5. ASSUME NEW b \in Backends, a <= b
      PROVE  a * ProbeTimeout <= b * ProbeTimeout
  BY <1>1, <1>2, <1>5, ProductMonotone DEF Backends
<1> QED
  BY <1>1, <1>2, <1>3, <1>4, <1>5

(* Max of two numbers, and no more than they are.                          *)
LEMMA GreatestOfTwo ==
  ASSUME NEW m \in Nat, NEW n \in Nat
  PROVE  Max({m, n}) \in {m, n} /\ m <= Max({m, n}) /\ n <= Max({m, n})
<1>1. \E x \in {m, n} : \A y \in {m, n} : x >= y
  OBVIOUS
<1> QED
  BY <1>1 DEF Max

(* A round takes as long as the longer of the ticker's period and the      *)
(* probes.                                                                 *)
LEMMA RoundLength ==
  /\ Round \in Nat /\ Interval <= Round /\ NumBackends * ProbeTimeout <= Round
  /\ NumBackends * ProbeTimeout \in Nat
<1>1. Interval \in Nat /\ NumBackends * ProbeTimeout \in Nat
  BY IntervalAssumption, NumBackendsAssumption, ProbeTimeoutAssumption
<1> QED
  BY <1>1, GreatestOfTwo DEF Round

(* The bounds on reaction and rotation, as sums of the periods.            *)
LEMMA Bounds ==
  ASSUME NEW b \in Backends
  PROVE  /\ Reaction(b) = Round + (b + 1) * ProbeTimeout
         /\ Reaction(b) \in Nat /\ Rotation(b) \in Nat /\ Long \in Nat
         /\ Reaction(b) < Rotation(b) /\ ProbeTimeout + OpenStateTimeout <= Rotation(b)
<1>1. ASSUME NEW a \in Backends
      PROVE  /\ Reaction(a) = Round + (a + 1) * ProbeTimeout
             /\ Reaction(a) \in Nat /\ Rotation(a) \in Nat
             /\ Reaction(a) < Rotation(a) /\ ProbeTimeout + OpenStateTimeout <= Rotation(a)
  <2>1. Reaction(a) = Round + (a + 1) * ProbeTimeout
    BY DEF Reaction, Round
  <2>2. Reaction(a) \in Nat
    BY <2>1, RoundLength, ProbeTimes, ProbeTimeoutAssumption
  <2>3. Reaction(a) + 1 \in Nat /\ ProbeTimeout + OpenStateTimeout \in Nat
    BY <2>2, ProbeTimeoutAssumption, TimeoutAssumption
  <2> QED
    BY <2>1, <2>2, <2>3, GreatestOfTwo DEF Rotation
<1>2. NumBackends - 1 \in Backends
  BY NumBackendsAssumption DEF Backends
<1> QED
  BY <1>1, <1>2 DEF Long

(* Within is a bound on t, and never more than Reaction.                   *)
LEMMA WithinBound ==
  ASSUME TypeOK, NEW b \in Backends, NEW t \in Nat, Within(b, t)
  PROVE  /\ t <= Reaction(b)
         /\ \A s \in Nat : s <= t => Within(b, s)
<1>1. /\ hcAt \in Backends /\ elapsed \in Nat /\ elapsed <= ProbeTimeout /\ phase \in Nat
      /\ ProbeTimeout \in Nat
  BY IntervalAssumption, ProbeTimeoutAssumption DEF TypeOK
<1>2. Spent \in Nat /\ Spent <= (hcAt + 1) * ProbeTimeout
  BY <1>1, ProbeTimes DEF Spent
<1>3. Spent <= Round
  BY <1>1, <1>2, ProbeTimes, RoundLength
<1>4. hcAt <= b => Spent <= (b + 1) * ProbeTimeout
  BY <1>1, <1>2, ProbeTimes
<1>5. (b + 1) * ProbeTimeout \in Nat
  BY <1>1, ProbeTimes
<1>6. t <= Reaction(b)
  BY <1>2, <1>3, <1>4, <1>5, RoundLength, Bounds DEF Within, WithinAt
<1>7. ASSUME NEW s \in Nat, s <= t PROVE Within(b, s)
  BY <1>1, <1>2, <1>7, RoundLength DEF Within, WithinAt
<1> QED
  BY <1>6, <1>7

----------------------------------------------------------------------------
(* Types.                                                                  *)

(* Types of the methods the checker and the traffic call.                  *)
LEMMA MethodTypes ==
  ASSUME BackendTypeOK, NEW b \in Backends,
         \/ \E verdict \in BOOLEAN : SetAlive(b, verdict)
         \/ RecordSuccess(b) \/ RecordFailure(b) \/ SetCircuitHalfOpen(b)
  PROVE  BackendTypeOK'
<1>1. UpTo(MaxFailures, failureCount[b] + 1) \in 0 .. MaxFailures
  BY MaxFailuresAssumption DEF BackendTypeOK, UpTo
<1>2. 0 \in 0 .. MaxFailures /\ 0 \in 0 .. OpenStateTimeout
  BY MaxFailuresAssumption, TimeoutAssumption
<1> QED
  BY <1>1, <1>2 DEF SetAlive, RecordSuccess, RecordFailure, SetCircuitHalfOpen,
                    BackendTypeOK, CircuitState

(* Types of the toggles.                                                   *)
LEMMA DemoTypes ==
  ASSUME DemoTypeOK, DemoStep PROVE DemoTypeOK'
<1>1. ASSUME NEW c \in Togglers, StoreToggle(c) PROVE DemoTypeOK'
  <2>1. toggler[c].at \in Backends
    BY <1>1 DEF StoreToggle, DemoTypeOK
  <2> QED
    BY <1>1, <2>1 DEF StoreToggle, DemoTypeOK
<1>2. ASSUME NEW c \in Togglers, NEW b \in Backends, LoadToggle(c, b) PROVE DemoTypeOK'
  <2>1. up[b] \in BOOLEAN
    BY DEF DemoTypeOK
  <2>2. toggler' \in [Togglers -> [at : Backends, current : BOOLEAN] \cup {Idle}]
    BY <1>2, <2>1 DEF LoadToggle, DemoTypeOK
  <2>3. expected' \in [Backends -> SUBSET BOOLEAN]
    <3>1. (IF Toggling(b) = {} THEN {~up[b]} ELSE BOOLEAN) \in SUBSET BOOLEAN
      BY <2>1
    <3> QED
      BY <1>2, <3>1 DEF LoadToggle, DemoTypeOK
  <2> QED
    BY <1>2, <2>2, <2>3 DEF LoadToggle, DemoTypeOK
<1> QED
  BY <1>1, <1>2 DEF DemoStep

(* It holds at the start.                                                  *)
LEMMA InitIInv == Init => IInv
<1> SUFFICES ASSUME Init PROVE IInv
  OBVIOUS
<1> USE DEF Init, BackendInit, HealthInit, DemoInit
<1>1. TypeOK
  <2>1. BackendTypeOK
    BY MaxFailuresAssumption, TimeoutAssumption DEF BackendTypeOK, CircuitState
  <2>2. DemoTypeOK
    BY DEF DemoTypeOK
  <2>3. 0 \in Backends /\ 0 \in 0 .. (Interval - 1) /\ 0 \in 0 .. ProbeTimeout
    BY NumBackendsAssumption, IntervalAssumption, ProbeTimeoutAssumption DEF Backends
  <2>4. 0 \in 0 .. Long
    BY <2>3, Bounds
  <2> QED
    BY <2>1, <2>2, <2>3, <2>4 DEF TypeOK
<1>2. Placed /\ Answered /\ Spared
  BY DEF Placed, Answered, Spared
<1>3. Aware /\ Renewed
  BY DEF Aware, Renewed, Wrong
<1>4. Pressed
  <2>1. ASSUME NEW b \in Backends PROVE Toggling(b) = {}
    BY NumBackendsAssumption DEF Toggling, Idle, Backends
  <2> QED
    BY <2>1 DEF Pressed
<1> QED
  BY <1>1, <1>2, <1>3, <1>4 DEF IInv

----------------------------------------------------------------------------
(* The numbers of a state.                                                 *)
LEMMA Numbers ==
  ASSUME TypeOK
  PROVE  /\ hcAt \in Backends /\ hcAt \in Nat /\ NumBackends \in Nat
         /\ phase \in Nat /\ phase < Interval /\ Interval \in Nat
         /\ elapsed \in Nat /\ elapsed <= ProbeTimeout /\ ProbeTimeout \in Nat
         /\ OpenStateTimeout \in Nat
         /\ Spent \in Nat /\ elapsed <= Spent /\ Spent <= Round
         /\ Spent <= (hcAt + 1) * ProbeTimeout /\ Round \in Nat
         /\ \A b \in Backends :
              /\ b \in Nat
              /\ since[b] \in Nat /\ since[b] <= Long
              /\ sinceFailure[b] \in Nat /\ sinceFailure[b] <= OpenStateTimeout
<1>1. /\ hcAt \in Backends /\ hcAt \in Nat /\ NumBackends \in Nat
      /\ phase \in Nat /\ phase < Interval /\ Interval \in Nat
      /\ elapsed \in Nat /\ elapsed <= ProbeTimeout /\ ProbeTimeout \in Nat
      /\ OpenStateTimeout \in Nat
  BY NumBackendsAssumption, IntervalAssumption, ProbeTimeoutAssumption, TimeoutAssumption
     DEF TypeOK, Backends
<1>2. /\ Spent \in Nat /\ elapsed <= Spent /\ Spent <= (hcAt + 1) * ProbeTimeout
  BY <1>1, ProbeTimes DEF Spent
<1>3. Spent <= Round /\ Round \in Nat
  BY <1>1, <1>2, ProbeTimes, RoundLength
<1>4. ASSUME NEW b \in Backends
      PROVE  /\ b \in Nat
             /\ since[b] \in Nat /\ since[b] <= Long
             /\ sinceFailure[b] \in Nat /\ sinceFailure[b] <= OpenStateTimeout
  <2>1. Long \in Nat
    BY Bounds
  <2> QED
    BY <1>1, <2>1 DEF TypeOK, BackendTypeOK, Backends
<1> QED
  BY <1>1, <1>2, <1>3, <1>4

(* A step of the checker in which no report ends takes no time, and its    *)
(* bounds stay.                                                            *)
LEMMA LookStep ==
  ASSUME IInv, Checker(StartRound \/ Look \/ Arrive \/ TimeOut)
  PROVE  IInv'
<1> USE DEF IInv
<1>0. /\ UNCHANGED <<backendVars, demoVars, phase, since, trial, hcAt>>
      /\ hcPc' \in {"probe", "answer", "verdict"} /\ hcOk' \in BOOLEAN
      /\ \/ hcPc = "wait" /\ ticked /\ ticked' = FALSE /\ elapsed' = 0 /\ hcPc' = "probe"
         \/ hcPc \in {"probe", "answer"} /\ UNCHANGED <<ticked, elapsed>>
  BY DEF Checker, StartRound, HealthTick, Look, Arrive, TimeOut, TypeOK, DemoTypeOK
<1>1. TypeOK'
  <2>1. 0 \in 0 .. ProbeTimeout
    BY ProbeTimeoutAssumption
  <2>2. BackendTypeOK' /\ DemoTypeOK'
    BY <1>0 DEF TypeOK, BackendTypeOK, backendVars, DemoTypeOK, demoVars
  <2>3. /\ hcPc' \in {"wait", "probe", "answer", "verdict", "record"}
        /\ hcAt' \in Backends /\ hcOk' \in BOOLEAN
        /\ phase' \in 0 .. (Interval - 1) /\ ticked' \in BOOLEAN
        /\ elapsed' \in 0 .. ProbeTimeout /\ since' \in [Backends -> 0 .. Long]
        /\ trial' \in [Backends -> {"none", "open", "due"}]
    BY <1>0, <2>1 DEF TypeOK
  <2> QED
    BY <2>2, <2>3 DEF TypeOK
<1>2. \A b \in Backends, t \in Nat :
        Within(b, t) => WithinAt(hcPc', hcAt', Spent', ticked', phase', b, t)
  <2> SUFFICES ASSUME NEW b \in Backends, NEW t \in Nat, Within(b, t)
               PROVE  WithinAt(hcPc', hcAt', Spent', ticked', phase', b, t)
    OBVIOUS
  <2>1. CASE hcPc = "wait"
    <3>1. Spent' = 0 /\ hcAt' = 0 /\ b >= 0
      BY <1>0, <2>1, Numbers DEF Spent, Placed
    <3> QED
      BY <1>0, <2>1, <3>1, Numbers DEF Within, WithinAt
  <2>2. CASE hcPc # "wait"
    <3>1. Spent' = Spent
      BY <1>0, <2>2 DEF Spent
    <3> QED
      BY <1>0, <2>2, <3>1 DEF Within, WithinAt
  <2> QED
    BY <2>1, <2>2
<1>3. Placed' /\ Spared' /\ Pressed'
  BY <1>0 DEF Placed, Spared, Pressed, Toggling, backendVars, demoVars
<1>4. Answered'
  <2> SUFFICES ASSUME hcPc' \in {"answer", "verdict"}, Wrong(hcAt, hcOk)'
               PROVE  since[hcAt] <= elapsed /\ (~ticked => since[hcAt] <= phase)
    BY <1>0 DEF Answered
  <2>1. CASE Look
    BY <1>0, <2>1 DEF Look, Wrong, demoVars
  <2>2. CASE TimeOut
    BY <1>0, <2>2 DEF TimeOut, Wrong, demoVars
  <2>3. CASE Arrive
    BY <1>0, <2>3 DEF Arrive, Wrong, demoVars, Answered
  <2>4. CASE StartRound
    BY <1>0, <2>4 DEF StartRound, HealthTick
  <2> QED
    BY <2>1, <2>2, <2>3, <2>4 DEF Checker
<1>5. Aware'
  BY <1>0, <1>2, Numbers DEF Aware, Within, Wrong, backendVars, demoVars
<1>6. Renewed'
  BY <1>0, <1>2, Numbers DEF Renewed, Within, backendVars, demoVars
<1> QED
  BY <1>1, <1>3, <1>4, <1>5, <1>6

(* The verdict of the backend at hcAt: wrong only if the flag changed      *)
(* since the probe asked.                                                  *)
LEMMA VerdictStep ==
  ASSUME IInv, Checker(Verdict /\ elapsed' = elapsed /\ UNCHANGED ticked)
  PROVE  IInv'
<1> USE DEF IInv
<1>0. /\ hcPc = "verdict" /\ hcPc' = "record" /\ SetAlive(hcAt, hcOk)
      /\ UNCHANGED <<demoVars, phase, since, trial, hcAt, hcOk, elapsed, ticked>>
      /\ UNCHANGED sinceFailure
      /\ alive' = [alive EXCEPT ![hcAt] = hcOk]
  BY DEF Checker, Verdict, SetAlive
<1>1. TypeOK'
  <2>1. BackendTypeOK'
    BY <1>0, MethodTypes DEF TypeOK
  <2> QED
    BY <1>0, <2>1 DEF TypeOK, DemoTypeOK, demoVars
<1>2. Spent' = Spent /\ \A b, t :
        Within(b, t) => WithinAt(hcPc', hcAt', Spent', ticked', phase', b, t)
  BY <1>0 DEF Within, WithinAt, Spent
<1>3. Placed' /\ Answered' /\ Spared' /\ Pressed'
  BY <1>0 DEF Placed, Answered, Spared, Pressed, Wrong, Toggling, demoVars, TypeOK,
              BackendTypeOK
<1>4. Aware'
  <2> SUFFICES ASSUME NEW b \in Backends, Wrong(b, alive[b])'
               PROVE  WithinAt(hcPc', hcAt', Spent', ticked', phase', b, since[b])
    BY <1>0 DEF Aware, Within
  <2>1. CASE b = hcAt
    <3>1. Wrong(b, hcOk)
      BY <1>0, <2>1 DEF Wrong, demoVars, TypeOK, BackendTypeOK
    <3>2. since[b] <= elapsed
      BY <1>0, <2>1, <3>1 DEF Answered
    <3>3. since[b] <= Round + Spent
      BY <2>1, <3>2, Numbers
    <3> QED
      BY <1>0, <1>2, <2>1, <3>3, Numbers DEF WithinAt
  <2>2. CASE b # hcAt
    BY <1>0, <1>2, <2>2 DEF Aware, Wrong, demoVars, TypeOK, BackendTypeOK
  <2> QED
    BY <2>1, <2>2
<1>5. Renewed'
  BY <1>0, <1>2 DEF Renewed, Within, demoVars
<1> QED
  BY <1>1, <1>3, <1>4, <1>5

(* The report is made and the checker goes on to the next backend.         *)
LEMMA RecordStep ==
  ASSUME IInv, Checker(Record /\ elapsed' = 0 /\ UNCHANGED ticked)
  PROVE  IInv'
<1> USE DEF IInv
<1>0. /\ hcPc = "record" /\ hcOk' = FALSE /\ elapsed' = 0
      /\ UNCHANGED <<demoVars, phase, since, trial, ticked, alive>>
      /\ IF hcOk THEN RecordSuccess(hcAt) ELSE RecordFailure(hcAt)
      /\ sinceFailure' = IF hcOk THEN sinceFailure ELSE [sinceFailure EXCEPT ![hcAt] = 0]
      /\ \/ hcAt + 1 < NumBackends /\ hcAt' = hcAt + 1 /\ hcPc' = "probe"
         \/ ~(hcAt + 1 < NumBackends) /\ hcAt' = 0 /\ hcPc' = "wait"
  BY DEF Checker, Record, RecordSuccess, RecordFailure
<1>a. hcAt \in Backends /\ hcOk \in BOOLEAN /\ alive[hcAt] = hcOk
  BY <1>0 DEF TypeOK, Placed
<1>1. TypeOK'
  <2>1. BackendTypeOK'
    BY <1>0, <1>a, MethodTypes DEF TypeOK
  <2>2. hcAt' \in Backends /\ elapsed' \in 0 .. ProbeTimeout
    BY <1>0, <1>a, Numbers, NumBackendsAssumption DEF Backends
  <2> QED
    BY <1>0, <2>1, <2>2 DEF TypeOK, DemoTypeOK, demoVars
<1>2. hcPc' # "wait" => Spent' = (hcAt + 1) * ProbeTimeout
  BY <1>0, Numbers, ProbeTimes DEF Spent
<1>3. ASSUME NEW b \in Backends, NEW t \in Nat, b # hcAt, Within(b, t)
      PROVE  WithinAt(hcPc', hcAt', Spent', ticked', phase', b, t)
  <2>1. hcPc # "wait" /\ hcAt \in Nat /\ b \in Nat /\ b <= NumBackends - 1 /\ NumBackends \in Nat
    BY <1>0, Numbers DEF Backends
  <2>2. CASE b > hcAt
    <3>1. t <= Round + Spent
      BY <1>3, <2>1, <2>2 DEF Within, WithinAt
    <3>2. hcPc' = "probe" /\ hcAt' = hcAt + 1 /\ hcAt' <= b
      BY <1>0, <2>1, <2>2
    <3>3. t <= Round + Spent'
      BY <1>2, <3>1, <3>2, Numbers, ProbeTimes
    <3> QED
      BY <3>2, <3>3 DEF WithinAt
  <2>3. CASE b < hcAt
    <3>1. t <= Spent /\ (~ticked => t <= phase) /\ ~(hcAt <= b)
      BY <1>3, <2>1, <2>3 DEF Within, WithinAt
    <3>2. CASE hcPc' = "wait"
      BY <1>0, <3>1, <3>2, Numbers DEF WithinAt
    <3>3. CASE hcPc' = "probe"
      <4>1. hcAt' = hcAt + 1 /\ ~(hcAt' <= b) /\ t <= Spent'
        BY <1>0, <1>2, <2>1, <2>3, <3>1, <3>3, Numbers, ProbeTimes
      <4> QED
        BY <1>0, <3>1, <3>3, <4>1 DEF WithinAt
    <3> QED
      BY <1>0, <3>2, <3>3
  <2> QED
    BY <1>3, <2>1, <2>2, <2>3
<1>4. ASSUME NEW t \in Nat, t <= elapsed, ~ticked => t <= phase
      PROVE  WithinAt(hcPc', hcAt', Spent', ticked', phase', hcAt, t)
  <2>1. CASE hcPc' = "wait"
    BY <1>0, <1>4, <2>1, Numbers DEF WithinAt
  <2>2. CASE hcPc' = "probe"
    <3>1. hcAt' = hcAt + 1 /\ ~(hcAt' <= hcAt) /\ t <= Spent'
      BY <1>0, <1>2, <1>4, <2>2, Numbers, ProbeTimes
    <3> QED
      BY <1>0, <1>4, <2>2, <3>1 DEF WithinAt
  <2> QED
    BY <1>0, <2>1, <2>2
<1>5. Placed' /\ Answered'
  BY <1>0 DEF Placed, Answered
<1>6. Pressed'
  BY <1>0 DEF Pressed, Toggling, demoVars
<1>7. Aware'
  <2> SUFFICES ASSUME NEW b \in Backends, Wrong(b, alive[b])
               PROVE  WithinAt(hcPc', hcAt', Spent', ticked', phase', b, since[b])
    BY <1>0 DEF Aware, Within, Wrong, demoVars
  <2>1. CASE b = hcAt
    <3>1. since[b] <= elapsed /\ (~ticked => since[b] <= phase)
      BY <1>0, <1>a, <2>1 DEF Answered
    <3> QED
      BY <1>4, <2>1, <3>1, Numbers
  <2>2. CASE b # hcAt
    BY <1>3, <2>2, Numbers DEF Aware
  <2> QED
    BY <2>1, <2>2
<1>8. Renewed'
  <2> SUFFICES ASSUME NEW b \in Backends, ~up[b]
               PROVE  \/ WithinAt(hcPc', hcAt', Spent', ticked', phase', b, since[b])
                      \/ WithinAt(hcPc', hcAt', Spent', ticked', phase', b, sinceFailure'[b])
    BY <1>0 DEF Renewed, Within, demoVars
  <2>1. CASE b = hcAt /\ hcOk
    <3>1. since[b] <= elapsed /\ (~ticked => since[b] <= phase)
      BY <1>0, <1>a, <2>1 DEF Answered, Wrong
    <3> QED
      BY <1>4, <2>1, <3>1, Numbers
  <2>2. CASE b = hcAt /\ ~hcOk
    <3>1. sinceFailure'[b] = 0
      BY <1>0, <2>2 DEF TypeOK, BackendTypeOK
    <3> QED
      BY <1>4, <2>2, <3>1, Numbers
  <2>3. CASE b # hcAt
    <3>1. sinceFailure'[b] = sinceFailure[b]
      BY <1>0, <2>3 DEF TypeOK, BackendTypeOK
    <3> QED
      BY <1>3, <2>3, <3>1, Numbers DEF Renewed
  <2> QED
    BY <1>a, <2>1, <2>2, <2>3
<1>9. Spared'
  <2> SUFFICES ASSUME PlainClients, NEW b \in Backends \ Slow, up[b]
               PROVE  \/ sinceFailure'[b] = OpenStateTimeout
                      \/ since[b] <= sinceFailure'[b] + ProbeTimeout
    BY <1>0 DEF Spared, demoVars
  <2>1. CASE b = hcAt /\ ~hcOk
    <3>1. sinceFailure'[b] = 0
      BY <1>0, <2>1 DEF TypeOK, BackendTypeOK
    <3>2. since[b] <= elapsed
      BY <1>0, <2>1 DEF Answered, Wrong
    <3> QED
      BY <3>1, <3>2, Numbers
  <2>2. CASE ~(b = hcAt /\ ~hcOk)
    <3>1. sinceFailure'[b] = sinceFailure[b]
      BY <1>0, <2>2 DEF TypeOK, BackendTypeOK
    <3> QED
      BY <3>1 DEF Spared
  <2> QED
    BY <2>1, <2>2
<1> QED
  BY <1>1, <1>5, <1>6, <1>7, <1>8, <1>9

(* Requests record failures of slow backends only.                         *)
LEMMA TrafficStep ==
  ASSUME IInv, Traffic
  PROVE  IInv'
<1> USE DEF IInv
<1>1. PICK a \in Backends : Outcome(a) \/ TrialStep(a)
  BY DEF Traffic
<1>2. /\ UNCHANGED <<healthVars, demoVars, timeVars, alive>>
      /\ \/ sinceFailure' = sinceFailure
         \/ (PlainClients => a \in Slow) /\ sinceFailure' = [sinceFailure EXCEPT ![a] = 0]
  BY <1>1 DEF Traffic, Outcome, TrialStep, RecordSuccess, RecordFailure, SetCircuitHalfOpen,
              backendVars
<1>3. TypeOK'
  <2>1. BackendTypeOK'
    <3>1. CASE UNCHANGED backendVars
      BY <3>1 DEF TypeOK, BackendTypeOK, backendVars
    <3>2. CASE RecordSuccess(a) \/ RecordFailure(a) \/ SetCircuitHalfOpen(a)
      BY <3>2, MethodTypes DEF TypeOK
    <3> QED
      BY <1>1, <3>1, <3>2 DEF Outcome, TrialStep
  <2>2. trial' \in [Backends -> {"none", "open", "due"}]
    BY <1>1 DEF Outcome, TrialStep, TypeOK
  <2> QED
    BY <1>2, <2>1, <2>2 DEF TypeOK, DemoTypeOK, demoVars, healthVars, timeVars
<1>4. \A b, t : WithinAt(hcPc', hcAt', Spent', ticked', phase', b, t) = Within(b, t)
  BY <1>2 DEF Within, Spent, healthVars, timeVars
<1>5. Placed' /\ Answered' /\ Pressed'
  BY <1>2 DEF Placed, Answered, Pressed, Wrong, Toggling, demoVars, healthVars, timeVars
<1>6. Aware'
  BY <1>2, <1>4 DEF Aware, Within, Wrong, demoVars, timeVars
<1>7. Renewed'
  <2> SUFFICES ASSUME NEW b \in Backends, ~up[b]
               PROVE  Within(b, since[b]) \/ Within(b, sinceFailure'[b])
    BY <1>2, <1>4 DEF Renewed, Within, demoVars, timeVars
  <2>1. sinceFailure'[b] = sinceFailure[b] \/ sinceFailure'[b] = 0
    BY <1>2 DEF TypeOK, BackendTypeOK
  <2>2. \A t \in Nat : Within(b, t) => Within(b, 0)
    BY WithinBound
  <2> QED
    BY <2>1, <2>2, Numbers DEF Renewed
<1>8. Spared'
  BY <1>2 DEF Spared, demoVars, timeVars, TypeOK, BackendTypeOK
<1> QED
  BY <1>3, <1>5, <1>6, <1>7, <1>8

(* A press of the button: a flag that flips starts anew.                   *)
LEMMA ToggleStep ==
  ASSUME IInv, Toggle
  PROVE  IInv'
<1> USE DEF IInv
<1>0. /\ UNCHANGED <<backendVars, healthVars, phase, ticked, elapsed, trial>>
      /\ DemoStep
      /\ since' = [b \in Backends |-> IF up'[b] = up[b] THEN since[b] ELSE 0]
  BY DEF Toggle
<1>a. /\ up \in [Backends -> BOOLEAN] /\ up' \in [Backends -> BOOLEAN] /\ DemoTypeOK'
      /\ hcAt \in Backends /\ alive \in [Backends -> BOOLEAN] /\ hcOk \in BOOLEAN
  BY <1>0, DemoTypes DEF TypeOK, DemoTypeOK, BackendTypeOK
<1>b. ASSUME NEW b \in Backends
      PROVE  \/ up'[b] = up[b] /\ since'[b] = since[b]
             \/ up'[b] # up[b] /\ since'[b] = 0
  BY <1>0
<1>1. TypeOK'
  <2>1. BackendTypeOK'
    BY <1>0 DEF TypeOK, BackendTypeOK, backendVars
  <2>2. since' \in [Backends -> 0 .. Long]
    <3>1. ASSUME NEW b \in Backends
          PROVE  (IF up'[b] = up[b] THEN since[b] ELSE 0) \in 0 .. Long
      BY Numbers, Bounds DEF TypeOK
    <3> QED
      BY <1>0, <3>1
  <2> QED
    BY <1>0, <1>a, <2>1, <2>2 DEF TypeOK, healthVars
<1>2. \A b, t : WithinAt(hcPc', hcAt', Spent', ticked', phase', b, t) = Within(b, t)
  BY <1>0 DEF Within, Spent, healthVars
<1>3. ASSUME NEW b \in Backends PROVE Within(b, 0)
  BY Numbers, RoundLength DEF Within, WithinAt
<1>4. Placed'
  BY <1>0 DEF Placed, healthVars, backendVars
<1>5. Answered'
  <2> SUFFICES ASSUME hcPc \in {"answer", "verdict", "record"}, Wrong(hcAt, hcOk)'
               PROVE  since'[hcAt] <= elapsed /\ (~ticked => since'[hcAt] <= phase)
    BY <1>0 DEF Answered, healthVars
  <2>1. CASE up'[hcAt] = up[hcAt]
    BY <1>0, <1>a, <1>b, <2>1 DEF Answered, Wrong, healthVars
  <2>2. CASE up'[hcAt] # up[hcAt]
    BY <1>a, <1>b, <2>2, Numbers
  <2> QED
    BY <2>1, <2>2
<1>6. Aware'
  <2> SUFFICES ASSUME NEW b \in Backends, Wrong(b, alive[b])' PROVE Within(b, since'[b])
    BY <1>2 DEF Aware, Within
  <2>1. CASE up'[b] = up[b]
    BY <1>0, <1>b, <2>1 DEF Aware, Wrong, backendVars
  <2> QED
    BY <1>b, <1>3, <2>1
<1>7. Renewed'
  <2> SUFFICES ASSUME NEW b \in Backends, ~up'[b]
               PROVE  Within(b, since'[b]) \/ Within(b, sinceFailure[b])
    BY <1>0, <1>2 DEF Renewed, Within, backendVars
  <2>1. CASE up'[b] = up[b]
    BY <1>b, <2>1 DEF Renewed
  <2> QED
    BY <1>b, <1>3, <2>1
<1>8. Spared'
  <2> SUFFICES ASSUME PlainClients, NEW b \in Backends \ Slow, up'[b]
               PROVE  \/ sinceFailure[b] = OpenStateTimeout
                      \/ since'[b] <= sinceFailure[b] + ProbeTimeout
    BY <1>0 DEF Spared, backendVars
  <2>1. CASE up'[b] = up[b]
    BY <1>b, <2>1 DEF Spared
  <2>2. CASE since'[b] = 0
    <3>1. sinceFailure[b] \in Nat /\ ProbeTimeout \in Nat
      BY Numbers
    <3> QED
      BY <2>2, <3>1
  <2> QED
    BY <1>b, <2>1, <2>2
<1>9. Pressed'
  <2>0. /\ toggler \in [Togglers -> [at : Backends, current : BOOLEAN] \cup {Idle}]
        /\ expected \in [Backends -> SUBSET BOOLEAN]
    BY DEF TypeOK, DemoTypeOK
  <2>i. Idle.at \notin Backends
    BY NumBackendsAssumption DEF Idle, Backends
  <2>1. ASSUME NEW c \in Togglers, NEW a \in Backends, LoadToggle(c, a) PROVE Pressed'
    <3>1. /\ toggler[c] = Idle /\ up' = up
          /\ toggler' = [toggler EXCEPT ![c] = [at |-> a, current |-> up[a]]]
          /\ expected' = [expected EXCEPT ![a] = IF Toggling(a) = {} THEN {~up[a]} ELSE BOOLEAN]
      BY <2>1 DEF LoadToggle
    <3>2. toggler'[c].at = a /\ toggler'[c].current = up[a]
      BY <2>0, <3>1
    <3>3. \A d \in Togglers \ {c} : toggler'[d] = toggler[d]
      BY <2>0, <3>1
    <3>4. ASSUME NEW b \in Backends, b # a PROVE Toggling(b)' = Toggling(b)
      BY <2>i, <3>1, <3>2, <3>3, <3>4 DEF Toggling
    <3>5. Toggling(a)' = Toggling(a) \cup {c}
      BY <3>2, <3>3 DEF Toggling
    <3> SUFFICES ASSUME NEW b \in Backends
                 PROVE  \/ expected'[b] = BOOLEAN
                        \/ Toggling(b)' = {} /\ expected'[b] = {up'[b]}
                        \/ \E d \in Togglers : Toggling(b)' = {d} /\ expected'[b] = {~toggler'[d].current}
      BY DEF Pressed
    <3>6. CASE b # a
      <4>1. expected'[b] = expected[b]
        BY <2>0, <3>1, <3>6
      <4>2. \A d \in Togglers : Toggling(b) = {d} => d # c
        BY <2>i, <3>1 DEF Toggling
      <4> QED
        BY <3>1, <3>3, <3>4, <3>6, <4>1, <4>2 DEF Pressed
    <3>7. CASE b = a /\ Toggling(a) = {}
      <4>1. expected'[b] = {~up[a]} /\ Toggling(b)' = {c}
        BY <2>0, <3>1, <3>5, <3>7
      <4> QED
        BY <3>2, <4>1
    <3>8. CASE b = a /\ Toggling(a) # {}
      BY <2>0, <3>1, <3>8
    <3> QED
      BY <3>6, <3>7, <3>8
  <2>2. ASSUME NEW c \in Togglers, StoreToggle(c) PROVE Pressed'
    <3> DEFINE a == toggler[c].at
    <3>1. /\ toggler[c] # Idle /\ expected' = expected
          /\ up' = [up EXCEPT ![a] = ~toggler[c].current]
          /\ toggler' = [toggler EXCEPT ![c] = Idle]
      BY <2>2 DEF StoreToggle
    <3>2. a \in Backends /\ toggler'[c] = Idle
      BY <2>0, <3>1
    <3>3. \A d \in Togglers \ {c} : toggler'[d] = toggler[d]
      BY <2>0, <3>1
    <3>4. ASSUME NEW b \in Backends PROVE Toggling(b)' = Toggling(b) \ {c}
      BY <2>i, <3>2, <3>3 DEF Toggling
    <3>5. c \in Toggling(a) /\ \A b \in Backends : c \in Toggling(b) => b = a
      BY DEF Toggling
    <3> HIDE DEF a
    <3> SUFFICES ASSUME NEW b \in Backends
                 PROVE  \/ expected'[b] = BOOLEAN
                        \/ Toggling(b)' = {} /\ expected'[b] = {up'[b]}
                        \/ \E d \in Togglers : Toggling(b)' = {d} /\ expected'[b] = {~toggler'[d].current}
      BY DEF Pressed
    <3>6. CASE b # a
      <4>1. up'[b] = up[b] /\ Toggling(b)' = Toggling(b)
        BY <1>a, <3>1, <3>4, <3>5, <3>6
      <4>2. \A d \in Togglers : Toggling(b) = {d} => d # c
        BY <3>5, <3>6
      <4> QED
        BY <3>1, <3>3, <4>1, <4>2 DEF Pressed
    <3>7. CASE b = a
      <4>1. up'[b] = ~toggler[c].current
        BY <1>a, <3>1, <3>2, <3>7
      <4>2. CASE expected[b] = BOOLEAN
        BY <3>1, <4>2
      <4>3. ASSUME NEW d \in Togglers, Toggling(b) = {d}, expected[b] = {~toggler[d].current}
            PROVE  Toggling(b)' = {} /\ expected'[b] = {up'[b]}
        BY <3>1, <3>4, <3>5, <3>7, <4>1, <4>3
      <4> QED
        BY <3>5, <3>7, <4>2, <4>3 DEF Pressed
    <3> QED
      BY <3>6, <3>7
  <2> QED
    BY <1>0, <2>1, <2>2 DEF DemoStep
<1> QED
  BY <1>1, <1>4, <1>5, <1>6, <1>7, <1>8, <1>9

(* The clock.  The ticker's period begins anew with a tick in its channel. *)
LEMMA NextPhase ==
  ASSUME TypeOK, Pass
  PROVE  /\ phase' \in 0 .. (Interval - 1) /\ ticked' \in BOOLEAN
         /\ ~ticked' => ~ticked /\ phase' = phase + 1
         /\ ~ticked => phase + 1 <= Round
<1>1. phase' = IF phase + 1 < Interval THEN phase + 1 ELSE 0
  <2>1. phase + 1 < Interval => (phase + 1) % Interval = phase + 1
    BY Numbers
  <2>2. phase + 1 = Interval => (phase + 1) % Interval = 0
    BY Numbers
  <2> QED
    BY <2>1, <2>2, Numbers DEF Pass
<1>2. ticked' \in BOOLEAN /\ (~ticked' => ~ticked /\ phase' # 0)
  BY DEF Pass, TypeOK
<1> QED
  BY <1>1, <1>2, Numbers, RoundLength

(* Time passes, since nothing is due.                                      *)
LEMMA PassStep ==
  ASSUME IInv, Pass
  PROVE  IInv'
<1> USE DEF IInv
<1>0. /\ UNCHANGED <<healthVars, demoVars, trial, alive>>
      /\ ~Busy
      /\ elapsed' = IF hcPc \in {"probe", "answer"} THEN elapsed + 1 ELSE elapsed
      /\ since' = [b \in Backends |-> UpTo(Long, since[b] + 1)]
      /\ sinceFailure' = [b \in Backends |-> UpTo(OpenStateTimeout, sinceFailure[b] + 1)]
  BY DEF Pass, Tick
<1>a. \/ hcPc = "wait" /\ ~ticked /\ elapsed' = elapsed
      \/ hcPc \in {"probe", "answer"} /\ elapsed < ProbeTimeout /\ elapsed' = elapsed + 1
  BY <1>0, Numbers DEF Busy, TypeOK
<1>b. ASSUME NEW b \in Backends
      PROVE  /\ since'[b] \in 0 .. Long /\ since'[b] <= since[b] + 1
             /\ sinceFailure'[b] \in 0 .. OpenStateTimeout
             /\ sinceFailure'[b] <= sinceFailure[b] + 1
             /\ sinceFailure'[b] \in {OpenStateTimeout, sinceFailure[b] + 1}
  BY <1>0, Numbers, Bounds DEF UpTo
<1>1. TypeOK'
  <2>1. BackendTypeOK'
    <3>1. sinceFailure' \in [Backends -> 0 .. OpenStateTimeout]
      BY <1>0, <1>b
    <3> QED
      BY <3>1 DEF Pass, Tick, TypeOK, BackendTypeOK
  <2>2. since' \in [Backends -> 0 .. Long]
    BY <1>0, <1>b
  <2>3. elapsed' \in 0 .. ProbeTimeout
    BY <1>a, Numbers
  <2> QED
    BY <1>0, <2>1, <2>2, <2>3, NextPhase DEF TypeOK, DemoTypeOK, demoVars, healthVars
<1>2. Spent' = IF hcPc = "wait" THEN Spent ELSE Spent + 1
  BY <1>0, <1>a, Numbers, ProbeTimes DEF Spent, healthVars
<1>3. ASSUME NEW b \in Backends, NEW s \in Nat, NEW t \in Nat, s <= t + 1, Within(b, t)
      PROVE  WithinAt(hcPc', hcAt', Spent', ticked', phase', b, s)
  <2>1. hcPc' = hcPc /\ hcAt' = hcAt
    BY <1>0 DEF healthVars
  <2>2. CASE hcPc = "wait"
    <3>1. t <= phase /\ s <= Round /\ (~ticked' => s <= phase')
      BY <1>3, <1>a, <2>2, Numbers, NextPhase DEF Within, WithinAt
    <3> QED
      BY <2>1, <2>2, <3>1 DEF WithinAt
  <2>3. CASE hcPc # "wait" /\ hcAt <= b
    <3>1. t <= Round + Spent
      BY <1>3, <2>3 DEF Within, WithinAt
    <3>2. s <= Round + Spent'
      BY <1>2, <1>3, <2>3, <3>1, Numbers
    <3> QED
      BY <2>1, <2>3, <3>2 DEF WithinAt
  <2>4. CASE hcPc # "wait" /\ ~(hcAt <= b)
    <3>1. t <= Spent /\ (~ticked => t <= phase)
      BY <1>3, <2>4 DEF Within, WithinAt
    <3>2. s <= Spent' /\ (~ticked' => s <= phase')
      BY <1>2, <1>3, <2>4, <3>1, Numbers, NextPhase
    <3> QED
      BY <2>1, <2>4, <3>2 DEF WithinAt
  <2> QED
    BY <2>2, <2>3, <2>4
<1>4. Placed' /\ Pressed'
  BY <1>0 DEF Placed, Pressed, Toggling, demoVars, healthVars
<1>5. Answered'
  <2> SUFFICES ASSUME hcPc \in {"answer", "verdict", "record"}, Wrong(hcAt, hcOk)
               PROVE  since'[hcAt] <= elapsed' /\ (~ticked' => since'[hcAt] <= phase')
    BY <1>0 DEF Answered, Wrong, demoVars, healthVars
  <2>1. since[hcAt] <= elapsed /\ (~ticked => since[hcAt] <= phase) /\ elapsed' = elapsed + 1
    BY <1>a DEF Answered
  <2>2. since'[hcAt] <= since[hcAt] + 1 /\ since'[hcAt] \in Nat
    BY <1>b, Numbers, Bounds
  <2> QED
    BY <2>1, <2>2, Numbers, NextPhase
<1>6. Aware'
  <2> SUFFICES ASSUME NEW b \in Backends, Wrong(b, alive[b])
               PROVE  WithinAt(hcPc', hcAt', Spent', ticked', phase', b, since'[b])
    BY <1>0 DEF Aware, Within, Wrong, demoVars
  <2>1. since'[b] \in Nat /\ since'[b] <= since[b] + 1
    BY <1>b, Bounds
  <2> QED
    BY <1>3, <2>1, Numbers DEF Aware
<1>7. Renewed'
  <2> SUFFICES ASSUME NEW b \in Backends, ~up[b]
               PROVE  \/ WithinAt(hcPc', hcAt', Spent', ticked', phase', b, since'[b])
                      \/ WithinAt(hcPc', hcAt', Spent', ticked', phase', b, sinceFailure'[b])
    BY <1>0 DEF Renewed, Within, demoVars
  <2>1. /\ since'[b] \in Nat /\ since'[b] <= since[b] + 1
        /\ sinceFailure'[b] \in Nat /\ sinceFailure'[b] <= sinceFailure[b] + 1
    BY <1>b, Bounds, TimeoutAssumption
  <2> QED
    BY <1>3, <2>1, Numbers DEF Renewed
<1>8. Spared'
  <2> SUFFICES ASSUME PlainClients, NEW b \in Backends \ Slow, up[b]
               PROVE  \/ sinceFailure'[b] = OpenStateTimeout
                      \/ since'[b] <= sinceFailure'[b] + ProbeTimeout
    BY <1>0 DEF Spared, demoVars
  <2>1. CASE sinceFailure[b] = OpenStateTimeout
    BY <1>b, <2>1, Numbers
  <2>2. CASE since[b] <= sinceFailure[b] + ProbeTimeout
    <3>1. /\ since'[b] \in Nat /\ since'[b] <= since[b] + 1
          /\ sinceFailure'[b] \in {OpenStateTimeout, sinceFailure[b] + 1}
      BY <1>b, Bounds
    <3> QED
      BY <2>2, <3>1, Numbers
  <2> QED
    BY <2>1, <2>2 DEF Spared
<1> QED
  BY <1>1, <1>4, <1>5, <1>6, <1>7, <1>8

(* The inductive invariant holds of every behaviour of the model.          *)
THEOREM Inductive == Spec => []IInv
<1>1. IInv /\ [Next]_vars => IInv'
  <2> SUFFICES ASSUME IInv, [Next]_vars PROVE IInv'
    OBVIOUS
  <2>1. CASE CheckerStep
    <3>1. CASE Checker(Report)
      <4>1. \/ Checker(Verdict /\ elapsed' = elapsed /\ UNCHANGED ticked)
            \/ Checker(Record /\ elapsed' = 0 /\ UNCHANGED ticked)
        BY <3>1 DEF Checker, Report, Verdict, Record
      <4> QED
        BY <4>1, VerdictStep, RecordStep
    <3>2. CASE Checker(StartRound \/ Look \/ Arrive \/ TimeOut)
      BY <3>2, LookStep
    <3> QED
      BY <2>1, <3>1, <3>2 DEF CheckerStep, Checker
  <2>2. CASE UNCHANGED vars
    BY <2>2 DEF IInv, TypeOK, BackendTypeOK, DemoTypeOK, Placed, Answered, Aware, Renewed,
                Spared, Pressed, Within, Spent, Wrong, Toggling,
                vars, backendVars, healthVars, demoVars, timeVars
  <2> QED
    BY <2>1, <2>2, TrafficStep, ToggleStep, PassStep DEF Next
<1> QED
  BY <1>1, InitIInv, PTL DEF Spec

----------------------------------------------------------------------------
(* What the runs check, for every value of the constants.                  *)

(* The variables keep their types: since never passes the longest time it  *)
(* is compared with and hcAt never leaves the slice of backends.           *)
THEOREM TypeCorrect == Spec => []TypeOK
<1>1. IInv => TypeOK
  BY DEF IInv
<1> QED
  BY <1>1, Inductive, PTL

(* However long the rounds of checkAll, the verdict of a backend that has  *)
(* not changed for Reaction is that of its flag, slow backends aside.      *)
THEOREM Shown == Spec => []ShownInTime
<1>1. IInv => ShownInTime
  <2> SUFFICES ASSUME IInv, NEW b \in Backends, since[b] > Reaction(b)
               PROVE  ~Wrong(b, alive[b])
    BY DEF ShownInTime, Wrong
  <2>1. ~Within(b, since[b])
    BY WithinBound, Numbers, Bounds DEF IInv
  <2> QED
    BY <2>1 DEF IInv, Aware
<1> QED
  BY <1>1, Inductive, PTL

(* The failed checks of an ill backend renew its cooldown, whatever the    *)
(* requests do, as long as a round fits into the cooldown.                 *)
THEOREM Quiet == Spec => []QuietWhileDown
<1>1. IInv => QuietWhileDown
  <2> SUFFICES ASSUME IInv, NEW b \in Backends, OpenStateTimeout > Reaction(b),
                      since[b] > Reaction(b), ~up[b], circuit[b] = "Open"
               PROVE  ~CheckCircuitState(b)
    BY DEF QuietWhileDown
  <2>1. ~Within(b, since[b])
    BY WithinBound, Numbers, Bounds DEF IInv
  <2>2. Within(b, sinceFailure[b])
    BY <2>1 DEF IInv, Renewed
  <2>3. sinceFailure[b] <= Reaction(b)
    BY <2>2, WithinBound, Numbers DEF IInv
  <2> QED
    BY <2>3, Numbers, Bounds DEF IInv, CheckCircuitState, CooldownOver
<1> QED
  BY <1>1, Inductive, PTL

(* Where clients stay, a backend that has been well for Rotation may be    *)
(* tried, whether its circuit is closed, open or half-open.                *)
THEOREM Back == Spec => []BackInTime
<1>1. IInv => BackInTime
  <2> SUFFICES ASSUME IInv, PlainClients,
                      NEW b \in Backends \ Slow, up[b], since[b] >= Rotation(b)
               PROVE  CheckCircuitState(b)
    BY DEF BackInTime
  <2>1. ~Within(b, since[b])
    BY WithinBound, Numbers, Bounds DEF IInv
  <2>2. alive[b]
    BY <2>1 DEF IInv, TypeOK, BackendTypeOK, Aware, Wrong
  <2>3. CooldownOver(b)
    BY Numbers, Bounds DEF IInv, Spared, CooldownOver
  <2> QED
    BY <2>2, <2>3 DEF CheckCircuitState, IInv, TypeOK, BackendTypeOK, CircuitState
<1> QED
  BY <1>1, Inductive, PTL

(* No press of the button is lost or counted twice, unless it overlaps     *)
(* another.                                                                *)
THEOREM Toggles == Spec => []TogglesCount
<1>1. IInv => TogglesCount
  BY DEF IInv, TypeOK, DemoTypeOK, Pressed, TogglesCount
<1> QED
  BY <1>1, Inductive, PTL

----------------------------------------------------------------------------
(* Where clients stay, a backend that answers in time and that nobody      *)
(* toggles is never taken out of rotation, however the rounds, the         *)
(* cooldowns of the others and the clock fall together: no check mistakes  *)
(* another backend's answer, or a late one, for its own (checkOne,         *)
(* RecordFailure).                                                         *)
Well(b) == b \in Backends \ (Slow \cup Faulty)

WellKept ==
  PlainClients =>
    \A b \in Backends : Well(b) =>
      alive[b] /\ circuit[b] = "Closed" /\ failureCount[b] = 0

WellInv ==
  PlainClients =>
    \A b \in Backends : Well(b) =>
      /\ alive[b] /\ circuit[b] = "Closed" /\ failureCount[b] = 0
      /\ up[b] /\ trial[b] = "none"
      /\ \A c \in Togglers : toggler[c].at # b
      /\ hcAt = b /\ hcPc \in {"answer", "verdict", "record"} => hcOk

THEOREM WellTheorem == Spec => []WellKept
<1>1. ASSUME Init PROVE WellInv
  BY <1>1, NumBackendsAssumption
     DEF Init, BackendInit, HealthInit, DemoInit, Idle, Backends, WellInv, Well
<1>2. ASSUME TypeOK, WellInv, [Next]_vars PROVE WellInv'
  <2> SUFFICES ASSUME PlainClients, NEW b \in Backends, Well(b)
               PROVE  /\ alive'[b] /\ circuit'[b] = "Closed" /\ failureCount'[b] = 0
                      /\ up'[b] /\ trial'[b] = "none"
                      /\ \A c \in Togglers : toggler'[c].at # b
                      /\ hcAt' = b /\ hcPc' \in {"answer", "verdict", "record"} => hcOk'
    BY DEF WellInv, Well
  <2>0. /\ alive[b] /\ circuit[b] = "Closed" /\ failureCount[b] = 0
        /\ up[b] /\ trial[b] = "none"
        /\ \A c \in Togglers : toggler[c].at # b
        /\ hcAt = b /\ hcPc \in {"answer", "verdict", "record"} => hcOk
    BY <1>2 DEF WellInv
  <2>1. /\ hcAt \in Backends /\ alive \in [Backends -> BOOLEAN]
        /\ circuit \in [Backends -> CircuitState]
        /\ failureCount \in [Backends -> 0 .. MaxFailures]
        /\ up \in [Backends -> BOOLEAN] /\ trial \in [Backends -> {"none", "open", "due"}]
        /\ toggler \in [Togglers -> [at : Backends, current : BOOLEAN] \cup {Idle}]
    BY <1>2 DEF TypeOK, BackendTypeOK, DemoTypeOK
  <2>2. CASE CheckerStep
    <3>0. UNCHANGED <<up, toggler, trial>>
      BY <2>2 DEF CheckerStep, Checker, demoVars
    <3>1. CASE StartRound
      BY <2>0, <3>0, <3>1 DEF StartRound, HealthTick, backendVars
    <3>2. CASE Look \/ Arrive
      BY <2>0, <3>0, <3>2 DEF Look, Arrive, backendVars
    <3>3. CASE TimeOut
      <4>1. hcAt # b
        BY <3>3 DEF TimeOut, Well
      <4> QED
        BY <2>0, <3>0, <3>3, <4>1 DEF TimeOut, backendVars
    <3>4. CASE Verdict
      BY <2>0, <2>1, <3>0, <3>4 DEF Verdict, SetAlive
    <3>5. CASE Record
      <4>1. hcPc' \in {"probe", "wait"}
        BY <3>5 DEF Record
      <4>2. CASE hcAt = b
        <5>1. RecordSuccess(b)
          BY <2>0, <3>5, <4>2 DEF Record
        <5> QED
          BY <2>0, <2>1, <3>0, <4>1, <5>1 DEF RecordSuccess
      <4>3. CASE hcAt # b
        BY <2>0, <2>1, <3>0, <3>5, <4>1, <4>3 DEF Record, RecordSuccess, RecordFailure
      <4> QED
        BY <4>2, <4>3
    <3> QED
      BY <2>2, <3>1, <3>2, <3>3, <3>4, <3>5 DEF CheckerStep, Checker, Report
  <2>3. CASE Traffic
    <3>0. UNCHANGED <<hcPc, hcAt, hcOk, up, toggler>>
      BY <2>3 DEF Traffic, healthVars, demoVars
    <3>1. PICK d \in Backends :
            Outcome(d) \/ TrialStep(d)
      BY <2>3 DEF Traffic
    <3>2. CASE RecordSuccess(d) /\ UNCHANGED trial
      BY <2>0, <2>1, <3>0, <3>2 DEF RecordSuccess
    <3>3. CASE d # b /\ RecordFailure(d) /\ UNCHANGED trial
      BY <2>0, <2>1, <3>0, <3>3 DEF RecordFailure
    <3>4. CASE TrialStep(d)
      BY <2>0, <2>1, <3>0, <3>4 DEF TrialStep, SetCircuitHalfOpen, backendVars
    <3> QED
      BY <2>0, <3>1, <3>2, <3>3, <3>4 DEF Outcome, Well
  <2>4. CASE Toggle
    <3>0. UNCHANGED <<alive, circuit, failureCount, hcPc, hcAt, hcOk, trial>>
      BY <2>4 DEF Toggle, backendVars, healthVars
    <3>1. PICK c \in Togglers : StoreToggle(c) \/ \E d \in Backends : LoadToggle(c, d)
      BY <2>4 DEF Toggle, DemoStep
    <3>2. CASE StoreToggle(c)
      <4>1. toggler[c].at # b /\ Idle.at # b
        BY <2>0, NumBackendsAssumption DEF Idle, Backends
      <4> QED
        BY <2>0, <2>1, <3>0, <3>2, <4>1 DEF StoreToggle
    <3>3. ASSUME NEW d \in Backends, LoadToggle(c, d)
          PROVE  up'[b] /\ \A e \in Togglers : toggler'[e].at # b
      <4>1. d # b
        BY <3>3 DEF LoadToggle, Well
      <4> QED
        BY <2>0, <2>1, <3>3, <4>1 DEF LoadToggle
    <3> QED
      BY <2>0, <3>0, <3>1, <3>2, <3>3
  <2>5. CASE Pass
    BY <2>0, <2>5 DEF Pass, Tick, healthVars, demoVars
  <2>6. CASE UNCHANGED vars
    BY <2>0, <2>6 DEF vars, backendVars, healthVars, demoVars
  <2> QED
    BY <1>2, <2>2, <2>3, <2>4, <2>5, <2>6 DEF Next
<1>3. WellInv => WellKept
  BY DEF WellInv, WellKept
<1> QED
  BY <1>1, <1>2, <1>3, TypeCorrect, PTL DEF Spec

----------------------------------------------------------------------------
(* Checker, requests and clock touch the backends through the methods of   *)
(* *Backend only, so what holds of those whoever calls them holds against  *)
(* the clock as well.                                                      *)
THEOREM TimedHealthImplementsBackend == Spec => BackendSpec
<1>1. Init => BackendInit
  BY DEF Init
<1>2. IInv /\ [Next]_vars => [BackendNext]_backendVars
  <2> SUFFICES ASSUME IInv, [Next]_vars PROVE [BackendNext]_backendVars
    OBVIOUS
  <2>1. hcAt \in Backends /\ hcOk \in BOOLEAN
    BY DEF IInv, TypeOK
  <2>2. CASE CheckerStep
    <3>1. CASE StartRound
      BY <3>1 DEF StartRound, HealthTick
    <3>2. CASE Look \/ Arrive \/ TimeOut
      BY <3>2 DEF Look, Arrive, TimeOut
    <3>3. CASE Verdict
      BY <2>1, <3>3 DEF Verdict, Method, BackendNext
    <3>4. CASE Record
      BY <2>1, <3>4 DEF Record, Method, BackendNext
    <3> QED
      BY <2>2, <3>1, <3>2, <3>3, <3>4 DEF CheckerStep, Checker, Report
  <2>3. CASE Traffic
    BY <2>3 DEF Traffic, Outcome, TrialStep, Method, BackendNext
  <2>4. CASE Toggle
    BY <2>4 DEF Toggle
  <2>5. CASE Pass
    BY <2>5 DEF Pass, BackendNext
  <2>6. CASE UNCHANGED vars
    BY <2>6 DEF vars
  <2> QED
    BY <2>2, <2>3, <2>4, <2>5, <2>6 DEF Next
<1> QED
  BY <1>1, <1>2, Inductive, PTL DEF Spec, BackendSpec
=============================================================================
