-------------------------- MODULE LifecycleProofs --------------------------
(***************************************************************************)
(* Proofs about module Lifecycle, for any requests, environments, key      *)
(* pairs and values of the flag, and any number of crashes and restarts.   *)
(***************************************************************************)
EXTENDS Lifecycle, TLAPS

(* Where GetTLSConfig is tells what stands in the certificate file; it has *)
(* not begun before main is configured.                                    *)
FilesFollow ==
  /\ main = "configuring" => tls = "off" /\ listener = "none"
  /\ Running =>
       /\ tls = "cert" => certFile = "absent"
       /\ tls \in {"key", "keyData"} => certFile = pair

(* The context is cancelled by main at its end, and by the listener at its *)
(* own; only then does the health checker end.                             *)
CancelledByEnd ==
  /\ checker = "ended" => cancelled
  /\ Running /\ cancelled => main = "sleeping" \/ listener = "ended"

IInv == TypeOK /\ FilesFollow /\ WholeUnlessCut /\ CancelledByEnd

LEMMA InitIInv == Init => IInv
BY DEF Init, IInv, TypeOK, CertTypeOK, CertInit, Contents, Generating, Writing, FilesFollow,
       WholeUnlessCut, Matching, CancelledByEnd

(* The end of the process, whichever it is.                                *)
LEMMA ExitStep ==
  ASSUME IInv, NEW how \in {"exited", "killed"}, Exit(how),
         UNCHANGED <<built, listener, metrics, checker, cancelled, ticked, certVars>>,
         signalled' \in BOOLEAN
  PROVE  IInv'
<1>1. main' = how /\ ~Running'
  BY DEF Exit, Running
<1>2. TypeOK'
  BY <1>1 DEF IInv, TypeOK, CertTypeOK, certVars, Exit
<1>3. FilesFollow' /\ CancelledByEnd'
  BY <1>1 DEF IInv, FilesFollow, CancelledByEnd
<1>4. WholeUnlessCut'
  BY <1>1 DEF IInv, WholeUnlessCut, Matching, certVars, Exit
<1> QED
  BY <1>2, <1>3, <1>4 DEF IInv

LEMMA MainStep ==
  ASSUME IInv, Main PROVE IInv'
<1>1. ASSUME NEW flag \in Flags, Configure(flag) PROVE IInv'
  <2>1. /\ main = "configuring" /\ main' \in {"exited", "starting"}
        /\ listener' \in {listener, "starting"} /\ metrics' \in {metrics, "starting", "off"}
        /\ checker' \in {checker, "select"} /\ tls' \in {tls, "stat", "off"}
        /\ checker' = "select" \/ checker' = checker
        /\ main' = "exited" => tls' = tls
        /\ main' # "exited" => tls' \in {"stat", "off"}
        /\ UNCHANGED <<cancelled, ticked, signalled, request, certFile, keyFile, pair, cut>>
    BY <1>1 DEF Configure
  <2> QED
    BY <2>1 DEF IInv, TypeOK, CertTypeOK, FilesFollow, WholeUnlessCut, CancelledByEnd,
                Running, Writing, Generating, Matching
<1>2. CASE Notify
  BY <1>2 DEF Notify, IInv, TypeOK, CertTypeOK, FilesFollow, WholeUnlessCut, CancelledByEnd,
              Running, certVars, Matching
<1>3. CASE Shutdown
  BY <1>3 DEF Shutdown, IInv, TypeOK, CertTypeOK, FilesFollow, WholeUnlessCut, CancelledByEnd,
              Running, certVars, Matching
<1>4. CASE WakeUp
  BY <1>4, ExitStep DEF WakeUp, IInv, TypeOK
<1> QED
  BY <1>1, <1>2, <1>3, <1>4 DEF Main

LEMMA ProcessStep ==
  ASSUME IInv, Signal \/ Crash \/ Restart PROVE IInv'
<1>1. CASE Signal /\ main \in {"configuring", "starting"}
  BY <1>1, ExitStep DEF Signal
<1>2. CASE Signal /\ main \notin {"configuring", "starting"}
  BY <1>2 DEF Signal, IInv, TypeOK, CertTypeOK, FilesFollow, WholeUnlessCut, CancelledByEnd,
              Running, certVars, Matching
<1>3. CASE Crash
  BY <1>3, ExitStep DEF Crash, IInv, TypeOK
<1>4. CASE Restart
  BY <1>4 DEF Restart, IInv, TypeOK, CertTypeOK, FilesFollow, WholeUnlessCut, CancelledByEnd,
              Running, Writing, Matching
<1> QED
  BY <1>1, <1>2, <1>3, <1>4

LEMMA OperatorStep ==
  ASSUME IInv, Operator PROVE IInv'
<1>1. /\ ~Running /\ ~Running' /\ cut' = FALSE
      /\ UNCHANGED <<main, listener, metrics, checker, cancelled, ticked, signalled, request>>
  BY DEF Operator, process, Running
<1>2. CertTypeOK' /\ WholeUnlessCut'
  BY <1>1 DEF Operator, Install, RemoveCert, IInv, TypeOK, CertTypeOK, Contents,
              WholeUnlessCut, Matching
<1>3. TypeOK'
  BY <1>1, <1>2 DEF IInv, TypeOK
<1>4. FilesFollow' /\ CancelledByEnd'
  BY <1>1 DEF IInv, FilesFollow, CancelledByEnd, Running
<1> QED
  BY <1>2, <1>3, <1>4 DEF IInv

(* A step of GetTLSConfig: what it writes is what the next place expects.  *)
LEMMA CertStep ==
  ASSUME IInv, GetTLSConfig PROVE IInv'
<1>0. /\ Running /\ Running' /\ listener = "starting"
      /\ UNCHANGED <<process, main>>
      /\ cut' = (cut \/ (tls \in Writing /\ tls' = "failed"))
  BY DEF GetTLSConfig, process, Running
<1>1. CertTypeOK /\ FilesFollow /\ WholeUnlessCut
  BY DEF IInv, TypeOK
<1>2. CertTypeOK' /\ FilesFollow' /\ WholeUnlessCut'
  <2>1. CASE Stat(setup.autoGen)
    BY <1>0, <1>1, <2>1 DEF Stat, Step, CertTypeOK, Generating, FilesFollow, WholeUnlessCut,
                            Writing, Matching
  <2>2. CASE CreateCert
    BY <1>0, <1>1, <2>2 DEF CreateCert, Step, CertTypeOK, Contents, Generating, FilesFollow,
                            WholeUnlessCut, Writing
  <2>3. CASE WriteCert
    BY <1>0, <1>1, <2>3 DEF WriteCert, Step, CertTypeOK, Contents, Generating, FilesFollow,
                            WholeUnlessCut, Writing
  <2>4. CASE CreateKey
    BY <1>0, <1>1, <2>4 DEF CreateKey, Step, CertTypeOK, Contents, Generating, FilesFollow,
                            WholeUnlessCut, Writing
  <2>5. CASE WriteKey
    BY <1>0, <1>1, <2>5 DEF WriteKey, Step, CertTypeOK, Contents, Generating, FilesFollow,
                            WholeUnlessCut, Writing, Matching
  <2>6. CASE GenerateFails
    BY <1>0, <1>1, <2>6 DEF GenerateFails, CertTypeOK, Generating, FilesFollow,
                            WholeUnlessCut, Writing
  <2>7. CASE LoadX509KeyPair
    BY <1>0, <1>1, <2>7 DEF LoadX509KeyPair, Step, CertTypeOK, Generating, FilesFollow,
                            WholeUnlessCut, Writing, Matching
  <2> QED
    BY <2>1, <2>2, <2>3, <2>4, <2>5, <2>6, <2>7 DEF GetTLSConfig, Generate
<1>3. TypeOK' /\ CancelledByEnd'
  BY <1>0, <1>2 DEF IInv, TypeOK, CancelledByEnd, process, Running
<1> QED
  BY <1>2, <1>3 DEF IInv

(* The health checker turns from one case of its select to another.        *)
LEMMA LoopStep ==
  ASSUME IInv, NEW from, NEW to \in {"select", "round", "ended"}, Loop(from, to),
         from \in {"select", "round"}, ticked' \in BOOLEAN,
         to = "ended" => cancelled /\ ~ticked'
  PROVE  IInv'
<1>1. /\ checker' = to
      /\ UNCHANGED <<main, listener, metrics, cancelled, signalled, request, cut>>
      /\ UNCHANGED <<certFile, keyFile, pair, tls>>
  BY DEF Loop, certVars
<1>2. TypeOK'
  BY <1>1 DEF IInv, TypeOK, CertTypeOK
<1>3. FilesFollow' /\ WholeUnlessCut'
  BY <1>1 DEF IInv, FilesFollow, WholeUnlessCut, Running, Matching
<1>4. CancelledByEnd'
  BY <1>1 DEF IInv, CancelledByEnd, Running
<1> QED
  BY <1>2, <1>3, <1>4 DEF IInv

(* The other goroutines leave the files alone.                             *)
LEMMA GoroutineStep ==
  ASSUME IInv, \/ Bind \/ ListenerFails \/ ListenerEnds \/ MetricsFails
               \/ \E r \in Requests : Open(r) \/ Answer(r) \/ Close(r)
               \/ Tick \/ StartRound \/ EndRound \/ CheckerEnds
  PROVE  IInv'
<1>7. CASE StartRound
  BY <1>7, LoopStep DEF StartRound
<1>8. CASE EndRound
  BY <1>8, LoopStep DEF EndRound, IInv, TypeOK
<1>9. CASE CheckerEnds
  BY <1>9, LoopStep DEF CheckerEnds
<1> USE DEF IInv, TypeOK, CertTypeOK, FilesFollow, WholeUnlessCut, CancelledByEnd, Running,
            Matching, certVars, built
<1>1. CASE Bind
  BY <1>1 DEF Bind
<1>2. CASE ListenerFails
  BY <1>2 DEF ListenerFails
<1>3. CASE ListenerEnds
  BY <1>3 DEF ListenerEnds
<1>4. CASE MetricsFails
  BY <1>4 DEF MetricsFails
<1>5. ASSUME NEW r \in Requests, Open(r) \/ Answer(r) \/ Close(r) PROVE IInv'
  BY <1>5 DEF Open, Answer, Close
<1>6. CASE Tick
  BY <1>6 DEF Tick
<1> QED
  BY <1>1, <1>2, <1>3, <1>4, <1>5, <1>6, <1>7, <1>8, <1>9

LEMMA Inductive == Spec => []IInv
<1>1. IInv /\ [Next]_vars => IInv'
  <2>1. ASSUME IInv, UNCHANGED vars PROVE IInv'
    BY <2>1 DEF vars, process, certVars, IInv, TypeOK, CertTypeOK, FilesFollow,
                WholeUnlessCut, CancelledByEnd, Running, Matching
  <2> QED
    BY <2>1, MainStep, ProcessStep, OperatorStep, CertStep, GoroutineStep DEF Next
<1> QED
  BY <1>1, InitIInv, PTL DEF Spec

----------------------------------------------------------------------------
(* The types, and that no ticker runs without its goroutine (TypeOK).      *)
THEOREM TypeCorrect == Spec => []TypeOK
BY Inductive, PTL DEF IInv

(* The health checker does not stop before the listener or the last half   *)
(* second (main).                                                          *)
THEOREM CheckedTheorem == Spec => []CheckedWhileAccepting
<1>1. IInv => CheckedWhileAccepting
  BY DEF IInv, CancelledByEnd, CheckedWhileAccepting
<1> QED
  BY <1>1, Inductive, PTL

(* Certificate and key belong together unless a generation was cut short   *)
(* (GenerateSelfSignedCert).                                               *)
THEOREM WholeTheorem == Spec => []WholeUnlessCut
BY Inductive, PTL DEF IInv

(* The balancer does not touch a certificate that is there                 *)
(* (GetTLSConfig).                                                         *)
THEOREM SettledTheorem == Spec => SettledFilesKept
<1> DEFINE Settled == certFile # "absent" /\ ~(Running /\ tls \in Writing)
<1>1. ASSUME IInv, [Next]_vars, Settled, ~Operator
      PROVE  UNCHANGED <<certFile, keyFile>>
  <2>1. CASE GetTLSConfig
    BY <1>1, <2>1 DEF GetTLSConfig, Stat, Generate, CreateCert, WriteCert, CreateKey, WriteKey,
                      GenerateFails, LoadX509KeyPair, Step, IInv, FilesFollow, Writing
  <2>2. CASE Main
    BY <2>2 DEF Main, Configure, Notify, Shutdown, WakeUp, certVars
  <2>3. CASE Signal \/ Crash \/ Restart
    BY <2>3 DEF Signal, Crash, Restart, certVars
  <2>4. CASE Bind \/ ListenerFails \/ ListenerEnds \/ MetricsFails
               \/ \E r \in Requests : Open(r) \/ Answer(r) \/ Close(r)
    BY <2>4 DEF Bind, ListenerFails, ListenerEnds, MetricsFails, Open, Answer, Close, certVars
  <2>5. CASE Tick \/ StartRound \/ EndRound \/ CheckerEnds
    BY <2>5 DEF Tick, StartRound, EndRound, CheckerEnds, Loop, certVars
  <2>6. CASE UNCHANGED vars
    BY <2>6 DEF vars, certVars
  <2> QED
    BY <1>1, <2>1, <2>2, <2>3, <2>4, <2>5, <2>6 DEF Next
<1>2. IInv /\ [Next]_vars =>
        [Settled /\ ~Operator => UNCHANGED <<certFile, keyFile>>]_vars
  BY <1>1
<1> QED
  BY <1>2, Inductive, PTL DEF Spec, SettledFilesKept

----------------------------------------------------------------------------
(* From the environment to the parts.                                      *)

(* LoadConfig keeps the list of backends, and its durations are numbers.   *)
LEMMA Loaded ==
  ASSUME NEW e \in Environments
  PROVE  /\ LoadConfig(e).LB_BACKENDS = parseCSV(e.LB_BACKENDS)
         /\ LoadConfig(e).LB_HEALTH_INTERVAL \in Int
         /\ LoadConfig(e).LB_HEALTH_TIMEOUT \in Int
<1>1. /\ "LB_HEALTH_INTERVAL" \in DOMAIN Defaults /\ "LB_HEALTH_TIMEOUT" \in DOMAIN Defaults
      /\ Defaults["LB_HEALTH_INTERVAL"] = 2 /\ Defaults["LB_HEALTH_TIMEOUT"] = 1
  BY DEF Defaults
<1>2. Get(e, "LB_HEALTH_INTERVAL") \in Int /\ Get(e, "LB_HEALTH_TIMEOUT") \in Int
  BY <1>1, EnvironmentsAssumption DEF Get
<1>3. /\ LoadConfig(e)["LB_BACKENDS"] = parseCSV(e.LB_BACKENDS)
      /\ LoadConfig(e)["LB_HEALTH_INTERVAL"] = Get(e, "LB_HEALTH_INTERVAL")
      /\ LoadConfig(e)["LB_HEALTH_TIMEOUT"] = Get(e, "LB_HEALTH_TIMEOUT")
  BY <1>1 DEF LoadConfig
<1> QED
  BY <1>2, <1>3

(* NewBackend is called for every entry of the list, and for one at least. *)
LEMMA BuiltBackends ==
  ASSUME NEW e \in Environments, ~Fatal(LoadConfig(e))
  PROVE  /\ Len(NewBackends(LoadConfig(e))) = Len(e.LB_BACKENDS)
         /\ NewBackends(LoadConfig(e)) # <<>>
<1> DEFINE list == e.LB_BACKENDS
           cfg == LoadConfig(e)
<1>1. cfg.LB_BACKENDS = list /\ list # <<>> /\ list \in Seq({"url", "blank", "broken"})
  BY Loaded, EnvironmentsAssumption DEF Fatal, parseCSV
<1>2. Len(list) \in Nat /\ DOMAIN list = 1 .. Len(list) /\ Len(list) # 0
  BY <1>1
<1>3. DOMAIN NewBackends(cfg) = 1 .. Len(list)
  BY <1>1, <1>2 DEF NewBackends
<1>4. NewBackends(cfg) \in [1 .. Len(list) -> {NewBackends(cfg)[i] : i \in 1 .. Len(list)}]
  BY <1>1, <1>2 DEF NewBackends
<1>5. NewBackends(cfg) \in Seq({NewBackends(cfg)[i] : i \in 1 .. Len(list)})
  BY <1>2, <1>4
<1> QED
  BY <1>2, <1>3, <1>5

(* Whatever the processes before, and whatever the environment of this     *)
(* one, a process that starts has its backends, a known strategy, and      *)
(* durations that a ticker and a client accept (main, NewHealthChecker).   *)
THEOREM SoundTheorem == Spec => []SoundStart
<1> DEFINE Sound == env \in Environments /\ SoundStart
<1>1. Init => Sound
  BY DEF Init, SoundStart
<1>2. Sound /\ [Next]_vars => Sound'
  <2> SUFFICES ASSUME Sound, [Next]_vars PROVE Sound'
    OBVIOUS
  <2>1. CASE UNCHANGED built
                /\ (main' \in {"starting", "waiting", "sleeping"} =>
                       main \in {"starting", "waiting", "sleeping"})
    BY <2>1 DEF built, SoundStart
  <2>2. ASSUME NEW flag \in Flags, Configure(flag) PROVE Sound'
    <3>1. CASE Fatal(LoadConfig(env))
      BY <2>2, <3>1 DEF Configure, SoundStart
    <3>2. CASE ~Fatal(LoadConfig(env))
      <4>1. setup' = Build(LoadConfig(env), flag) /\ env' = env
        BY <2>2, <3>2 DEF Configure
      <4>2. /\ Len(setup'.backends) = Len(env.LB_BACKENDS) /\ setup'.backends # <<>>
        BY <3>2, <4>1, BuiltBackends DEF Build
      <4>3. setup'.strategy \in AvailableStrategies
        BY <4>1 DEF Build, StrategyName, AvailableStrategies
      <4>4. setup'.checker.interval > 0 /\ setup'.checker.timeout > 0
        BY <4>1, Loaded DEF Build, NewHealthChecker
      <4> QED
        BY <4>1, <4>2, <4>3, <4>4 DEF SoundStart
    <3> QED
      BY <3>1, <3>2
  <2>3. CASE Notify \/ Shutdown \/ WakeUp \/ Signal \/ Crash
    BY <2>1, <2>3 DEF Notify, Shutdown, WakeUp, Signal, Crash, Exit
  <2>4. CASE Restart
    BY <2>4 DEF Restart, SoundStart
  <2>5. CASE Operator \/ GetTLSConfig \/ Bind \/ ListenerFails \/ ListenerEnds \/ MetricsFails
    BY <2>1, <2>5 DEF Operator, GetTLSConfig, Bind, ListenerFails, ListenerEnds, MetricsFails,
                      process
  <2>6. CASE \/ \E r \in Requests : Open(r) \/ Answer(r) \/ Close(r)
             \/ Tick \/ StartRound \/ EndRound \/ CheckerEnds
    BY <2>1, <2>6 DEF Open, Answer, Close, Tick, StartRound, EndRound, CheckerEnds, Loop
  <2>7. CASE UNCHANGED vars
    BY <2>1, <2>7 DEF vars, process
  <2> QED
    BY <2>2, <2>3, <2>4, <2>5, <2>6, <2>7 DEF Next, Main
<1> QED
  BY <1>1, <1>2, PTL DEF Spec
=============================================================================
