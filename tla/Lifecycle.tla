----------------------------- MODULE Lifecycle -----------------------------
(***************************************************************************)
(* The life of the balancer's process (cmd/main.go), over crashes and      *)
(* restarts: main, the goroutine that listens, the one of the metrics      *)
(* server, the health checker's (Start in backend/health.go), and the      *)
(* requests under way.  The context that main and the listener cancel is   *)
(* all that ties them together, and the certificate files are all that     *)
(* lasts from one process to the next.                                     *)
(***************************************************************************)
EXTENDS Startup, Certificates

CONSTANTS
  Requests,      \* connections to the balancer, with a request at a time
  Environments,  \* environments the process may be started in
  Flags          \* values of -strategy

(* What parseCSV and getDuration find: a list, cut at its commas, and a    *)
(* duration of any length and sign, or nothing they can use.               *)
ASSUME EnvironmentsAssumption ==
  \A e \in Environments :
    /\ e.LB_BACKENDS \in Seq({"url", "blank", "broken"}) \cup {Unset}
    /\ e.LB_HEALTH_INTERVAL \in Int \cup {Unset, Garbled}
    /\ e.LB_HEALTH_TIMEOUT \in Int \cup {Unset, Garbled}

VARIABLES
  env,         \* the environment of this process
  setup,       \* what main built from it
  main,        \* where main is; "exited" or "killed" at the end
  listener,    \* where the listening goroutine is
  metrics,     \* where the goroutine of the metrics server is
  checker,     \* where the goroutine of the health checker is
  cancelled,   \* is ctx done?
  ticked,      \* does the ticker's channel, of capacity 1, hold a tick?
  signalled,   \* has sig received SIGINT or SIGTERM?
  request,     \* request[r]: is there a request on connection r, or is r idle?
  cut          \* a generation did not come to its end, and its certificate
               \* is still there (history)

built == <<env, setup>>
process == <<main, listener, metrics, checker, cancelled, ticked, signalled, request>>
vars == <<built, process, certVars, cut>>

Running == main \notin {"exited", "killed"}

Unbuilt == [built |-> FALSE]

Init ==
  /\ env \in Environments
  /\ setup = Unbuilt
  /\ main = "configuring"
  /\ listener = "none"
  /\ metrics = "off"
  /\ checker = "none"
  /\ cancelled = FALSE
  /\ ticked = FALSE
  /\ signalled = FALSE
  /\ request = [r \in Requests |-> "none"]
  /\ tls = "off"
  /\ CertInit
  /\ cut = FALSE

(* The end of the process is the end of every goroutine and connection.    *)
Exit(how) ==
  /\ main' = how
  /\ request' = [r \in Requests |->
       IF request[r] = "none" THEN "none" ELSE "dropped"]
  /\ cut' = (cut \/ tls \in Writing)

----------------------------------------------------------------------------
(* main                                                                    *)

(* The health checker and the metrics server are started before the        *)
(* listener, and signals are caught after it.                              *)
Configure(flag) ==
  LET cfg == LoadConfig(env) IN
  /\ main = "configuring"
  /\ IF Fatal(cfg)
       THEN /\ main' = "exited"
            /\ UNCHANGED <<setup, listener, metrics, checker, tls>>
       ELSE /\ setup' = Build(cfg, flag)
            /\ main' = "starting"
            /\ listener' = "starting"
            /\ metrics' = IF setup'.metrics THEN "starting" ELSE "off"
            /\ checker' = "select"
            /\ tls' = IF setup'.tls THEN "stat" ELSE "off"
  /\ UNCHANGED <<env, cancelled, ticked, signalled, request, certFile, keyFile, pair, cut>>

Notify ==
  /\ main = "starting"
  /\ main' = "waiting"
  /\ UNCHANGED <<built, listener, metrics, checker, cancelled, ticked, signalled,
                 request, certVars, cut>>

(* Mutant: main waits for the listener too.                                *)
Shutdown_WaitsForListener ==
  /\ main = "waiting" /\ signalled /\ listener = "ended"
  /\ main' = "sleeping"
  /\ cancelled' = TRUE
  /\ UNCHANGED <<built, listener, metrics, checker, ticked, signalled, request,
                 certVars, cut>>

(* <-sig, and cancel()                                                     *)
Shutdown ==
  /\ main = "waiting" /\ signalled
  /\ main' = "sleeping"
  /\ cancelled' = TRUE
  /\ UNCHANGED <<built, listener, metrics, checker, ticked, signalled, request,
                 certVars, cut>>

(* Main returns after half a second.                                       *)
WakeUp ==
  /\ main = "sleeping"
  /\ Exit("exited")
  /\ UNCHANGED <<built, listener, metrics, checker, cancelled, ticked, signalled, certVars>>

Main == (\E flag \in Flags : Configure(flag)) \/ Notify \/ Shutdown \/ WakeUp

(* Before signal.Notify a signal ends the process at once.                 *)
Signal ==
  /\ Running /\ ~signalled
  /\ signalled' = TRUE
  /\ IF main \in {"configuring", "starting"}
       THEN Exit("killed")
       ELSE UNCHANGED <<main, request, cut>>
  /\ UNCHANGED <<built, listener, metrics, checker, cancelled, ticked, certVars>>

(* The process is killed; the files stay as they are.                      *)
Crash ==
  /\ Running
  /\ Exit("killed")
  /\ UNCHANGED <<built, listener, metrics, checker, cancelled, ticked, signalled, certVars>>

(* A new process, in an environment that may be another.                   *)
Restart ==
  /\ ~Running
  /\ env' \in Environments
  /\ setup' = Unbuilt
  /\ main' = "configuring"
  /\ listener' = "none"
  /\ metrics' = "off"
  /\ checker' = "none"
  /\ cancelled' = FALSE
  /\ ticked' = FALSE
  /\ signalled' = FALSE
  /\ request' = [r \in Requests |-> "none"]
  /\ tls' = "off"
  /\ UNCHANGED <<certFile, keyFile, pair, cut>>

Operator ==
  /\ ~Running
  /\ Install \/ RemoveCert
  /\ cut' = FALSE
  /\ UNCHANGED <<built, process>>

----------------------------------------------------------------------------
(* The listening goroutine: certificates and address, then Accept for      *)
(* good.  Each may fail, and then the context is cancelled.                *)

GetTLSConfig ==
  /\ Running /\ listener = "starting"
  /\ Stat(setup.autoGen) \/ Generate \/ GenerateFails \/ LoadX509KeyPair
  /\ cut' = (cut \/ (tls \in Writing /\ tls' = "failed"))
  /\ UNCHANGED <<built, process>>

(* Mutant: cancel is called as soon as the listener is up.                 *)
Bind_Cancels ==
  /\ Running /\ listener = "starting" /\ tls \in {"off", "loaded"}
  /\ listener' = "serving"
  /\ cancelled' = TRUE
  /\ UNCHANGED <<built, main, metrics, checker, ticked, signalled, request, certVars, cut>>

Bind ==
  /\ Running /\ listener = "starting" /\ tls \in {"off", "loaded"}
  /\ listener' = "serving"
  /\ UNCHANGED <<built, main, metrics, checker, cancelled, ticked, signalled, request,
                 certVars, cut>>

ListenerFails ==
  /\ Running
  /\ listener = "serving" \/ (listener = "starting" /\ tls \in {"off", "loaded", "failed"})
  /\ listener' = "failed"
  /\ UNCHANGED <<built, main, metrics, checker, cancelled, ticked, signalled, request,
                 certVars, cut>>

ListenerEnds ==
  /\ Running /\ listener = "failed"
  /\ listener' = "ended"
  /\ cancelled' = TRUE
  /\ UNCHANGED <<built, main, metrics, checker, ticked, signalled, request, certVars, cut>>

(* Accept, and the first request on a connection; or one more on a         *)
(* connection that was kept alive, whatever became of the listener.        *)
Open(r) ==
  /\ Running
  /\ request[r] = "idle" \/ (request[r] = "none" /\ listener = "serving")
  /\ request' = [request EXCEPT ![r] = "open"]
  /\ UNCHANGED <<built, main, listener, metrics, checker, cancelled, ticked, signalled,
                 certVars, cut>>

Answer(r) ==
  /\ Running
  /\ request[r] = "open"
  /\ \E to \in {"idle", "none"} : request' = [request EXCEPT ![r] = to]
  /\ UNCHANGED <<built, main, listener, metrics, checker, cancelled, ticked, signalled,
                 certVars, cut>>

(* The client closes an idle connection.                                   *)
Close(r) ==
  /\ Running
  /\ request[r] = "idle"
  /\ request' = [request EXCEPT ![r] = "none"]
  /\ UNCHANGED <<built, main, listener, metrics, checker, cancelled, ticked, signalled,
                 certVars, cut>>

(* StartMetricsServer serves for good or fails, which is logged.           *)
MetricsFails ==
  /\ Running /\ metrics = "starting"
  /\ metrics' = "failed"
  /\ UNCHANGED <<built, main, listener, checker, cancelled, ticked, signalled, request,
                 certVars, cut>>

----------------------------------------------------------------------------
(* The loop of Start.  With ctx done and a tick waiting, select takes      *)
(* either: rounds may go on after the context was cancelled.               *)

Loop(from, to) ==
  /\ Running /\ checker = from
  /\ checker' = to
  /\ UNCHANGED <<built, main, listener, metrics, cancelled, signalled, request, certVars, cut>>

Tick ==
  /\ Running /\ ~ticked /\ checker \notin {"none", "ended"}
  /\ ticked' = TRUE
  /\ UNCHANGED <<built, main, listener, metrics, checker, cancelled, signalled, request,
                 certVars, cut>>

StartRound == ticked /\ ticked' = FALSE /\ Loop("select", "round")

EndRound == UNCHANGED ticked /\ Loop("round", "select")

(* Mutant: the context is looked at only when no tick waits.               *)
CheckerEnds_TickFirst == cancelled /\ ~ticked /\ UNCHANGED ticked /\ Loop("select", "ended")

(* defer ticker.Stop()                                                     *)
CheckerEnds == cancelled /\ ticked' = FALSE /\ Loop("select", "ended")

----------------------------------------------------------------------------
Next ==
  \/ Signal \/ Main \/ Crash \/ Restart \/ Operator
  \/ GetTLSConfig \/ Bind \/ ListenerFails \/ ListenerEnds \/ MetricsFails
  \/ \E r \in Requests : Open(r) \/ Answer(r) \/ Close(r)
  \/ Tick \/ StartRound \/ EndRound \/ CheckerEnds

Spec == Init /\ [][Next]_vars

(* Goroutines are scheduled, the ticker ticks, rounds end because probes   *)
(* have a timeout, and select, which chooses at random among what is       *)
(* ready, does not choose the tick for ever.  Nothing makes a request end, *)
(* and nothing starts the process again.                                   *)
Fairness ==
  /\ WF_vars(Main)
  /\ WF_vars(ListenerEnds)
  /\ WF_vars(Tick \/ StartRound \/ EndRound)
  /\ SF_vars(CheckerEnds)

FairSpec == Spec /\ Fairness

----------------------------------------------------------------------------
TypeOK ==
  /\ main \in {"configuring", "starting", "waiting", "sleeping", "exited", "killed"}
  /\ listener \in {"none", "starting", "serving", "failed", "ended"}
  /\ metrics \in {"off", "starting", "failed"}
  /\ checker \in {"none", "select", "round", "ended"}
  /\ checker \in {"none", "ended"} => ~ticked    \* no ticker, or a stopped one
  /\ {cancelled, ticked, signalled, cut} \subseteq BOOLEAN
  /\ request \in [Requests -> {"none", "open", "idle", "dropped"}]
  /\ CertTypeOK

(* A process that gets to start its goroutines has a backend for every     *)
(* entry of LB_BACKENDS, a strategy the dashboard can name, and an interval *)
(* and a timeout a ticker and a client can work with, whatever is set, not *)
(* set or garbled (main, NewHealthChecker).                                *)
SoundStart ==
  main \in {"starting", "waiting", "sleeping"} =>
    /\ Len(setup.backends) = Len(env.LB_BACKENDS) /\ setup.backends # <<>>
    /\ setup.strategy \in AvailableStrategies
    /\ setup.checker.interval > 0 /\ setup.checker.timeout > 0

(* The health checker stops only once the listener has ended, so that no   *)
(* new connection comes, or in the half second before the process ends     *)
(* (the two callers of cancel).  Requests on connections that were kept    *)
(* alive go by the last verdicts then.                                     *)
CheckedWhileAccepting ==
  Running /\ checker = "ended" => listener = "ended" \/ main = "sleeping"

(* The files belong together whenever there is a certificate and nobody is *)
(* writing, unless the process was killed or failed in the middle of       *)
(* GenerateSelfSignedCert: whatever was in the key file before, and        *)
(* however often the process was started, killed and set up anew.          *)
WholeUnlessCut ==
  certFile # "absent" /\ ~(Running /\ tls \in Writing) => Matching \/ cut

(* A pair that is whole is never touched by the balancer, over any number  *)
(* of crashes and starts; nor is one that was cut short ever repaired: the *)
(* operator must remove the certificate (GetTLSConfig).                    *)
SettledFilesKept ==
  [][certFile # "absent" /\ ~(Running /\ tls \in Writing) /\ ~Operator
       => UNCHANGED <<certFile, keyFile>>]_vars

(* Once the context is cancelled the checker ends, however late its ticker *)
(* makes it ("it stops when ctc is cancelled", health.go:44).              *)
CheckerStops == cancelled ~> checker = "ended" \/ ~Running

(* A signal ends the process, whatever the listener, the health checker    *)
(* and the requests are doing (main).                                      *)
SignalObeyed == signalled ~> ~Running
=============================================================================
