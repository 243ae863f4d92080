# PolyBalance in TLA+

PolyBalance is an HTTP load balancer in Go: it forwards each request to one of
a fixed list of backend servers, chosen by a strategy, behind a circuit breaker
for each backend, a health checker, a rate limiter and a request limiter.
These modules model it, TLC checks the models on small instances, and TLAPS
proves the main results for every value of the constants. Paths below are
relative to the repository (`backend/backend.go` is `src/backend/backend.go`);
line numbers are in `PROJECT.json`, which ties every definition to its code.

- [1. The system](#1-the-system)
- [2. The modules](#2-the-modules)
- [3. What is checked](#3-what-is-checked)
- [4. Fairness](#4-fairness)
- [5. What is proved](#5-what-is-proved)
- [6. Where code and comments disagree](#6-where-code-and-comments-disagree)
- [7. What is not modelled](#7-what-is-not-modelled)
- [8. Plan](#8-plan)

## 1. The system

A request goes through `RateLimiter.Middleware`, then
`RequestLimiter.Middleware`, then a mux: to the dashboard, or to
`Server.ServeHTTP`, which asks the current strategy for a backend and lets a
new `Proxy` forward the request to it, up to three times. `net/http` runs each
request in a goroutine of its own. The health checker, the rate limiter's
cleanup and the metrics server run beside them. The dashboard's own requests
come through the same two limiters that its forms set.

| Component | State | Operations | Shared with |
|---|---|---|---|
| `Backend` (backend/backend.go) | `alive`, circuit state, failure count, last failure, active connections, average latency, all under `b.mu` | one short critical section each: `SetAlive`, `RecordFailure`, `RecordSuccess`, `CheckCircuitState`, `SetCircuitHalfOpen`, ... | every request, the strategies, the health checker |
| `HealthChecker` (backend/health.go) | a ticker, a context | at every tick, probes the backends one by one and reports each verdict in two critical sections | `Backend` |
| `Proxy` (proxy/reverse_proxy.go) | the request counter; the handlers of the `ReverseProxy` | `ServeHTTP`: gate, trial, count, forward, report, measure, release | `Backend`, `Server` |
| `Server` (server/http_server.go) | per request: attempt, recorder | the retry loop | strategies, `Proxy` |
| `RoundRobin` | one atomic counter | `NextBackend` | all requests |
| `LeastConnections`, `LatencyStrategy` | none | `NextBackend`, one scan | `Backend` |
| `ConsistentHash` | `c.ring`, without a lock | `NextBackend`, `validateRing`, `buildRing` | all requests |
| `StrategyController` | the current strategy, under a lock | `Current`, `Set` | dashboard, `Server` |
| `RateLimiter` (middleware/ratelimit.go) | grants of each key, settings; under `rl.mu`, but for one read of `enabled` | `Allow`, `cleanup`, `SetEnabled`, `SetLimits` | requests, dashboard |
| `RequestLimiter` (middleware/requestlimit.go) | settings; written under `rl.mu`, read without it | `Middleware`, `SetEnabled`, `SetLimits` | requests, dashboard |
| Dashboard (ui/dashboard.go) | none | forms that set limits and strategy and toggle a demo backend; statistics; test requests | the limiters, `StrategyController`, `Backend` |
| `LoadConfig` (internal/config.go) | none | the settings as a function of the environment | `main` |
| `TLSConfig` (middleware/tls.go) | the certificate and key files | `GetTLSConfig`, `GenerateSelfSignedCert` | `main`, later processes |
| `main` (cmd/main.go) | a context, a signal channel | construction, listening, shutdown | all |
| Demo backend (cmd/backend/main.go) | the flag `healthy`, a request counter that is only shown | `/healthz`, `/toggle-health`, `/` | upstream of the balancer |
| Metrics, logging | counters nobody updates; output | a server, lines | `main` |

What is hard here:

- *Decisions made of several critical sections.* `Backend`'s methods are
  atomic, but the gate of `Proxy.ServeHTTP`, its two reads and the write that
  starts a trial are four of them, and the health checker's report is two.
  A circuit may change between any two.
- *Late reports.* A request that was admitted before the circuit opened may
  report its success or failure while it is open or half-open.
- *Retries over one connection to the client.* The recorder does not hold
  anything back, so attempts write one after the other to the same client.
- *Panics.* `httputil.ReverseProxy` panics when a body cannot be copied, and
  nothing is deferred in `Proxy.ServeHTTP`.
- *Unlocked state.* `c.ring` is rebuilt in place while others search it; the
  request limiter reads what a form is writing; the rate limiter reads
  `enabled` early.
- *Shared counters in the middle of loops.* Every attempt of every round-robin
  call draws from the same counter, which wraps.
- *Decisions against the clock.* Probes go round one backend after the other,
  so a verdict is as old as its round, and a failed probe renews a cooldown.
- *State that outlives a process.* Two certificate files are written one after
  the other, and a process may end between any two steps.
- *Settings that apply to those who set them.* Nothing looks at the range of
  the limits a form or the environment gives.
- *Shutdown.* The context is cancelled by a signal or by a listener that
  fails, and the process ends half a second after the signal. Connections that
  were kept alive outlive the listener.
- *Clients without a deadline.* `main`'s server has no read or write timeout,
  and the transport's do not cover bodies.

What makes each part correct:

- breaker: it opens no later than the threshold, closes through a trial only,
  a behaving backend comes back for good, a blameless one is never removed;
- proxy: connections are accounted for, whatever panics;
- server: a request that may change something is sent once, the others a
  bounded number of times; all of them get a status, unless an answer that was
  begun breaks off, and nothing but a backend or a client holds them;
- strategies: they find a backend when one is available, and the right one;
- limiters: the window is kept and no request is refused without reason;
- strategies under the retry loop: a request that gives up was sent to all that
  could have served it, and a backend that recovers gets its trial;
- time: the balancer knows within a bounded time that a backend fell ill, sends
  it nothing meanwhile, and tries it again within a bounded time;
- process: a listener that accepts has a health checker, signals are obeyed,
  what starts is sound whatever the environment says, and certificate and key
  belong together.

## 2. The modules

```
Backend                        the methods of *Backend, and BackendSpec
  Upstream                     servers and clients (external)
    HealthChecker              the probe loop
      DemoBackend              the demo backends and the button that toggles them
        TimedHealth            checker, demo backends and traffic against the clock
    Proxy                      Proxy.ServeHTTP
      BackendPool              the composition with HealthChecker, PoolSpec
        Server                 the retry loop; implements PoolSpec and Exchange
          Balancer             Server with StrategyController and round robin
Exchange                       what a client is promised
RoundRobin, LeastMetric, ConsistentHash     the strategies by themselves
RateLimiter                    the sliding window
RequestLimiter                 the limits on headers and bodies
  Dashboard                    the chain of both limiters and the forms that set them
Startup, Certificates          the environment; the files
  Lifecycle                    the process, over crashes and restarts
```

`XProofs` holds the theorems about `X`; `BalancerProofs` those about the whole
chain from `Backend` to `Balancer`. `MCX` has the model values and symmetry of
the runs of `X`, `XClaims` a claim of the comments that the code does not keep.

**Backend.** One operator for each method, each a single step because `b.mu` is
held throughout. `failureCount` saturates at `MaxFailures` and `sinceFailure`
at `OpenStateTimeout`, since the code compares them with nothing else; the
clock is the action `Tick`. `BackendSpec` lets anybody call any method at any
time and is the abstract specification that the pool implements.

**Upstream.** A backend that is *up* answers probes and requests; one that is
not may answer or fail each of them. Only backends in `Faulty` ever break.
`PlainClients` says whether all clients send their bodies and read their answers
without stopping, wait for them, keep to the limits and do not ask for upgrades.

**HealthChecker.** `HealthTick`, `Probe`, `Verdict` (`SetAlive`) and `Record`
(`RecordSuccess` or `RecordFailure`, and on to the next backend).

**Proxy.** A program counter for each request and one action for each critical
section of `ServeHTTP`, in its order: `Reject`/`Admit`, `ReadState`,
`ReadCooldown`, `StartTrial`, `Track`, `Prepare`, then what `ReverseProxy` does
with the handlers (`HandleSuccess`, `UpstreamError`, `ClientError`, `CopyBody`,
`UpgradeRefused`, and `AbortCopy`, its panic), `Measure`, `Release`. `leaked`
counts the panics and is history.

**BackendPool.** All of it at once. A request may come with any backend:
strategies look at circuits earlier than the gate does.

**Server.** `ServeHTTP` over the pool: `Begin`, `Choose`/`NoBackend`, the steps
of `Proxy` joined with what they write to the client, then `SendResponse`,
`Retry`, `GiveUp` or `Unwind` after a panic. `Written` is the recorder: the
status of the first attempt that writes is the client's. Statuses are
*retryable* (502, 503, 504) or *final*. A later body that does not fit the
length an earlier reply declared makes the copy fail (`Overflows`).

**Exchange.** The abstract view: an exchange is opened, sent to backends, and
closed. A request that is not retryable is sent at most once, another at most
`MaxRetries + 1` times and never after a final answer, and none is closed
before it was given a status. An answer that was begun may be *cut*: after the
panic of a copy `net/http` closes the connection, and what it had buffered, the
status line perhaps, is lost.

**RoundRobin.** `Draw` is the atomic add; the counter wraps at `CounterSize`.
**LeastMetric** is both `LeastConnections` and `LatencyStrategy`: the same loop
over another metric. **ConsistentHash** has the ring as two words, length and
pointer, stored in either order and loaded again at every use; the hashes
matter only by their order, so a layout of all nodes and the place of the key
stand for them: `Places`, `Before` and `Node` find the nodes of a ring in it. In
the three of them `Turn` changes which backends pass `CheckCircuitState` at any
time, as the pool makes it.

**Balancer.** Joins the steps of `Server` with a `NextBackend` of its own. Each
`Set` makes an *instance*, with a counter of its own; a request asks `Current`
once, when it begins, and keeps the instance over its retries. Round robin is
`Draw` (the atomic add, on a counter that wraps at `CounterSize`), `Skip`, `Pick`
and `Fail`; the other strategies, which their own modules describe, may pick any
backend or none. It refines `Server`.

**RateLimiter.** `Bypass`/`Enter` read `enabled` without the lock, `Accept` and
`Deny` are `Allow` under it; `granted` remembers every grant and is history.

**RequestLimiter.** The two stores of `SetLimits` and the reads of the
middleware are steps of their own; `widest` and `lowered` are history.
**Dashboard** puts the rate limiter before it, reduced to what refuses: enabled
it may refuse anything, and with no positive maximum refuses everything. The
four stages of `handleConfig` follow each other, and the form was a request
that came through both limiters itself (`Come`, `Middleware`, `Submit`).

**DemoBackend.** `LoadToggle` and `StoreToggle` are the two halves of
`handleToggleHealth`; the dashboard's button is one client of it, and its
timeout, which changes nothing at the backend, is left out. **TimedHealth** runs the health
checker on it with a clock: one `Pass` is a second of it, a probe takes up to
`ProbeTimeout` and is answered from the flag at some moment in between, and the
ticker's channel holds one tick. Its requests are any number: they succeed, or
fail if the backend is slow or clients are not plain (`Outcome`), and the two
reads and the write of a trial are steps of their own (`TrialStep`), so that the
write may be late. It assumes that goroutines are scheduled at
once: what a loaded machine adds comes on top of its bounds.

**Startup.** `LoadConfig` and the first half of `main` as operators: variables
that are missing or do not parse, backends that do not parse, defaults, the flag
that overrides the strategy. **Certificates.** Both files with each creation and
each write a step that may fail. **Lifecycle** extends both with the process:
`Configure`, `Notify`, `Shutdown` and `WakeUp` are `main`; `GetTLSConfig`,
`Bind`, `ListenerFails` and `ListenerEnds` the listening goroutine; `Tick`,
`StartRound`, `EndRound` and `CheckerEnds` the health checker's `select`;
`MetricsFails`; `Open`, `Answer` and `Close`, connections with a request at a
time: a first one needs the listener, a further one does not; `Signal`, `Crash`, `Restart`; and `Operator`, who
installs or removes certificates while nothing runs.

Operators with a name like `RecordFailure_Late` are mutants: what the
definition after them would be with a plausible bug. They are part of no
specification; each is listed in `PROJECT.json` with the property that fails
when it takes the place of the original.

## 3. What is checked

| Run | Instance | What it shows |
|---|---|---|
| `pool_one` | 1 faulty backend, 2 requests, threshold 2, cooldown 2, any clients, 1 panic | `ClosedBelowThreshold`: no interleaving of reports misses the failure that opens a circuit. `ClosesThroughTrial`: a late success or probe resets the count but never ends the cooldown. `ConnectionsAccounted`: the counter is the requests that hold the backend plus the panicked ones, so the guard at 0 hides nothing. `OnlyChecksRevive`: a request never overrides a failed check. `AverageWithin`: an average of latencies lies between latencies, so a backend with a record does not come to look like one without. |
| `pool_live` | 1 faulty backend, 2 requests, plain clients, cooldown 1 | `Recovery`: a backend that behaves from some time on has its circuit closed for good, even though one request may write its trial from reads that are stale because the other, or a check, has closed the circuit since. |
| `server_loop` | 1 faulty backend, 1 request at a time, 2 retries, any clients | `Contract`: the loop implements `Exchange`. `RequestsEnd`: a request whose round trips and copies end comes to its end itself, whatever the backend does meanwhile. `RequestIdKept`: retries keep the ID (that overlapping requests get distinct ones is proved, section 5). |
| `rate_window` | 2 handlers, 2 keys, three settings, 4 ticks, 3 grants | `WindowKept`: once the settings have stood for a window, no key has more than `max` grants in it, whatever the cleanup forgot. `DeniedOnlyWhenFull`: a denial means that `max` requests passed within the window. |
| `round_robin` | 3 backends, 2 callers, counter of 4, 8 draws | `SoleFinds`: a call whose numbers are consecutive misses no backend. `FairShare`: backends that never go away are picked equally often, to within one and the wraps. |
| `scan` | 3 backends, 3 values of the metric | `ScanFinds`: nil only if no backend stayed available. `LeastSeen`: the choice is as good as readings taken at different times allow. |
| `hash_ring` | 2 backends with 2 nodes each, 2 callers, every place of the key | `SoundAlone`: without an overlapping rebuild no call panics or misses a backend. `FindsOwner`: binary search and wrap-around find the node that follows the key. |
| `dashboard` | 2 forms and no other requests, limits whose mixture is neither and two that let nothing through, rate limits 0 and 1 | `LimitsWhole`: two forms never leave a mixture behind. `Screened`: what passes was within limits that were in force meanwhile. `CutOnlyIfLowered`: a declared body is cut short only if the limit went down between the two reads. `ShutForGood`: settings that let nothing through stay, since the form that would take them back is refused too. |
| `lifecycle` | 6 environments, 1 connection, 2 key pairs | `SoundStart`: what starts has a backend for every entry, a known strategy, and periods a ticker accepts, whatever the environment. `CheckedWhileAccepting`: the checker runs as long as the listener does, but for the last half second. `CheckerStops`: it ends after cancellation. `SignalObeyed`: a signal ends the process. `WholeUnlessCut`: a certificate without its key needs a generation that was cut short. `SettledFilesKept`: the balancer never touches a certificate that is there, whole or not. |
| `demo` | 2 demo backends, one slow, one toggled by 2 presses at once; round 2, probes 1, cooldown 5, threshold 1, plain clients | `ShownInTime`: the verdict follows the flag within `Reaction`. `QuietWhileDown`: failed probes renew the cooldown, so an open circuit of an ill backend lets nothing through, as long as a round fits into a cooldown. `BackInTime`: a backend that recovers may be tried after `Rotation` at the latest, however late the trials under way are written. `TogglesCount`: a press is lost only if it overlaps another. |
| `balancer` | 2 backends, one faulty, 1 request at a time, 1 retry, 1 change of strategy, counter of 3, plain clients | `RetriesReachAll`: a request that gives up was sent to every backend that stayed available. `BlamelessKept`: faults of one backend never remove the other. `RotationRestored`: once the backends behave and round robin is in use, all circuits close for good, with no fairness towards any particular backend. |
| `server_lost_success` | small | a counterexample, section 6 |

The type invariants of `Server`, `RoundRobin`, `ConsistentHash` and
`TimedHealth` are checked in their runs, since they bound the loops there
(`attempt`, `pos`, `hcAt` stay within their ranges); those of the other modules
are proved only (section 5).

*Why the bounds are enough.* The circuit breaker of a backend reads nothing of
the others, so one backend with two requests and the checker has all its races:
a late report, a stale trial and a probe between them. Threshold 2 has a
failure below it and one that reaches it; cooldown 2 has a time before, within and
after it. With latencies of 2 and 7 the average loses fractions on its way up
(2, 3, 3, ...) and down (7, 6, 5, 4, 3, 2). In `pool_live` the second request is what a late trial needs: only
another can have closed the circuit between the reads and the write. A second
backend matters where requests choose, in `balancer`. Two retries are the code's own number. The wrap of the
round-robin counter at 4 is reached twice and is not a multiple of the number
of backends, as 2^64 is not of 3; nor is the wrap at 3 in `balancer` one of 2. Grants of a key beyond `max` are reached with
limits of 1 and 2; the window of 0 is one a form can set. Two callers on a hash
ring are one that searches and one that rebuilds, and two nodes for each
backend, kept together and apart, give the search a middle. Two forms are two
writers, and each of them a reader while it is still a request. The
environments are one as in `start.sh`, one with nothing set, one with a URL that
does not parse, one with every value a little wrong, and two with TLS; two key
pairs are an old and a new one. With two presses one can overlap the other, and
the demo's periods keep the repository's order: a round of both backends is no
longer than two probes and fits into the cooldown. Its threshold of 1 opens the
circuit with the first failure; counting up to it is in `pool_one`. In `balancer` there are as
many attempts as backends, and a strategy before and after the change. `MaxLeaks`,
`MaxIDs`, `MaxDraws`, `MaxSets`, `MaxTime` and `MaxGrants` bound histories and counters
only, and no property is about reaching them.

*Deadlock* is checked except in `dashboard`, where settings that let nothing
through leave nothing to be done: `ShutForGood` is about those states. In
`lifecycle` a process that ended may be started again; in `round_robin` and
`rate_window` the last states are those in which backends turn and settings
change for ever.

*Size.* The largest runs on two workers: `demo` 5.3 million states, `hash_ring`
3.6 million, `balancer` 1.3 million (over two minutes, for its liveness
property), `server_loop` 0.5 million, `dashboard` 0.3 million.

*Symmetry* is declared for requests, callers, handlers, keys, forms and presses
in the safety runs, never with liveness.

## 4. Fairness

- `FairSpec` of `Server`: goroutines are scheduled, and that is all: each step of
  a request between its round trips and copies is taken. Nothing is assumed of
  those two, because nothing bounds them: `ResponseHeaderTimeout` starts when the
  body of the request has been written, and `main`'s server has neither a read
  nor a write timeout. `RequestsEnd` therefore has it as a hypothesis that each
  ends, for whatever reason, and says that nothing else holds the request:
  for any clients and backends.
- `FairPoolSpec` and `FairBalancerSpec` add that the checker and the clock go on
  (a probe has its client's timeout), and that a round trip and a copy end if the
  backend is up and the client plain, which is what plain means. `Recovery` and
  `RotationRestored` are about plain clients and backends that stay up.
  `Recovery` also supposes that requests keep reaching every backend (strong
  fairness of `Start`), since it takes a request to make an open circuit
  half-open. `BalancerFairness` does not suppose it: there clients keep coming,
  and it is round robin that brings each backend its trial (`RotationRestored`).
  A strategy that goes by a metric need not: it may prefer another backend for
  ever, and then nothing is claimed of the one that is never tried. Nothing makes
  a backend break, come back, or a client go away.
- `Lifecycle`: the ticker ticks, rounds end since probes do, and `select`, which
  chooses at random among what is ready, does not choose the tick for ever
  (strong fairness of `CheckerEnds`). Nothing makes a request end, a signal
  come or a process start.
- `TimedHealth` has no fairness: its bounds on time are safety properties of a
  clock that does not pass over a step that is due (`Busy`).

## 5. What is proved

Every safety property of section 3, invariant or action property, has a theorem
under `theorems` in `PROJECT.json`. They hold for any number of backends,
requests, callers and presses, any thresholds, periods and limits, under the
assumptions the modules name:

- `NumBackends`, `MaxFailures`, `OpenStateTimeout`, `Interval`, `ProbeTimeout`,
  `VirtualNodes` and `CounterSize` are positive, the limits integers, the
  requests and callers of a moment finitely many;
- `LayoutsAssumption`: a layout has each backend `VirtualNodes` times, as
  `buildRing` makes its nodes;
- `EnvironmentsAssumption`: the list of backends is a list of entries that are
  URLs, blank or broken, or is not set; the durations are integers of any sign,
  do not parse, or are not set.

The modules, in the order in which to read them:

- **BalancerProofs**, from the bottom up.
  - *Backend.* `ThresholdTheorem`, `TrialTheorem`, `BackendTypeCorrect` about
    `BackendSpec`: they hold for everything that goes through the methods,
    whoever calls. The threshold is inductive with the type invariant.
    `AverageTheorem` needs more than its property says: the average that a
    sample is added to must itself lie between two samples (`Measured`).
  - *BackendPool.* `PoolImplementsBackend`: every step of the pool is a method,
    a tick or a stutter, so the theorems above carry over. `AccountsTheorem`
    takes the set of holders apart, step by step: it grows by the request that
    was tracked and shrinks by the one that releases or panics.
    `BlamelessTheorem` rests on the strengthening `Blameless`: a backend that is
    never faulty is alive, closed, without failures, no request on it is reading
    the cooldown or starting a trial, and no failed probe of it is pending. The
    property alone is not inductive, because a request at `trial` would break
    it. `ReviveTheorem` follows from the action alone.
  - *Server.* `ServerImplementsPool`, so the theorems of the pool hold under the
    retry loop. `ContractTheorem`: `Spec => Exchange`, over the invariant
    `LoopInv`, which relates where a request is in the loop to where it is in
    the proxy, its attempts to what it sent, and its recorder to the reply.
    `RequestIdTheorem`: `IdInv` bounds the IDs in use by the counter and keeps
    them apart, so the next one is new.
  - *Balancer.* `BalancerImplementsServer` and with it `BalancerKeepsContract`:
    everything promised to clients holds with real strategies that are replaced
    at any time. `SentTheorem` says what the promise comes to, by an invariant
    of `Exchange` alone (`DealsOK`): one send at most where a repetition could
    do harm, and an answer for whoever is done and not cut off. `BalancerKeepsPool` collects,
    along the chain of implementations, what is proved of the parts below.
    `BalancerTypeCorrect` says among others that the index drawn from the
    counter is one of the slice. `RetriesTheorem`: its invariant
    `SweepInv` looks backwards from the counter. For a request alone with its
    instance, the backends drawn last, as many as its attempts and the loop's,
    were each tried or did not stay available; `SweptAll` says that
    `NumBackends` draws are all backends, and `Successor` that the next number
    points at the next backend, unless the counter wraps, which `alone` excludes.
- **RoundRobinProofs.** `SoleTheorem` looks backwards from the counter as well,
  over one call and within a lap: where the counter wraps the sequence of
  backends is broken, so `Swept` goes back to the start of the lap only. It is
  proved for counters smaller than the number of backends too.
  `FairTheorem`: `Share` counts the requests dealt to a backend; `Dealt` says
  that two of them differ by at most the laps, plus one where the first has had
  its turn in this round (`Early`) and the other has not. The bound of
  `FairShare` alone is not inductive, as it does not say whose turn it is.
- **ConsistentHashProofs.** `SoundTheorem`, `RoomTheorem`, `OwnerTheorem`. The
  invariant has one part for all calls (what the loops have passed is taken in)
  and one for those that are *clean*: nobody else is between its two stores, and
  `Whole` says at each step what length, pointer and bounds have to do with each
  other, down to the key's place being between `lo` and `hi`. The lemmas are
  about rings: `NodeCount` (`VirtualNodes` nodes for each backend, so the length
  the code compares is that of the ring), `NodeExists` (each index has a node)
  and `OwnerFollows` (the node at the key's place, or the first, is the owner).
  `StaysTheorem` is what the strategy is for: a ring that loses other backends
  keeps the owner of the key (`OwnerStays`), because no two nodes are as far
  from the key (`OwnerFirst`).
- **LeastMetricProofs.** `TypeCorrect`, `ScanTheorem` and `LeastTheorem`, over an
  invariant about the backends the scan has passed.
- **RateLimiterProofs.** `WindowTheorem`: the invariant says that the grants
  remembered of a key include all that are still valid, unless the settings
  changed within a window, and that those remembered since are at most `max`;
  the serial numbers make counting exact. `DeniedTheorem`: what is remembered
  was granted.
- **DashboardProofs.** `TypeCorrect`, `WholeTheorem`, `ScreenedTheorem`,
  `CutTheorem`, `ShutTheorem`, for any requests, forms, limits and sizes. The
  invariant is the types, `LimitsWhole`, and three parts: `LockOK` (at most one
  form is between its two stores, and one of its limits is in place),
  `ChecksOK` (what is known of a request after each check, and that `lowered`
  is set if the limit has gone below what it was checked against), and `ShutOK`
  (once shut with nothing under way, nobody gets as far as a form).
- **TimedHealthProofs.** `Shown`, `Quiet`, `Back`, `Toggles`. `Within(b, t)`
  says that `t` may be the time since the last reported check of `b`, from where
  the checker is in its round, the time it has spent and whether a tick waits in
  the channel. `Aware`, `Renewed` and `Spared` say with it that a verdict is
  wrong only until the next report, that the last report of an ill backend
  renewed the cooldown, and that nothing is recorded against one that has been
  well for a probe; the three properties are what remains of them after
  `Reaction` or `Rotation`. `Spared`, like `BackInTime`, needs plain clients.
  `Pressed` says which presses may be under way for
  the flags that are expected, which `Toggles` needs. `WellTheorem` needs none of
  the times: with plain clients a backend that is neither slow nor toggled keeps
  its place, since no answer is taken for another's.
  `TimedHealthImplementsBackend`: the steps against the clock are methods, ticks
  or stutters, as those of the pool are, so `ThresholdTheorem` and `TrialTheorem`
  are about them too.
- **LifecycleProofs.** `TypeCorrect`, `CheckedTheorem`, `WholeTheorem` and
  `SettledTheorem`, over any number of crashes and restarts, and `SoundTheorem`,
  for any environment. `CheckedTheorem` rests on `CancelledByEnd`,
  which says who can have cancelled the context;
  `FilesFollow` says what stands in the certificate file at each step of its
  generation, without which a certificate written next to another pair's key
  could not be excluded. `BuiltBackends` follows the list of backends from the
  variable to `NewBackend`.

The inductive invariants were model-checked on the instances of section 3 first.

Only model-checked: liveness (`Recovery`, `RequestsEnd`,
`RotationRestored`, `CheckerStops`, `SignalObeyed`), which needs `ENABLED`.

## 6. Where code and comments disagree

One is a run of its own, with a counterexample:

- `SuccessIsSent` (server/http_server.go:116): the recorder hands the first
  attempt's status to the client at once; a retry that succeeds is sent under
  the 502 or 503 of the first attempt.

Others were met while modelling, and the properties above are stated around
them:

- backend/backend.go:110 says that a backend gives up being half-open after a
  while: `HalfOpenRetryWindow` is never read and `RecordFailure` opens closed
  circuits only, so a backend that keeps failing stays half-open and admits
  every request. `Recovery` is about those that behave again.
- strategy/consistent_hash.go:100 says that the ring corresponds to the current
  backends: `validateRing` compares lengths, so when one backend goes as another
  comes the ring is kept, and the one that has gone may be returned.
  `RoomForAll` is what holds.
- structure.md:95 says that requests go to healthy backends only. They do
  while its circuit is open (`QuietWhileDown`), not before the threshold is
  reached nor once it is half-open.
- The trial of an open circuit is decided by reads that are stale by the write,
  and any number of requests may be on trial (`BackendPool`; the comment at
  backend.go:105 says a single one). `ClosesThroughTrial` and `Recovery` are
  what remains true.
- A half-open circuit admits requests whatever the last check said.
- Errors of the client count against the backend, and renew its cooldown while
  its circuit is open, hence `PlainClients` in `BlamelessKept` and `BackInTime`.
- After a failed listener the health checker ends while connections that were
  kept alive are still served, by the last verdicts, until a signal comes.
  `CheckedWhileAccepting` is about new connections.
- A maximum of 0 for headers lets requests through that have no header but
  `Host`, which `net/http` takes out of them; it takes a negative one, or a rate
  of none, to shut out everybody (`Shut`).
- With rounds that are longer than the cooldown, as with many backends that time
  out, an ill backend is tried again between two checks: `QuietWhileDown` has
  the opposite as its hypothesis. `SoundAlone` and `FindsOwner` leave calls out
  that overlap a rebuild of the ring: those may index past it and panic.
- A panic leaks a connection count, hence `leaked` in `ConnectionsAccounted`.
  A retry can cause it by itself (`Overflows`).
- Round-robin calls that interleave may all miss the only available backend,
  hence `alone` and `InOneLap` in `SoleFinds`.
- A backend without a recorded latency is preferred, not avoided
  (latency.go:9), and the key of the rate limiter includes the port
  (README.md:23 says per IP).
- A shutdown drops the requests under way (main.go:201 says graceful).
- Two presses of the toggle button that overlap may count as one, and the
  dashboard may report a failure of one that then succeeds.

## 7. What is not modelled

The bytes of requests and answers, headers other than `X-Request-ID`, how keys
are made from addresses; the weights, which nothing uses; the two constant
health endpoints.

Of the dashboard: the checks and the timeout of `handleToggleBackend`, which
are its own and change nothing; `handleTest` and `handleSendRequests`, which send requests or
call `Allow` as anybody may, so that the modules have their effects already;
and what formats statistics and the page, most of the file's lines.

Of TLS: two processes that share the certificate files at the same time,
crashes of the operating system (writes are taken to last once they returned),
and `HTTPSRedirectMiddleware`, which is never installed. Reading the files
fails only if they do not match.

Of the metrics: the counters, which are registered and never updated. Logging.
The racing stores of equivalent handlers in `NewProxy`, which leave no trace.

The window of the rate limiter is not in `Dashboard`, nor the strategies that go
by a metric or a hash in `Balancer`: their own modules have them, and there they
may do anything. `PROJECT.json` lists every component with its status.

## 8. Plan

Done, in this order because the breaker is what everything else goes through:
`Backend`, `HealthChecker`, `Proxy`, `BackendPool` and proofs; `Server` over
`Exchange` and proofs; the limiters; the strategies; `Lifecycle` with `Startup`
and `Certificates`, and proofs; `Balancer`, which composes `Server` with
strategy and controller, and proofs; `DemoBackend` and `TimedHealth`;
`Dashboard`, and proofs; then `RoundRobin`, `ConsistentHash`, `TimedHealth` and
the environment in `Lifecycle`, proved for all values of their constants; then
`AverageWithin` and the theorems that gather what the parts promise.

Every safety property of section 3 is proved. What is left is liveness, which
these provers do not reach. Two refinements were considered and left: the calls
of `Balancer` are not those of `RoundRobin` step by step, because a step of it
may change the availability of a backend while `RoundRobin` turns it in a step of
its own; `RetriesTheorem` says directly what the retry loop needs of the
strategy. And `Dashboard` takes the
actions of `RequestLimiter` as they are, so there is nothing to map: the
theorems of `DashboardProofs` are about them.
