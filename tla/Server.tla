------------------------------- MODULE Server ------------------------------
(***************************************************************************)
(* server/http_server.go: Server.ServeHTTP, the loop that asks a strategy  *)
(* for a backend, proxies the request to it and retries, over everything   *)
(* of module BackendPool.                                                  *)
(*                                                                         *)
(* The recorder of an attempt hands every write on to the client at once:  *)
(* the first attempt that writes a status fixes the one the client sees,   *)
(* and the bodies of later attempts follow the first.                      *)
(*                                                                         *)
(* A strategy is any backend or none, at any time (the strategies have     *)
(* modules of their own).                                                  *)
(***************************************************************************)
EXTENDS BackendPool

CONSTANTS
  MaxRetries,  \* 2 in the code
  MaxIDs       \* bound: request IDs that are handed out

ASSUME MaxRetriesAssumption == MaxRetries \in Nat
ASSUME MaxIDsAssumption == MaxIDs \in Nat

VARIABLES
  call,            \* call[r]: the variables of ServeHTTP and what it sent
  requestCounter   \* the counter all proxies share

serverVars == <<call, requestCounter>>
vars == <<poolVars, serverVars>>

(* 502, 503 and 504 are one status, all others another.                    *)
Status == {"final", "retryable"}
isRetryableStatus(status) == status = "retryable"

NoID == 0
ClientID == -1    \* the request came with an X-Request-ID

Fresh ==
  [at        |-> "idle",
   retryable |-> FALSE,    \* isRetryableMethod(r.Method)
   attempt   |-> 0,
   status    |-> "none",   \* rec.status: what the attempt wrote, if anything
   reply     |-> "none",   \* the status written to the client
   sized     |-> FALSE,    \* did the reply declare its length?
   sends     |-> 0,        \* requests sent to backends (history)
   id        |-> NoID]     \* the X-Request-ID header

ServerInit == call = [r \in Requests |-> Fresh] /\ requestCounter = 0

(* WriteHeader(status), through a recorder or not, and the body after it.  *)
Written(c, status, sized) ==
  [c EXCEPT !.status = status,
            !.reply  = IF c.reply = "none" THEN status ELSE @,
            !.sized  = IF c.reply = "none" THEN sized ELSE @]

WriteError(r) == call' = [call EXCEPT ![r] = Written(@, "retryable", FALSE)]

At(r, place) == call[r].at = place
Move(r, place) == call' = [call EXCEPT ![r].at = place]

----------------------------------------------------------------------------
(* The requests that may still ask for an ID.                              *)
Unnamed == {q \in Requests : ~At(q, "idle") /\ call[q].id = NoID}

(* A client sends a request.                                               *)
Begin(r) ==
  /\ At(r, "idle")
  /\ \E retryable \in BOOLEAN, id \in {NoID, ClientID} :
       /\ id = NoID => requestCounter + Cardinality(Unnamed) < MaxIDs
       /\ call' = [call EXCEPT ![r].at = "choose", ![r].retryable = retryable,
                               ![r].id = id]
  /\ UNCHANGED <<proxyVars, backendVars, requestCounter>>

(* strat.NextBackend returned b: a new Proxy for b, and a new recorder.    *)
Choose(r, b) ==
  /\ At(r, "choose")
  /\ Start(r, b)
  /\ call' = [call EXCEPT ![r].at = "proxy", ![r].status = "none"]
  /\ UNCHANGED requestCounter

(* strat.NextBackend returned nil: 503, whatever attempt this is.          *)
NoBackend(r) ==
  /\ At(r, "choose")
  /\ call' = [call EXCEPT ![r] =
                [Written(@, "retryable", FALSE) EXCEPT !.at = "done"]]
  /\ UNCHANGED <<proxyVars, backendVars, requestCounter>>

----------------------------------------------------------------------------
(* Proxy.ServeHTTP, with what it writes.                                   *)

Rejected(r) == Reject(r) /\ WriteError(r) /\ UNCHANGED requestCounter

(* The steps that write nothing for the client.                            *)
Silent(r) ==
  /\ Admit(r) \/ TrialStep(r) \/ Track(r) \/ HandleSuccess(r) \/ Measure(r)
       \/ Release(r)
  /\ UNCHANGED serverVars

(* Mutant: every attempt gets an ID of its own.                            *)
Prepared_Anew(r) ==
  /\ Prepare(r)
  /\ requestCounter' = requestCounter + 1
  /\ call' = [call EXCEPT ![r].id = requestCounter + 1, ![r].sends = @ + 1]

(* prepareRequest sets X-Request-ID on the request of the client if it is  *)
(* not there, so the next attempt finds it; then the request is sent.      *)
Prepared(r) ==
  /\ Prepare(r)
  /\ IF call[r].id = NoID
       THEN /\ requestCounter' = requestCounter + 1
            /\ call' = [call EXCEPT ![r].id = requestCounter + 1,
                                    ![r].sends = @ + 1]
       ELSE /\ call' = [call EXCEPT ![r].sends = @ + 1]
            /\ UNCHANGED requestCounter

Failed(r) ==
  /\ UpstreamError(r) \/ ClientError(r)
  /\ WriteError(r)
  /\ UNCHANGED requestCounter

(* The status of the backend's answer, and its body.                       *)
Copied(r) ==
  /\ CopyBody(r)
  /\ \E status \in Status, sized \in BOOLEAN :
       call' = [call EXCEPT ![r] = Written(@, status, sized)]
  /\ UNCHANGED requestCounter

(* Only the recorder of a retryable request hides the Hijacker.            *)
Refused(r) ==
  /\ call[r].retryable
  /\ UpgradeRefused(r)
  /\ WriteError(r)
  /\ UNCHANGED requestCounter

(* A body after that of an earlier reply which declared its length: the    *)
(* write fails with ErrContentLength.                                      *)
Overflows(r) == call[r].reply # "none" /\ call[r].sized

Aborted(r) ==
  /\ MayFail(on[r]) \/ ~PlainClients \/ Overflows(r)
  /\ AbortCopy(r)
  /\ \E status \in Status, sized \in BOOLEAN :
       call' = [call EXCEPT ![r] = Written(@, status, sized)]
  /\ UNCHANGED requestCounter

----------------------------------------------------------------------------
(* After Proxy.ServeHTTP.                                                  *)

(* The only attempt of a request that must not be repeated, or a success   *)
(* or failure that is not to be retried.  Its status has been written.     *)
SendResponse(r) ==
  /\ pc[r] = "returned"
  /\ Finish(r)
  /\ call[r].retryable => ~isRetryableStatus(call[r].status)
  /\ Move(r, "done")
  /\ UNCHANGED requestCounter

(* Mutant: the method of the request is not looked at.                     *)
MayRetry_AnyMethod(r) == isRetryableStatus(call[r].status)

MayRetry(r) == call[r].retryable /\ isRetryableStatus(call[r].status)

(* Mutants: one retry too many; the attempts are not counted.              *)
Retry_OneTooMany(r) ==
  /\ pc[r] = "returned"
  /\ Finish(r)
  /\ MayRetry(r) /\ call[r].attempt <= MaxRetries
  /\ call' = [call EXCEPT ![r].at = "choose", ![r].attempt = @ + 1]
  /\ UNCHANGED requestCounter

Retry_Uncounted(r) ==
  /\ pc[r] = "returned"
  /\ Finish(r)
  /\ MayRetry(r) /\ call[r].attempt < MaxRetries
  /\ call' = [call EXCEPT ![r].at = "choose"]
  /\ UNCHANGED requestCounter

Retry(r) ==
  /\ pc[r] = "returned"
  /\ Finish(r)
  /\ MayRetry(r) /\ call[r].attempt < MaxRetries
  /\ call' = [call EXCEPT ![r].at = "choose", ![r].attempt = @ + 1]
  /\ UNCHANGED requestCounter

(* http.Error(w, "Request failed after retries", lastStatus)               *)
GiveUp(r) ==
  /\ pc[r] = "returned"
  /\ Finish(r)
  /\ MayRetry(r) /\ call[r].attempt = MaxRetries
  /\ call' = [call EXCEPT ![r] =
                [Written(@, @.status, FALSE) EXCEPT !.at = "done"]]
  /\ UNCHANGED requestCounter

(* The panic ends the handler; net/http closes the connection, and what    *)
(* it had buffered, the status line perhaps, is lost.                      *)
Unwind(r) ==
  /\ pc[r] = "aborted"
  /\ Finish(r)
  /\ Move(r, "cut")
  /\ UNCHANGED requestCounter

Leave(r) ==
  /\ call[r].at \in {"done", "cut"}
  /\ call' = [call EXCEPT ![r] = Fresh]
  /\ UNCHANGED <<proxyVars, backendVars, requestCounter>>

----------------------------------------------------------------------------
Init == PoolInit /\ ServerInit

NextBackend(r) == NoBackend(r) \/ \E b \in Backends : Choose(r, b)

Attempt(r) ==
  Rejected(r) \/ Silent(r) \/ Prepared(r) \/ Failed(r) \/ Copied(r)
    \/ Refused(r) \/ Aborted(r)

(* It is up to the backend and the client when these end.                  *)
Outside(r) == pc[r] \in {"upstream", "copy"}

Decide(r) == SendResponse(r) \/ Retry(r) \/ GiveUp(r) \/ Unwind(r)

ServerStep(r) ==
  Begin(r) \/ NextBackend(r) \/ Attempt(r) \/ Decide(r) \/ Leave(r)

Next ==
  \/ /\ \E r \in Requests : ServerStep(r)
     /\ UNCHANGED <<healthVars, up>>
  \/ /\ CheckerStep \/ ClockStep \/ OutsideStep
     /\ UNCHANGED serverVars

Spec == Init /\ [][Next]_vars

(* Goroutines are scheduled.  Whether a round trip or a copy ends, and     *)
(* whether anything else ever happens, is left open.                       *)
Fairness ==
  \A r \in Requests :
    /\ WF_vars(Quietly(NextBackend(r) \/ Decide(r)))
    /\ WF_vars(Quietly(~Outside(r) /\ Attempt(r)))

FairSpec == Spec /\ Fairness

----------------------------------------------------------------------------
Calls ==
  [at        : {"idle", "choose", "proxy", "done", "cut"},
   retryable : BOOLEAN,
   attempt   : 0 .. MaxRetries,
   status    : Status \cup {"none"},
   reply     : Status \cup {"none"},
   sized     : BOOLEAN,
   sends     : Nat,
   id        : Nat \cup {ClientID}]

ServerTypeOK == call \in [Requests -> Calls] /\ requestCounter \in Nat

TypeOK == PoolTypeOK /\ ServerTypeOK

(* A request keeps its X-Request-ID over its attempts, and the IDs the     *)
(* balancer hands out are distinct: the logs of the backends can be joined *)
(* on it (prepareRequest, called by every attempt of every goroutine).     *)
RequestIdKept ==
  [][\A r \in Requests :
       /\ call[r].id # NoID /\ ~At(r, "idle") /\ ~At(r, "idle")'
            => call'[r].id = call[r].id
       /\ \A q \in Requests \ {r} :
            call'[r].id \notin {NoID, ClientID} => call'[q].id # call'[r].id]_vars

(* What a client sees of a request.                                        *)
Deal(c) ==
  [phase     |-> IF c.at = "idle" THEN "none"
                 ELSE IF c.at \in {"choose", "proxy"} THEN "open"
                 ELSE IF c.at = "done" THEN "closed" ELSE "cut",
   retryable |-> c.retryable,
   tries     |-> c.sends,
   answer    |-> IF c.status = "final" THEN "final"
                 ELSE IF c.reply = "none" THEN "none" ELSE "given"]

Deals == [r \in Requests |-> Deal(call[r])]

Client == INSTANCE Exchange WITH deal <- Deals

(* The loop keeps the promises of Exchange: a request that may change      *)
(* something is sent once, any other at most MaxRetries + 1 times and      *)
(* never after a final answer, and none is closed without a status, unless *)
(* an answer that was begun breaks off.                                    *)
Contract == Client!Spec

(* Nothing in the balancer holds a request: if the backends and the client *)
(* let each of its round trips and copies end, for which the server and    *)
(* the transport have no timeout of their own where bodies are concerned,  *)
(* it comes to its end, through whatever trials, rejections and retries    *)
(* (the loop of ServeHTTP, the gate of the proxy).                         *)
RequestsEnd ==
  \A r \in Requests :
    (Outside(r) ~> ~Outside(r)) =>
      (At(r, "choose") ~> call[r].at \in {"done", "cut"})
=============================================================================
