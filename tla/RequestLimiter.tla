--------------------------- MODULE RequestLimiter --------------------------
(***************************************************************************)
(* middleware/requestlimit.go with the part of the dashboard that sets it  *)
(* (handleConfig in ui/dashboard.go).                                      *)
(*                                                                         *)
(* SetEnabled, SetLimits and GetStats take the lock.  The middleware reads *)
(* enabled, maxHeaderSize and, twice, maxBodySize without it, so it may    *)
(* see the first store of a SetLimits before the second, in either order.  *)
(***************************************************************************)
EXTENDS Integers

CONSTANTS
  Requests,   \* requests in the middleware at the same time
  Posts,      \* dashboard forms submitted at the same time
  Limits,     \* the limits a form may set, any numbers: records body, header
  Sizes       \* sizes of headers and bodies

ASSUME LimitsAssumption == Limits \subseteq [body : Int, header : Int]
ASSUME SizesAssumption == Sizes \subseteq Nat

VARIABLES
  enabled,
  limits,    \* maxBodySize and maxHeaderSize
  post,      \* post[p]: where handleConfig is, and the limits of the form
  req,       \* req[r]: where the middleware is, the request, and its cap
  widest,    \* widest[r]: the greatest of each limit during r (history)
  lowered    \* lowered[r]: the body limit went down during r (history)

limiterVars == <<enabled, limits, post, req, widest, lowered>>

Unknown == -1    \* ContentLength of a chunked body
NoCap == -1

NoForm == [at |-> "idle", form |-> CHOOSE l \in Limits : TRUE]
NoRequest == [at |-> "idle", header |-> 0, length |-> Unknown, cap |-> NoCap]

LimiterInit ==
  /\ enabled \in BOOLEAN
  /\ limits \in Limits
  /\ post = [p \in Posts |-> NoForm]
  /\ req = [r \in Requests |-> NoRequest]
  /\ widest = [r \in Requests |-> limits]
  /\ lowered = [r \in Requests |-> FALSE]

GreaterOf(m, n) == IF m < n THEN n ELSE m

(* The lock is held between the two stores of a SetLimits.                 *)
Free == \A p \in Posts : post[p].at \notin {"body", "header"}

----------------------------------------------------------------------------
(* handleConfig.                                                           *)

(* A form may set enabled, or leave it; then it may set the limits.  One   *)
(* whose max_body_size is no number leaves them, and is told "ok".  Which  *)
(* forms get here is in module Dashboard.                                  *)
SetEnabled(p) ==
  /\ post[p].at = "enable" /\ Free
  /\ enabled' \in BOOLEAN
  /\ post' = [post EXCEPT ![p].at = "limits"]
  /\ UNCHANGED <<limits, req, widest, lowered>>

Store(new) ==
  /\ limits' = new
  /\ widest' = [r \in Requests |->
                  [body   |-> GreaterOf(widest[r].body, new.body),
                   header |-> GreaterOf(widest[r].header, new.header)]]
  /\ lowered' = [r \in Requests |-> lowered[r] \/ new.body < limits.body]
  /\ UNCHANGED <<enabled, req>>

StoreBody(p)   == Store([limits EXCEPT !.body = post[p].form.body])
StoreHeader(p) == Store([limits EXCEPT !.header = post[p].form.header])

(* Mutant: without the lock.                                               *)
SetFirst_Unlocked(p) ==
  /\ post[p].at = "limits"
  /\ \/ StoreBody(p) /\ post' = [post EXCEPT ![p].at = "header"]
     \/ StoreHeader(p) /\ post' = [post EXCEPT ![p].at = "body"]

(* SetLimits takes the lock and stores one limit, then the other.          *)
SetFirst(p) ==
  /\ post[p].at = "limits" /\ Free
  /\ \/ StoreBody(p) /\ post' = [post EXCEPT ![p].at = "header"]
     \/ StoreHeader(p) /\ post' = [post EXCEPT ![p].at = "body"]

SetSecond(p) ==
  /\ \/ post[p].at = "header" /\ StoreHeader(p)
     \/ post[p].at = "body" /\ StoreBody(p)
  /\ post' = [post EXCEPT ![p] = NoForm]

LeaveLimits(p) ==
  /\ post[p].at = "limits"
  /\ post' = [post EXCEPT ![p] = NoForm]
  /\ UNCHANGED <<enabled, limits, req, widest, lowered>>

RequestSettings(p) ==
  SetEnabled(p) \/ SetFirst(p) \/ SetSecond(p) \/ LeaveLimits(p)

----------------------------------------------------------------------------
(* Middleware.                                                             *)

Move(r, place) == req' = [req EXCEPT ![r].at = place]

(* A disabled limiter lets the request pass as it is.  The size of the     *)
(* headers may be 0, for net/http keeps Host out of r.Header.              *)
Arrive(r) ==
  /\ req[r].at = "idle"
  /\ \E header \in Sizes \cup {0}, length \in Sizes \cup {Unknown} :
       req' = [req EXCEPT ![r] =
                 [at |-> IF enabled THEN "header" ELSE "passed",
                  header |-> header, length |-> length, cap |-> NoCap]]
  /\ widest' = [widest EXCEPT ![r] = limits]
  /\ lowered' = [lowered EXCEPT ![r] = FALSE]
  /\ UNCHANGED <<enabled, limits, post>>

TooLarge(r) ==
  /\ \/ req[r].at = "header" /\ req[r].header > limits.header    \* 431
     \/ req[r].at = "length" /\ req[r].length > limits.body      \* 413
  /\ Move(r, "refused")
  /\ UNCHANGED <<enabled, limits, post, widest, lowered>>

(* Mutants: headers, and declared lengths, are not looked at.              *)
CheckHeader_Forgotten(r) ==
  /\ req[r].at = "header"
  /\ Move(r, "length")
  /\ UNCHANGED <<enabled, limits, post, widest, lowered>>

CheckLength_Forgotten(r) ==
  /\ req[r].at = "length"
  /\ Move(r, "cap")
  /\ UNCHANGED <<enabled, limits, post, widest, lowered>>

CheckHeader(r) ==
  /\ req[r].at = "header" /\ req[r].header <= limits.header
  /\ Move(r, "length")
  /\ UNCHANGED <<enabled, limits, post, widest, lowered>>

CheckLength(r) ==
  /\ req[r].at = "length" /\ req[r].length <= limits.body
  /\ Move(r, "cap")
  /\ UNCHANGED <<enabled, limits, post, widest, lowered>>

(* r.Body = http.MaxBytesReader(w, r.Body, rl.maxBodySize), which takes a  *)
(* negative limit for 0.                                                   *)
Cap(r) ==
  /\ req[r].at = "cap"
  /\ req' = [req EXCEPT ![r].at = "passed", ![r].cap = GreaterOf(0, limits.body)]
  /\ UNCHANGED <<enabled, limits, post, widest, lowered>>

Leave(r) ==
  /\ req[r].at \in {"passed", "refused"}
  /\ req' = [req EXCEPT ![r] = NoRequest]
  /\ UNCHANGED <<enabled, limits, post, widest, lowered>>

Middleware(r) ==
  TooLarge(r) \/ CheckHeader(r) \/ CheckLength(r) \/ Cap(r) \/ Leave(r)

----------------------------------------------------------------------------
LimiterTypeOK ==
  /\ enabled \in BOOLEAN
  /\ limits \in [body : {l.body : l \in Limits}, header : {l.header : l \in Limits}]
  /\ post \in [Posts -> [at : {"idle", "rateEnable", "rateLimits", "enable", "limits",
                               "body", "header"},
                         form : Limits]]
  /\ req \in [Requests ->
        [at : {"idle", "header", "length", "cap", "passed", "refused"},
         header : Sizes \cup {0}, length : Sizes \cup {Unknown},
         cap : Nat \cup {NoCap}]]
  /\ widest \in [Requests -> [body : Int, header : Int]]
  /\ lowered \in [Requests -> BOOLEAN]

(* Whoever takes the lock (GetStats) finds limits that one form set        *)
(* together, whatever forms are submitted at the same time.                *)
LimitsWhole == Free => limits \in Limits

(* A request that passes an enabled limiter was within the widest of each  *)
(* limit while it was there, and no body is read beyond it: the reads      *)
(* without the lock find limits that were in force.                        *)
Screened ==
  \A r \in Requests :
    req[r].at = "passed" /\ req[r].cap # NoCap =>
      /\ req[r].header <= widest[r].header
      /\ req[r].length <= widest[r].body
      /\ req[r].cap <= GreaterOf(0, widest[r].body)

(* A request that passes with a declared length is cut short only if the   *)
(* limit went down between the two reads of maxBodySize: otherwise it is   *)
(* refused with 413 before a backend is blamed for its broken body.        *)
CutOnlyIfLowered ==
  \A r \in Requests :
    req[r].at = "passed" /\ req[r].cap # NoCap /\ req[r].cap < req[r].length
      => lowered[r]
=============================================================================
