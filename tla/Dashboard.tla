----------------------------- MODULE Dashboard -----------------------------
(***************************************************************************)
(* The chain of handlers main builds (cmd/main.go): the rate limiter, then *)
(* the request limiter (module RequestLimiter), then the dashboard and the *)
(* balancer.  The dashboard's forms set both limiters (handleConfig in     *)
(* ui/dashboard.go), and come through both of them themselves.             *)
(*                                                                         *)
(* The rate limiter's window is in module RateLimiter.  Here it may refuse *)
(* anything while it is enabled, and refuses everything when its maximum   *)
(* is not positive.                                                        *)
(***************************************************************************)
EXTENDS RequestLimiter

CONSTANTS
  RateMaxes    \* the rate limits a form may set

ASSUME PostsAssumption == Posts \subseteq Requests
ASSUME RateMaxesAssumption == RateMaxes \subseteq Int

VARIABLES
  rate,    \* rate.enabled and rate.max of the rate limiter
  locked   \* there was a time when nothing was under way and no request
           \* could pass (history)

vars == <<limiterVars, rate, locked>>

(* Settings that let no request pass.  (A request with nothing but Host    *)
(* has headers of size 0, and one that does not declare its length has -1  *)
(* for it, so these are not too small for a limit.)                        *)
Shut ==
  \/ rate.enabled /\ rate.max <= 0
  \/ enabled /\ (limits.header < 0 \/ limits.body < Unknown)

Init ==
  /\ LimiterInit
  /\ rate \in [enabled : BOOLEAN, max : RateMaxes]
  /\ locked = Shut

----------------------------------------------------------------------------
(* Mutant: only the balancer's own requests go through the limiters.       *)
Come_FormsFree(r) ==
  \/ /\ ~rate.enabled \/ rate.max > 0
     /\ Arrive(r)
     /\ UNCHANGED rate
  \/ /\ r \in Posts /\ req[r].at = "idle"
     /\ req' = [req EXCEPT ![r] = [NoRequest EXCEPT !.at = "passed"]]
     /\ UNCHANGED <<enabled, limits, post, widest, lowered, rate>>

(* A request gets past the rate limiter; a form that was posted is in the  *)
(* handler until it is done.                                               *)
Come(r) ==
  /\ r \in Posts => post[r].at = "idle"
  /\ ~rate.enabled \/ rate.max > 0
  /\ Arrive(r)
  /\ UNCHANGED rate

(* ParseForm reads the query, and a body only if it is a form: one that is *)
(* longer than its cap fails (Leave), or is not looked at.  A form sets    *)
(* any of the four, in this order.                                         *)
Stages == <<"rateEnable", "rateLimits", "enable", "limits">>

From(i) == {Stages[j] : j \in i .. 4}

Submit(p) ==
  /\ req[p].at = "passed" /\ post[p].at = "idle"
  /\ \E form \in Limits, at \in From(1) :
       post' = [post EXCEPT ![p] = [at |-> at, form |-> form]]
  /\ req' = [req EXCEPT ![p] = NoRequest]
  /\ UNCHANGED <<enabled, limits, widest, lowered, rate>>

RateEnable(p) ==
  /\ post[p].at = "rateEnable"
  /\ \E value \in BOOLEAN : rate' = [rate EXCEPT !.enabled = value]
  /\ \E at \in From(2) : post' = [post EXCEPT ![p].at = at]
  /\ UNCHANGED <<enabled, limits, req, widest, lowered>>

RateLimits(p) ==
  /\ post[p].at = "rateLimits"
  /\ \E max \in RateMaxes : rate' = [rate EXCEPT !.max = max]
  /\ \E at \in From(3) : post' = [post EXCEPT ![p].at = at]
  /\ UNCHANGED <<enabled, limits, req, widest, lowered>>

handleConfig(p) ==
  Submit(p) \/ RateEnable(p) \/ RateLimits(p) \/ (RequestSettings(p) /\ UNCHANGED rate)

Step ==
  \/ \E r \in Requests : Come(r) \/ (Middleware(r) /\ UNCHANGED rate)
  \/ \E p \in Posts : handleConfig(p)

Quiet ==
  /\ \A r \in Requests : req[r].at = "idle"
  /\ \A p \in Posts : post[p].at = "idle"

Next == Step /\ locked' = (locked \/ (Shut /\ Quiet)')

Spec == Init /\ [][Next]_vars

----------------------------------------------------------------------------
TypeOK ==
  /\ LimiterTypeOK
  /\ rate \in [enabled : BOOLEAN, max : RateMaxes]
  /\ locked \in BOOLEAN

(* Settings that let no request pass stay for good, unless a form was on   *)
(* its way already: the one that would take them back does not get in, for *)
(* the dashboard is behind the limiters it sets (main, handleConfig).      *)
ShutForGood == locked => Shut
=============================================================================
