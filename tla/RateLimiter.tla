---------------------------- MODULE RateLimiter ----------------------------
(***************************************************************************)
(* middleware/ratelimit.go: a sliding window of grants for each key, with  *)
(* limits the dashboard may change at any time.                            *)
(*                                                                         *)
(* Allow reads enabled without the lock and does the rest under it, so it  *)
(* is two steps.  The cleanup goroutine, SetEnabled and SetLimits hold the *)
(* lock throughout.                                                        *)
(***************************************************************************)
EXTENDS Integers, FiniteSets

CONSTANTS
  Handlers,    \* requests in the middleware at the same time
  Keys,        \* what the middleware tells clients apart by
  Limits,      \* the limits that may be set: records max, window
  MaxTime,     \* bound: ticks of the clock
  MaxGrants    \* bound: requests that pass

ASSUME LimitsAssumption == Limits \subseteq [max : Int, window : Int]
ASSUME IdleAssumption == "idle" \notin Keys

VARIABLES
  enabled,
  limits,      \* maxRequests and window, which SetLimits sets together
  requests,    \* requests[k]: the grants remembered for key k
  handler,     \* handler[h]: the key h asks for, once it has read enabled
  now,
  granted,     \* granted[k]: every grant of key k (history)
  serial,      \* how many there are, which tells them apart (history)
  changed      \* when the settings last changed (history)

settings == <<enabled, limits>>
log == <<granted, serial>>
vars == <<enabled, limits, requests, handler, now, granted, serial, changed>>

Idle == "idle"
Grants == [serial : Nat, at : Nat]

(* now.Sub(t) < rl.window                                                  *)
Valid(grants) == {g \in grants : now - g.at < limits.window}

(* The grant the next request gets.                                        *)
Fresh == [serial |-> serial, at |-> now]

Init ==
  /\ enabled \in BOOLEAN
  /\ limits \in Limits
  /\ requests = [k \in Keys |-> {}]
  /\ handler = [h \in Handlers |-> Idle]
  /\ now = 0
  /\ granted = [k \in Keys |-> {}]
  /\ serial = 0
  /\ changed = 0

Grant(k) ==
  /\ serial < MaxGrants
  /\ granted' = [granted EXCEPT ![k] = @ \cup {Fresh}]
  /\ serial' = serial + 1

----------------------------------------------------------------------------
(* Allow, without the lock.                                                *)

(* A disabled limiter lets the request pass and remembers nothing of it.   *)
Bypass(h, k) ==
  /\ handler[h] = Idle
  /\ ~enabled
  /\ Grant(k)
  /\ UNCHANGED <<settings, requests, handler, now, changed>>

Enter(h, k) ==
  /\ handler[h] = Idle
  /\ enabled
  /\ handler' = [handler EXCEPT ![h] = k]
  /\ UNCHANGED <<settings, requests, now, log, changed>>

(* Mutant: one request too many.                                           *)
Accept_OneTooMany(h, k) ==
  /\ handler[h] = k
  /\ Cardinality(Valid(requests[k])) <= limits.max
  /\ Grant(k)
  /\ requests' = [requests EXCEPT ![k] = Valid(@) \cup {Fresh}]
  /\ handler' = [handler EXCEPT ![h] = Idle]
  /\ UNCHANGED <<settings, now, changed>>

(* Allow, under the lock.  The expired grants are dropped either way.      *)
Accept(h, k) ==
  /\ handler[h] = k
  /\ Cardinality(Valid(requests[k])) < limits.max
  /\ Grant(k)
  /\ requests' = [requests EXCEPT ![k] = Valid(@) \cup {Fresh}]
  /\ handler' = [handler EXCEPT ![h] = Idle]
  /\ UNCHANGED <<settings, now, changed>>

(* Mutant: expired grants count until the next cleanup.                    *)
Deny_ExpiredCount(h, k) ==
  /\ handler[h] = k
  /\ Cardinality(requests[k]) >= limits.max
  /\ requests' = [requests EXCEPT ![k] = Valid(@)]
  /\ handler' = [handler EXCEPT ![h] = Idle]
  /\ UNCHANGED <<settings, now, log, changed>>

Deny(h, k) ==
  /\ handler[h] = k
  /\ Cardinality(Valid(requests[k])) >= limits.max
  /\ requests' = [requests EXCEPT ![k] = Valid(@)]
  /\ handler' = [handler EXCEPT ![h] = Idle]
  /\ UNCHANGED <<settings, now, log, changed>>

(* One round of cleanup: expired grants go, and keys without a valid one.  *)
Cleanup ==
  /\ requests' = [k \in Keys |-> Valid(requests[k])]
  /\ UNCHANGED <<settings, handler, now, log, changed>>

SetEnabled(value) ==
  /\ enabled' = value
  /\ changed' = now
  /\ UNCHANGED <<limits, requests, handler, now, log>>

(* The grants remembered under the old limits stay as they are.            *)
SetLimits(new) ==
  /\ limits' = new
  /\ changed' = now
  /\ UNCHANGED <<enabled, requests, handler, now, log>>

Tick ==
  /\ now < MaxTime
  /\ now' = now + 1
  /\ UNCHANGED <<settings, requests, handler, log, changed>>

Next ==
  \/ \E h \in Handlers, k \in Keys :
       Bypass(h, k) \/ Enter(h, k) \/ Accept(h, k) \/ Deny(h, k)
  \/ Cleanup
  \/ \E value \in BOOLEAN : SetEnabled(value)
  \/ \E new \in Limits : SetLimits(new)
  \/ Tick

Spec == Init /\ [][Next]_vars

----------------------------------------------------------------------------
TypeOK ==
  /\ enabled \in BOOLEAN
  /\ limits \in Limits
  /\ requests \in [Keys -> SUBSET Grants]
  /\ handler \in [Handlers -> Keys \cup {Idle}]
  /\ now \in Nat
  /\ granted \in [Keys -> SUBSET Grants]
  /\ serial \in Nat
  /\ changed \in 0 .. now

(* Once the settings have stood for a whole window, at most max requests   *)
(* of a key passed within the last window, whatever the cleanup forgot and *)
(* whoever read enabled before it was set (Allow, cleanup, SetLimits).     *)
WindowKept ==
  enabled /\ now - changed >= limits.window =>
    \A k \in Keys :
      \/ Valid(granted[k]) = {}
      \/ Cardinality(Valid(granted[k])) <= limits.max

(* No request is denied while fewer than max passed within the window:     *)
(* denials, and grants older than the window, do not count against it.     *)
DeniedOnlyWhenFull ==
  [][\A k \in Keys :
       (\E h \in Handlers : handler[h] = k /\ handler'[h] = Idle)
         /\ UNCHANGED granted
           => Cardinality(Valid(granted[k])) >= limits.max]_vars
=============================================================================
