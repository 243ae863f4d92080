------------------------- MODULE RateLimiterProofs -------------------------
(***************************************************************************)
(* Proofs about module RateLimiter, for any keys, limits, requests and     *)
(* times of cleanup.                                                       *)
(***************************************************************************)
EXTENDS RateLimiter, TLAPS, FiniteSetTheorems

(* The grants of k since the settings changed that still count.            *)
Recent(k) == {g \in granted[k] : g.at > changed /\ now - g.at < limits.window}

(* The limiter remembers them all while it is enabled.  WindowKept alone   *)
(* is not inductive: it says nothing of what Allow will count.             *)
Remembered ==
  enabled => \A k \in Keys :
    /\ Recent(k) \subseteq requests[k]
    /\ Recent(k) = {} \/ Cardinality(Recent(k)) <= limits.max

LogOK ==
  \A k \in Keys :
    /\ requests[k] \subseteq granted[k]
    /\ IsFiniteSet(granted[k])
    /\ \A g \in granted[k] : g.at <= now /\ g.serial < serial

IInv == TypeOK /\ LogOK /\ Remembered

LEMMA SettingsType ==
  ASSUME TypeOK
  PROVE  /\ limits.max \in Int /\ limits.window \in Int
         /\ now \in Nat /\ changed \in Nat /\ changed <= now /\ serial \in Nat
         /\ Fresh \in Grants /\ Fresh.at = now /\ Fresh.serial = serial
         /\ \A k \in Keys : \A g \in granted[k] : g.at \in Nat /\ g.serial \in Nat
BY LimitsAssumption DEF TypeOK, Grants, Fresh

(* A subset of a finite set that is empty or small enough stays so.        *)
LEMMA SmallSubset ==
  ASSUME NEW S, IsFiniteSet(S), NEW T \in SUBSET S, NEW n \in Int,
         S = {} \/ Cardinality(S) <= n
  PROVE  T = {} \/ Cardinality(T) <= n
<1>1. CASE S = {}
  BY <1>1
<1>2. CASE Cardinality(S) <= n
  <2>1. /\ IsFiniteSet(T) /\ Cardinality(T) <= Cardinality(S)
    BY FS_Subset
  <2>2. Cardinality(S) \in Nat /\ Cardinality(T) \in Nat
    BY <2>1, FS_CardinalityType
  <2> QED BY <1>2, <2>1, <2>2
<1> QED BY <1>1, <1>2

(* Fewer than n and one more is at most n.                                 *)
LEMMA OneMore ==
  ASSUME NEW S, IsFiniteSet(S), NEW x, NEW n \in Int, Cardinality(S) < n
  PROVE  IsFiniteSet(S \cup {x}) /\ Cardinality(S \cup {x}) <= n
<1>1. Cardinality(S) \in Nat
  BY FS_CardinalityType
<1>2. Cardinality(S \cup {x})
        = IF x \in S THEN Cardinality(S) ELSE Cardinality(S) + 1
  BY FS_AddElement
<1> QED BY <1>1, <1>2, FS_AddElement

----------------------------------------------------------------------------
(* Type correctness.                                                       *)

LEMMA TypeInit == Init => TypeOK
BY DEF Init, TypeOK

LEMMA TypeStep == TypeOK /\ [Next]_vars => TypeOK'
<1> SUFFICES ASSUME TypeOK, [Next]_vars PROVE TypeOK'
  OBVIOUS
<1> USE DEF TypeOK, settings, log
<1>0. Fresh \in Grants
  BY SettingsType
<1>1. ASSUME NEW h \in Handlers, NEW k \in Keys, Bypass(h, k) PROVE TypeOK'
  BY <1>0, <1>1 DEF Bypass, Grant
<1>2. ASSUME NEW h \in Handlers, NEW k \in Keys, Enter(h, k) PROVE TypeOK'
  BY <1>2 DEF Enter
<1>3. ASSUME NEW h \in Handlers, NEW k \in Keys, Accept(h, k) PROVE TypeOK'
  BY <1>0, <1>3 DEF Accept, Grant, Valid
<1>4. ASSUME NEW h \in Handlers, NEW k \in Keys, Deny(h, k) PROVE TypeOK'
  BY <1>4 DEF Deny, Valid
<1>5. CASE Cleanup
  BY <1>5 DEF Cleanup, Valid
<1>6. ASSUME NEW value \in BOOLEAN, SetEnabled(value) PROVE TypeOK'
  BY <1>6 DEF SetEnabled
<1>7. ASSUME NEW new \in Limits, SetLimits(new) PROVE TypeOK'
  BY <1>7 DEF SetLimits
<1>8. CASE Tick
  BY <1>8 DEF Tick
<1>9. CASE UNCHANGED vars
  BY <1>9 DEF vars
<1> QED BY <1>1, <1>2, <1>3, <1>4, <1>5, <1>6, <1>7, <1>8, <1>9 DEF Next

(* Every state is well typed (TypeOK).                                     *)
THEOREM TypeCorrect == Spec => []TypeOK
BY TypeInit, TypeStep, PTL DEF Spec

----------------------------------------------------------------------------
(* The log and the memory.                                                 *)

LEMMA LogStep ==
  ASSUME TypeOK, LogOK, [Next]_vars PROVE LogOK'
<1> USE DEF settings, log
<1>0. /\ Fresh.at = now /\ Fresh.serial = serial
      /\ now \in Nat /\ serial \in Nat
      /\ \A k \in Keys : \A g \in granted[k] : g.at \in Nat /\ g.serial \in Nat
  BY SettingsType
<1>1. ASSUME NEW k \in Keys, Grant(k), now' = now,
             NEW kept, kept \subseteq granted[k],
             \/ requests' = requests
             \/ requests' = [requests EXCEPT ![k] = kept \cup {Fresh}]
      PROVE  LogOK'
  <2>1. /\ granted' = [granted EXCEPT ![k] = @ \cup {Fresh}]
        /\ serial' = serial + 1
    BY <1>1 DEF Grant
  <2>2. IsFiniteSet(granted[k] \cup {Fresh})
    BY FS_AddElement DEF LogOK
  <2>3. ASSUME NEW c \in Keys
        PROVE  /\ requests'[c] \subseteq granted'[c]
               /\ IsFiniteSet(granted'[c])
               /\ \A g \in granted'[c] : g.at <= now' /\ g.serial < serial'
    BY <1>0, <1>1, <2>1, <2>2 DEF TypeOK, LogOK
  <2> QED BY <2>3 DEF LogOK
<1>2. ASSUME NEW h \in Handlers, NEW k \in Keys, Bypass(h, k) PROVE LogOK'
  BY <1>1, <1>2 DEF Bypass
<1>3. ASSUME NEW h \in Handlers, NEW k \in Keys, Accept(h, k) PROVE LogOK'
  <2> DEFINE kept == Valid(requests[k])
  <2>1. kept \subseteq granted[k]
    BY DEF Valid, LogOK
  <2>2. /\ Grant(k) /\ now' = now
        /\ requests' = [requests EXCEPT ![k] = kept \cup {Fresh}]
    BY <1>3 DEF Accept, TypeOK
  <2> QED BY <1>1, <2>1, <2>2
<1>4. ASSUME NEW h \in Handlers, NEW k \in Keys, Deny(h, k) PROVE LogOK'
  BY <1>4 DEF Deny, Valid, LogOK, TypeOK
<1>5. CASE Cleanup
  BY <1>5 DEF Cleanup, Valid, LogOK
<1>6. CASE Tick
  BY <1>0, <1>6 DEF Tick, LogOK
<1>7. ASSUME UNCHANGED <<requests, now, granted, serial>> PROVE LogOK'
  BY <1>7 DEF LogOK
<1>8. ASSUME NEW h \in Handlers, NEW k \in Keys, Enter(h, k) PROVE LogOK'
  BY <1>7, <1>8 DEF Enter
<1>9. ASSUME \/ \E value \in BOOLEAN : SetEnabled(value)
             \/ \E new \in Limits : SetLimits(new)
             \/ UNCHANGED vars
      PROVE  LogOK'
  BY <1>7, <1>9 DEF SetEnabled, SetLimits, vars
<1> QED BY <1>2, <1>3, <1>4, <1>5, <1>6, <1>8, <1>9 DEF Next

(* What must count is not forgotten by dropping what is expired.           *)
LEMMA RecentValid ==
  ASSUME TypeOK, Remembered, enabled, NEW k \in Keys
  PROVE  Recent(k) \subseteq Valid(requests[k])
BY DEF Remembered, Recent, Valid

LEMMA FiniteLogs ==
  ASSUME LogOK, NEW k \in Keys
  PROVE  /\ IsFiniteSet(Recent(k))
         /\ IsFiniteSet(Valid(requests[k])) /\ IsFiniteSet(Valid(granted[k]))
<1>1. /\ Recent(k) \subseteq granted[k]
      /\ Valid(requests[k]) \subseteq granted[k]
      /\ Valid(granted[k]) \subseteq granted[k]
  BY DEF LogOK, Recent, Valid
<1> QED BY <1>1, FS_Subset DEF LogOK

LEMMA RememberedStep ==
  ASSUME IInv, [Next]_vars PROVE Remembered'
<1> USE DEF settings, log
<1>0. /\ TypeOK /\ LogOK /\ Remembered
      /\ limits.max \in Int /\ limits.window \in Int
      /\ now \in Nat /\ changed \in Nat /\ Fresh.at = now
      /\ \A k \in Keys : \A g \in granted[k] : g.at \in Nat
  BY SettingsType DEF IInv
<1>1. ASSUME NEW h \in Handlers, NEW k \in Keys, Bypass(h, k) PROVE Remembered'
  BY <1>1 DEF Bypass, Remembered
<1>2. ASSUME NEW h \in Handlers, NEW k \in Keys, Accept(h, k) PROVE Remembered'
  <2> SUFFICES ASSUME enabled', NEW c \in Keys
               PROVE  /\ (Recent(c) \subseteq requests[c])'
                      /\ (Recent(c) = {} \/ Cardinality(Recent(c)) <= limits.max)'
    BY DEF Remembered
  <2>1. /\ enabled /\ limits' = limits /\ now' = now /\ changed' = changed
        /\ granted' = [granted EXCEPT ![k] = @ \cup {Fresh}]
        /\ requests' = [requests EXCEPT ![k] = Valid(@) \cup {Fresh}]
        /\ Cardinality(Valid(requests[k])) < limits.max
    BY <1>2 DEF Accept, Grant
  <2>2. CASE c = k
    <3> DEFINE kept == Valid(requests[k])
    <3>1. Recent(k) \subseteq kept
      BY <1>0, <2>1, RecentValid
    <3>2. /\ granted'[k] = granted[k] \cup {Fresh}
          /\ requests'[k] = kept \cup {Fresh}
      BY <1>0, <2>1 DEF TypeOK
    <3>3. Recent(k)' \subseteq Recent(k) \cup {Fresh}
      BY <2>1, <3>2 DEF Recent
    <3>4. Recent(k)' \subseteq kept \cup {Fresh}
      BY <3>1, <3>3
    <3>5. /\ IsFiniteSet(kept \cup {Fresh})
          /\ Cardinality(kept \cup {Fresh}) <= limits.max
      BY <1>0, <2>1, FiniteLogs, OneMore
    <3>6. Recent(k)' = {} \/ Cardinality(Recent(k)') <= limits.max
      BY <1>0, <3>4, <3>5, SmallSubset
    <3> QED BY <2>1, <2>2, <3>2, <3>4, <3>6
  <2>3. CASE c # k
    <3>1. Recent(c)' = Recent(c) /\ requests'[c] = requests[c]
      BY <1>0, <2>1, <2>3 DEF Recent, TypeOK
    <3> QED BY <1>0, <2>1, <3>1 DEF Remembered
  <2> QED BY <2>2, <2>3
<1>3. ASSUME UNCHANGED <<enabled, limits, now, granted, changed>>,
             \A c \in Keys : \/ requests'[c] = requests[c]
                           \/ requests'[c] = Valid(requests[c])
      PROVE  Remembered'
  <2> SUFFICES ASSUME enabled', NEW c \in Keys
               PROVE  /\ (Recent(c) \subseteq requests[c])'
                      /\ (Recent(c) = {} \/ Cardinality(Recent(c)) <= limits.max)'
    BY DEF Remembered
  <2>1. enabled /\ Recent(c)' = Recent(c) /\ limits' = limits
    BY <1>3 DEF Recent
  <2>2. Recent(c) \subseteq Valid(requests[c])
    BY <1>0, <2>1, RecentValid
  <2>3. /\ Recent(c) \subseteq requests[c]
        /\ Recent(c) = {} \/ Cardinality(Recent(c)) <= limits.max
    BY <1>0, <2>1 DEF Remembered
  <2> QED BY <1>3, <2>1, <2>2, <2>3
<1>4. ASSUME NEW h \in Handlers, NEW k \in Keys, Enter(h, k) \/ Deny(h, k)
      PROVE  Remembered'
  BY <1>0, <1>3, <1>4 DEF Enter, Deny, TypeOK
<1>5. CASE Cleanup
  BY <1>3, <1>5 DEF Cleanup
<1>6. ASSUME changed' = now, UNCHANGED <<now, granted>> PROVE Remembered'
  <2>1. \A c \in Keys : Recent(c)' = {}
    BY <1>0, <1>6 DEF LogOK, Recent
  <2> QED BY <2>1 DEF Remembered
<1>7. ASSUME \/ \E value \in BOOLEAN : SetEnabled(value)
             \/ \E new \in Limits : SetLimits(new)
      PROVE  Remembered'
  BY <1>6, <1>7 DEF SetEnabled, SetLimits
<1>8. CASE Tick
  <2> SUFFICES ASSUME enabled', NEW c \in Keys
               PROVE  /\ (Recent(c) \subseteq requests[c])'
                      /\ (Recent(c) = {} \/ Cardinality(Recent(c)) <= limits.max)'
    BY DEF Remembered
  <2>1. /\ enabled /\ limits' = limits /\ now' = now + 1
        /\ UNCHANGED <<requests, granted, changed>>
    BY <1>8 DEF Tick
  <2>2. Recent(c)' \subseteq Recent(c)
    BY <1>0, <2>1 DEF Recent
  <2>3. /\ Recent(c) \subseteq requests[c]
        /\ Recent(c) = {} \/ Cardinality(Recent(c)) <= limits.max
    BY <1>0, <2>1 DEF Remembered
  <2>4. Recent(c)' = {} \/ Cardinality(Recent(c)') <= limits.max
    BY <1>0, <2>2, <2>3, FiniteLogs, SmallSubset
  <2> QED BY <2>1, <2>2, <2>3, <2>4
<1>9. CASE UNCHANGED vars
  BY <1>3, <1>9 DEF vars
<1> QED BY <1>1, <1>2, <1>4, <1>5, <1>7, <1>8, <1>9 DEF Next

LEMMA Inductive == Spec => []IInv
<1>1. Init => IInv
  <2> SUFFICES ASSUME Init PROVE IInv
    OBVIOUS
  <2>1. TypeOK
    BY TypeInit
  <2>2. \A k \in Keys : requests[k] = {} /\ granted[k] = {} /\ Recent(k) = {}
    BY DEF Init, Recent
  <2>3. LogOK
    BY <2>2, FS_EmptySet DEF LogOK
  <2>4. Remembered
    BY <2>2 DEF Remembered
  <2> QED BY <2>1, <2>3, <2>4 DEF IInv
<1>2. IInv /\ [Next]_vars => IInv'
  BY TypeStep, LogStep, RememberedStep DEF IInv
<1> QED BY <1>1, <1>2, PTL DEF Spec

----------------------------------------------------------------------------
(* At most max requests of a key pass within a window once the settings    *)
(* have stood for one (WindowKept): then every grant that still counts was *)
(* made after they changed, so it is a recent one.                         *)
THEOREM WindowTheorem == Spec => []WindowKept
<1>1. IInv => WindowKept
  <2> SUFFICES ASSUME IInv, enabled, now - changed >= limits.window, NEW k \in Keys
               PROVE  \/ Valid(granted[k]) = {}
                      \/ Cardinality(Valid(granted[k])) <= limits.max
    BY DEF WindowKept
  <2>1. /\ limits.window \in Int /\ now \in Nat /\ changed \in Nat
        /\ \A g \in granted[k] : g.at \in Nat
    BY SettingsType DEF IInv
  <2>2. Valid(granted[k]) = Recent(k)
    BY <2>1 DEF Valid, Recent
  <2>3. Recent(k) = {} \/ Cardinality(Recent(k)) <= limits.max
    BY DEF IInv, Remembered
  <2> QED BY <2>2, <2>3
<1> QED BY <1>1, Inductive, PTL

(* A denial means that max requests of the key passed within the window    *)
(* (DeniedOnlyWhenFull): what Allow counts is among the grants.            *)
THEOREM DeniedTheorem == Spec => DeniedOnlyWhenFull
<1> DEFINE Full(k) == Cardinality(Valid(granted[k])) >= limits.max
           Denied(k) == /\ \E h \in Handlers : handler[h] = k /\ handler'[h] = Idle
                        /\ UNCHANGED granted
<1>1. IInv /\ [Next]_vars =>
        [\A k \in Keys :
           (\E h \in Handlers : handler[h] = k /\ handler'[h] = Idle)
             /\ UNCHANGED granted
               => Cardinality(Valid(granted[k])) >= limits.max]_vars
  <2> SUFFICES ASSUME IInv, Next, NEW k \in Keys, Denied(k) PROVE Full(k)
    OBVIOUS
  <2>1. /\ TypeOK /\ LogOK /\ limits.max \in Int
        /\ serial \in Nat /\ Fresh.serial = serial
        /\ \A g \in granted[k] : g.serial \in Nat
    BY SettingsType DEF IInv
  <2>2. PICK h \in Handlers : handler[h] = k /\ handler'[h] = Idle
    OBVIOUS
  <2>3. handler' # handler /\ k # Idle
    BY <2>2, IdleAssumption DEF Idle
  <2>4. ASSUME NEW i \in Handlers, NEW c \in Keys, Accept(i, c) PROVE FALSE
    <3>1. c = k /\ granted'[c] = granted[c] \cup {Fresh}
      BY <2>1, <2>2, <2>3, <2>4 DEF Accept, Grant, TypeOK
    <3>2. Fresh \notin granted[k]
      BY <2>1 DEF LogOK
    <3> QED BY <3>1, <3>2
  <2>5. ASSUME NEW i \in Handlers, NEW c \in Keys, Deny(i, c) PROVE Full(k)
    <3>1. c = k /\ Cardinality(Valid(requests[k])) >= limits.max
      BY <2>1, <2>2, <2>3, <2>5 DEF Deny, TypeOK
    <3>2. Valid(requests[k]) \subseteq Valid(granted[k])
      BY <2>1 DEF Valid, LogOK
    <3>3. /\ IsFiniteSet(Valid(requests[k])) /\ IsFiniteSet(Valid(granted[k]))
      BY <2>1, FiniteLogs
    <3>4. /\ Cardinality(Valid(requests[k])) <= Cardinality(Valid(granted[k]))
          /\ Cardinality(Valid(requests[k])) \in Nat
          /\ Cardinality(Valid(granted[k])) \in Nat
      BY <3>2, <3>3, FS_Subset, FS_CardinalityType
    <3> QED BY <2>1, <3>1, <3>4
  <2>6. ASSUME NEW i \in Handlers, NEW c \in Keys, Enter(i, c) PROVE FALSE
    BY <2>1, <2>2, <2>3, <2>6, IdleAssumption DEF Enter, TypeOK, Idle
  <2>7. \E i \in Handlers, c \in Keys : Enter(i, c) \/ Accept(i, c) \/ Deny(i, c)
    BY <2>3 DEF Next, Bypass, Cleanup, SetEnabled, SetLimits, Tick
  <2> QED BY <2>4, <2>5, <2>6, <2>7
<1> QED BY <1>1, Inductive, PTL DEF Spec, DeniedOnlyWhenFull
=============================================================================
