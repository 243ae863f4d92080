-------------------------- MODULE RoundRobinProofs --------------------------
(***************************************************************************)
(* Proofs about module RoundRobin, for any number of backends and callers, *)
(* any number of draws and any width of the counter, one smaller than the  *)
(* number of backends included.                                            *)
(***************************************************************************)
EXTENDS RoundRobin, FiniteSetTheorems, TLAPS

----------------------------------------------------------------------------
(* The counter.                                                            *)

(* The counter's value in its lap, the laps that are over, and the backend *)
(* the last number points at.                                              *)
InLap == drawn % CounterSize
Laps == drawn \div CounterSize
Last == InLap % NumBackends

(* The backend the counter pointed at k numbers before it pointed at w.    *)
Behind(w, k) == IF k <= w THEN w - k ELSE w - k + NumBackends

(* Of the numbers of this lap, the ones drawn `from' draws ago and before, *)
(* fewer than `to' draws ago, point at backends that are not in st.        *)
Swept(w, v, st, from, to) ==
  \A k \in Backends : from <= k /\ k < to /\ k <= v => Behind(w, k) \notin st

(* A call that draws alone sweeps one backend at every attempt; the one    *)
(* that was drawn last is still to be looked at.                           *)
SweepOK(l, w, v, st) ==
  /\ l.at = "check" => l.idx = w /\ Swept(w, v, st, 1, l.attempt + 1)
  /\ l.at = "draw" => Swept(w, v, st, 0, l.attempt)
  /\ l.at = "returned" /\ l.result = None => Swept(w, v, st, 0, NumBackends)

SweepInv == \A c \in Callers : alone[c] => SweepOK(call[c], Last, InLap, steady[c])

InLoop ==
  \A c \in Callers :
    /\ At(c, "idle") => call[c].attempt = 0
    /\ At(c, "check") => call[c].attempt < NumBackends
    /\ steady[c] \subseteq available

(* Requests that were dealt to b, the ones that will be returned included. *)
Share(b) == picked[b] + Pending(b)

(* Has b had its turn in this round?  Number 0 is the last of a lap, and   *)
(* the first draws number 1: a round begins with backend 1.                *)
Early(b) == IF b # 0 /\ b <= Last THEN 1 ELSE 0

Dealt == \A a, b \in always : Share(a) <= Share(b) + Laps + Early(a) - Early(b)

IInv == TypeOK /\ InLoop /\ SweepInv /\ Dealt

(* Quotient and remainder are unique.                                      *)
LEMMA DivisionUnique ==
  ASSUME NEW m \in Nat \ {0}, NEW p \in Int, NEW q \in Int,
         NEW r \in 0 .. (m - 1), NEW s \in 0 .. (m - 1), m * p + r = m * q + s
  PROVE  p = q /\ r = s
<1>1. ASSUME NEW x \in Int, NEW y \in Int, x < y PROVE m * x + m <= m * y
  <2>1. y - x - 1 \in Nat /\ m * (y - x - 1) \in Nat
    BY <1>1
  <2>2. m * y = m * x + m + m * (y - x - 1)
    OBVIOUS
  <2>3. m * x \in Int /\ m * y \in Int
    OBVIOUS
  <2> QED
    BY <2>1, <2>2, <2>3
<1>2. m * p \in Int /\ m * q \in Int
  OBVIOUS
<1>3. ~(p < q) /\ ~(q < p)
  BY <1>1, <1>2
<1> QED
  BY <1>2, <1>3

(* Division of the next number.                                            *)
LEMMA OneMore ==
  ASSUME NEW n \in Nat, NEW m \in Nat \ {0}
  PROVE  /\ n % m \in 0 .. (m - 1) /\ n \div m \in Nat
         /\ (n + 1) % m = IF (n % m) + 1 < m THEN (n % m) + 1 ELSE 0
         /\ (n + 1) \div m = IF (n % m) + 1 < m THEN n \div m ELSE (n \div m) + 1
<1> DEFINE q == n \div m
           r == n % m
           q1 == (n + 1) \div m
           r1 == (n + 1) % m
<1>1. q \in Nat /\ r \in 0 .. (m - 1) /\ n = m * q + r
  OBVIOUS
<1>2. q1 \in Int /\ r1 \in 0 .. (m - 1) /\ n + 1 = m * q1 + r1
  OBVIOUS
<1> HIDE DEF q, r, q1, r1
<1>3. CASE r + 1 < m
  <2>1. r + 1 \in 0 .. (m - 1) /\ m * q1 + r1 = m * q + (r + 1)
    BY <1>1, <1>2, <1>3
  <2>2. q \in Int
    BY <1>1
  <2>3. q1 = q /\ r1 = r + 1
    BY <1>2, <2>1, <2>2, DivisionUnique, SMTT(30)
  <2> QED
    BY <1>1, <1>3, <2>3 DEF q, r, q1, r1
<1>4. CASE ~(r + 1 < m)
  <2>0. r + 1 = m /\ m * (q + 1) = m * q + m
    BY <1>1, <1>4
  <2>1. 0 \in 0 .. (m - 1) /\ q + 1 \in Int /\ m * q1 + r1 = m * (q + 1) + 0
    BY <1>1, <1>2, <2>0
  <2>2. q1 = q + 1 /\ r1 = 0
    BY <1>2, <2>1, DivisionUnique, SMTT(30)
  <2> QED
    BY <1>1, <1>4, <2>2 DEF q, r, q1, r1
<1> QED
  BY <1>3, <1>4

(* The k-th number of a lap is no less than k.                             *)
LEMMA SameLap ==
  ASSUME NEW n \in Nat, NEW k \in Nat, NEW m \in Nat \ {0}, (n - k) \div m = n \div m
  PROVE  k <= n % m
OBVIOUS

(* Types of the counter's parts.                                           *)
LEMMA LastNumber ==
  ASSUME drawn \in Nat
  PROVE  InLap \in Nat /\ Laps \in Nat /\ Last \in Backends
<1>1. InLap \in Nat /\ Laps \in Nat
  BY OneMore, CounterAssumption DEF InLap, Laps
<1> QED
  BY <1>1, OneMore, NumBackendsAssumption DEF Last, Backends

(* The next number points at the next backend, or a lap begins anew.       *)
LEMMA NextNumber ==
  ASSUME drawn \in Nat, drawn' = drawn + 1
  PROVE  /\ Last' = (drawn' % CounterSize) % NumBackends
         /\ InLap' \in Nat /\ Laps' \in Nat /\ Last' \in Backends
         /\ \/ /\ InLap' = InLap + 1 /\ Laps' = Laps
               /\ Last' = IF Last + 1 < NumBackends THEN Last + 1 ELSE 0
            \/ InLap' = 0 /\ Laps' = Laps + 1 /\ Last' = 0
<1>0. InLap \in Nat /\ Laps \in Nat /\ Last \in Backends
  BY LastNumber
<1>1. /\ InLap' = IF InLap + 1 < CounterSize THEN InLap + 1 ELSE 0
      /\ Laps' = IF InLap + 1 < CounterSize THEN Laps ELSE Laps + 1
  BY OneMore, CounterAssumption DEF InLap, Laps
<1>2. Last' = InLap' % NumBackends /\ Last = InLap % NumBackends
  BY DEF Last
<1>3. (InLap + 1) % NumBackends = IF Last + 1 < NumBackends THEN Last + 1 ELSE 0
  BY <1>0, <1>2, OneMore, NumBackendsAssumption
<1>4. 0 % NumBackends = 0
  BY NumBackendsAssumption
<1>5. Last' = (drawn' % CounterSize) % NumBackends
  BY DEF Last, InLap
<1>6. InLap' \in Nat /\ Laps' \in Nat
  BY <1>0, <1>1
<1>7. CASE InLap + 1 < CounterSize
  BY <1>0, <1>1, <1>2, <1>3, <1>5, <1>6, <1>7, NumBackendsAssumption DEF Backends
<1>8. CASE ~(InLap + 1 < CounterSize)
  BY <1>0, <1>1, <1>2, <1>4, <1>5, <1>6, <1>8, NumBackendsAssumption DEF Backends
<1> QED
  BY <1>7, <1>8

----------------------------------------------------------------------------
(* The sweep.                                                              *)

(* With fewer backends that stayed available a sweep holds as well.        *)
LEMMA SweptLess ==
  ASSUME NEW w, NEW v, NEW st, NEW fewer, fewer \subseteq st,
         NEW from, NEW to, Swept(w, v, st, from, to)
  PROVE  Swept(w, v, fewer, from, to)
BY DEF Swept

(* A number that is drawn pushes the others back by one.                   *)
LEMMA SweptOn ==
  ASSUME NEW w \in Backends, NEW v \in Nat, NEW st, NEW to \in Nat, Swept(w, v, st, 0, to),
         NEW x, NEW y \in Nat,
         \/ y = v + 1 /\ x = IF w + 1 < NumBackends THEN w + 1 ELSE 0
         \/ y = 0
  PROVE  Swept(x, y, st, 1, to + 1)
<1> SUFFICES ASSUME NEW k \in Backends, 1 <= k, k < to + 1, k <= y
             PROVE  Behind(x, k) \notin st
  BY DEF Swept
<1>1. /\ y = v + 1 /\ x = IF w + 1 < NumBackends THEN w + 1 ELSE 0
      /\ k - 1 \in Backends /\ k - 1 < to /\ k - 1 <= v /\ 0 <= k - 1
  BY NumBackendsAssumption DEF Backends
<1>2. Behind(x, k) = Behind(w, k - 1)
  BY <1>1, NumBackendsAssumption DEF Behind, Backends
<1> QED
  BY <1>1, <1>2 DEF Swept

(* A sweep up to the last number takes that one in, if its backend was     *)
(* tried or did not stay available.                                        *)
LEMMA SweptFront ==
  ASSUME NEW w \in Backends, NEW v, NEW st, w \notin st,
         NEW to \in Nat, Swept(w, v, st, 1, to + 1)
  PROVE  Swept(w, v, st, 0, to + 1)
<1>1. Behind(w, 0) = w
  BY DEF Behind, Backends
<1> QED
  BY <1>1 DEF Swept, Backends

(* As many numbers as there are backends, of one lap, sweep them all.      *)
LEMMA SweptAll ==
  ASSUME NEW w \in Backends, NEW v \in Nat, NEW st, NumBackends - 1 <= v,
         Swept(w, v, st, 0, NumBackends)
  PROVE  st \cap Backends = {}
<1> SUFFICES ASSUME NEW b \in Backends PROVE b \notin st
  OBVIOUS
<1> DEFINE k == IF b <= w THEN w - b ELSE w - b + NumBackends
<1>1. k \in Backends /\ 0 <= k /\ k < NumBackends /\ k <= v
  BY NumBackendsAssumption DEF Backends
<1>2. Behind(w, k) = b
  BY NumBackendsAssumption DEF Behind, Backends
<1> HIDE DEF k
<1> QED
  BY <1>1, <1>2 DEF Swept

----------------------------------------------------------------------------
(* The shares.                                                             *)

Waiting(b) == {c \in Callers : At(c, "check") /\ call[c].idx = b}

(* Finitely many callers are about to check a backend.                     *)
LEMMA PendingIsNat ==
  ASSUME NEW b
  PROVE  Pending(b) \in Nat /\ Pending(b) = Cardinality(Waiting(b)) /\ IsFiniteSet(Waiting(b))
<1>1. IsFiniteSet(Waiting(b))
  BY CallersAssumption, FS_Subset DEF Waiting
<1> QED
  BY <1>1, FS_CardinalityType DEF Pending, Waiting

(* Only the share of the backend a number was drawn for changes, by one.   *)
LEMMA OnePending ==
  ASSUME NEW c \in Callers, NEW b, Waiting(b)' = Waiting(b) \cup {c}, c \notin Waiting(b)
  PROVE  Pending(b)' = Pending(b) + 1
<1>1. IsFiniteSet(Waiting(b)) /\ Pending(b) = Cardinality(Waiting(b))
  BY PendingIsNat
<1>2. Pending(b)' = Cardinality(Waiting(b)')
  BY DEF Pending, Waiting
<1> QED
  BY <1>1, <1>2, FS_AddElement

(* A caller that goes on is one less.                                      *)
LEMMA OneLess ==
  ASSUME NEW c \in Callers, NEW b, Waiting(b)' = Waiting(b) \ {c}, c \in Waiting(b)
  PROVE  Pending(b) = Pending(b)' + 1
<1>1. IsFiniteSet(Waiting(b)) /\ Pending(b) = Cardinality(Waiting(b)) /\ Pending(b) \in Nat
  BY PendingIsNat
<1>2. Pending(b)' = Cardinality(Waiting(b)')
  BY DEF Pending, Waiting
<1>3. Cardinality(Waiting(b) \ {c}) = Cardinality(Waiting(b)) - 1
  BY <1>1, FS_RemoveElement
<1> QED
  BY <1>1, <1>2, <1>3

(* Callers that do not move are as many as before.                         *)
LEMMA SamePending ==
  ASSUME NEW b, Waiting(b)' = Waiting(b)
  PROVE  Pending(b)' = Pending(b)
BY DEF Pending, Waiting

(* A number for the next backend in turn keeps the shares together.        *)
LEMMA DealtOn ==
  ASSUME TypeOK, Dealt, drawn' = drawn + 1, UNCHANGED always,
         \A b \in Backends : Share(b)' = IF b = Last' THEN Share(b) + 1 ELSE Share(b)
  PROVE  Dealt'
<1>1. always \subseteq Backends
  BY DEF TypeOK
<1> SUFFICES ASSUME NEW a \in always, NEW b \in always
             PROVE  Share(a)' <= Share(b)' + Laps' + Early(a)' - Early(b)'
  BY DEF Dealt
<1>2. /\ Share(a) \in Nat /\ Share(b) \in Nat /\ Laps \in Nat /\ Last \in Backends
      /\ a \in Backends /\ b \in Backends
      /\ Share(a) <= Share(b) + Laps + Early(a) - Early(b)
  BY <1>1, PendingIsNat, LastNumber DEF TypeOK, Share, Dealt
<1>3. /\ Share(a)' = IF a = Last' THEN Share(a) + 1 ELSE Share(a)
      /\ Share(b)' = IF b = Last' THEN Share(b) + 1 ELSE Share(b)
  BY <1>2
<1>4. /\ Early(a)' = IF a # 0 /\ a <= Last' THEN 1 ELSE 0
      /\ Early(b)' = IF b # 0 /\ b <= Last' THEN 1 ELSE 0
  BY DEF Early
<1>5. /\ Early(a) = IF a # 0 /\ a <= Last THEN 1 ELSE 0
      /\ Early(b) = IF b # 0 /\ b <= Last THEN 1 ELSE 0
  BY DEF Early
<1>6. CASE Laps' = Laps /\ Last' = IF Last + 1 < NumBackends THEN Last + 1 ELSE 0
  BY <1>2, <1>3, <1>4, <1>5, <1>6, NumBackendsAssumption DEF Backends
<1>7. CASE Laps' = Laps + 1 /\ Last' = 0
  BY <1>2, <1>3, <1>4, <1>5, <1>7, NumBackendsAssumption DEF Backends
<1> QED
  BY <1>6, <1>7, NextNumber DEF TypeOK

(* A step that draws no number and leaves the shares of the backends that  *)
(* were always available as they are.                                      *)
LEMMA DealtStill ==
  ASSUME TypeOK, Dealt, UNCHANGED drawn, always' \subseteq always,
         \A b \in always : Share(b)' = Share(b)
  PROVE  Dealt'
BY DEF Dealt, Laps, Early, Last, InLap, TypeOK

----------------------------------------------------------------------------
(* The invariant.                                                          *)

(* It holds of the new counter.                                            *)
LEMMA InitIInv == Init => IInv
<1> SUFFICES ASSUME Init PROVE IInv
  OBVIOUS
<1> USE DEF Init, NotCalled
<1>1. TypeOK
  BY NumBackendsAssumption DEF TypeOK, Backends
<1>2. InLoop /\ SweepInv
  BY DEF InLoop, At, SweepInv, SweepOK
<1>3. Dealt
  <2>1. ASSUME NEW b \in always PROVE Share(b) = 0
    <3>1. Waiting(b) = {}
      BY DEF Waiting, At
    <3>2. Pending(b) = 0
      BY <3>1, PendingIsNat, FS_EmptySet
    <3> QED
      BY <3>2 DEF Share
  <2>2. Laps = 0 /\ Last = 0
    <3>1. 0 \div CounterSize = 0 /\ 0 % CounterSize = 0
      BY CounterAssumption
    <3>2. 0 % NumBackends = 0
      BY NumBackendsAssumption
    <3> QED
      BY <3>1, <3>2 DEF Laps, Last, InLap
  <2>3. ASSUME NEW b \in always PROVE Early(b) = 0
    BY <2>2 DEF Early, Backends
  <2> QED
    BY <2>1, <2>2, <2>3 DEF Dealt
<1> QED
  BY <1>1, <1>2, <1>3 DEF IInv

(* Types, one step at a time.                                              *)
LEMMA TypeStep ==
  ASSUME TypeOK, InLoop, [Next]_vars
  PROVE  TypeOK' /\ InLoop'
<1> DEFINE Call_ == [at : {"idle", "draw", "check", "returned"}, attempt : 0 .. NumBackends,
                     idx : Backends, result : Backends \cup {None}]
<1>0. NotCalled \in Call_
  BY NumBackendsAssumption DEF NotCalled, Backends
<1>1. ASSUME NEW c \in Callers, Call(c) \/ Fail(c) \/ Leave(c) PROVE TypeOK' /\ InLoop'
  <2>1. CASE Call(c)
    BY <2>1 DEF Call, TypeOK, InLoop, At
  <2>2. CASE Fail(c)
    BY <2>2 DEF Fail, TypeOK, InLoop, At, history
  <2>3. CASE Leave(c)
    <3>1. call' \in [Callers -> Call_]
      BY <1>0, <2>3 DEF Leave, TypeOK
    <3>2. InLoop'
      BY <2>3, <3>1 DEF Leave, NotCalled, TypeOK, InLoop, At, history
    <3> QED
      BY <2>3, <3>1, <3>2 DEF Leave, TypeOK, history
  <2> QED
    BY <1>1, <2>1, <2>2, <2>3
<1>2. ASSUME NEW c \in Callers, Draw(c) PROVE TypeOK' /\ InLoop'
  <2>1. (drawn' % CounterSize) % NumBackends \in Backends /\ drawn' \in Nat
    BY <1>2, NextNumber DEF Draw, TypeOK
  <2>2. call' \in [Callers -> Call_]
    <3> DEFINE n == (drawn' % CounterSize) % NumBackends
               m == [call[c] EXCEPT !.at = "check", !.idx = n]
    <3>1. call' = [call EXCEPT ![c] = m]
      BY <1>2 DEF Draw, TypeOK
    <3>2. n \in Backends /\ call[c] \in Call_ /\ call \in [Callers -> Call_]
      BY <2>1 DEF TypeOK
    <3> HIDE DEF n
    <3>3. m \in Call_
      BY <3>2
    <3> HIDE DEF m, Call_
    <3> QED
      BY <3>1, <3>2, <3>3
  <2>3. alone' \in [Callers -> BOOLEAN]
    BY <1>2 DEF Draw, TypeOK
  <2>4. InLoop'
    BY <1>2 DEF Draw, TypeOK, InLoop, At
  <2> QED
    BY <1>2, <2>1, <2>2, <2>3, <2>4 DEF Draw, TypeOK
<1>3. ASSUME NEW c \in Callers, Pick(c) PROVE TypeOK' /\ InLoop'
  <2>1. TypeOK'
    <3>1. call[c].idx \in Backends /\ picked[call[c].idx] + 1 \in Nat
      BY DEF TypeOK
    <3>2. picked' \in [Backends -> Nat]
      BY <1>3, <3>1 DEF Pick, TypeOK
    <3>3. call' \in [Callers -> Call_]
      <4> DEFINE m == [call[c] EXCEPT !.at = "returned", !.result = call[c].idx]
      <4>1. call' = [call EXCEPT ![c] = m] /\ call \in [Callers -> Call_]
        BY <1>3 DEF Pick, TypeOK
      <4>2. m \in Call_
        BY <3>1, <4>1
      <4> HIDE DEF m, Call_
      <4> QED
        BY <4>1, <4>2
    <3> QED
      BY <1>3, <3>2, <3>3 DEF Pick, TypeOK
  <2>2. InLoop'
    BY <1>3 DEF Pick, TypeOK, InLoop, At
  <2> QED
    BY <2>1, <2>2
<1>4. ASSUME NEW c \in Callers, Skip(c) PROVE TypeOK' /\ InLoop'
  <2>1. call[c].attempt + 1 \in 0 .. NumBackends
    BY <1>4, NumBackendsAssumption DEF Skip, TypeOK, InLoop
  <2> QED
    BY <1>4, <2>1 DEF Skip, TypeOK, InLoop, At, history
<1>5. ASSUME NEW b \in Backends, Turn(b) PROVE TypeOK' /\ InLoop'
  BY <1>5 DEF Turn, TypeOK, InLoop, At
<1>6. CASE UNCHANGED vars
  BY <1>6 DEF vars, history, TypeOK, InLoop, At
<1> QED
  BY <1>1, <1>2, <1>3, <1>4, <1>5, <1>6 DEF Next, NextBackend

(* A call that is alone has drawn the last numbers itself.                 *)
LEMMA SweepStep ==
  ASSUME TypeOK, TypeOK', InLoop, SweepInv, [Next]_vars
  PROVE  SweepInv'
<1>0. InLap \in Nat /\ Last \in Backends
  BY LastNumber DEF TypeOK
<1>a. UNCHANGED drawn => Last' = Last /\ InLap' = InLap
  BY DEF Last, InLap
<1> SUFFICES ASSUME NEW d \in Callers, alone'[d]
             PROVE  SweepOK(call'[d], Last', InLap', steady'[d])
  BY DEF SweepInv
<1>1. ASSUME NEW c \in Callers, Call(c)
      PROVE  SweepOK(call'[d], Last', InLap', steady'[d])
  <2>1. CASE d = c
    <3>1. call'[d].at = "draw" /\ call'[d].attempt = 0
      BY <1>1, <2>1 DEF Call, TypeOK, InLoop
    <3> QED
      BY <3>1 DEF SweepOK, Swept, Backends
  <2>2. CASE d # c
    BY <1>1, <1>a, <2>2 DEF Call, SweepInv, TypeOK
  <2> QED
    BY <2>1, <2>2
<1>2. ASSUME NEW c \in Callers, Draw(c)
      PROVE  SweepOK(call'[d], Last', InLap', steady'[d])
  <2>1. CASE d = c
    <3>1. /\ call'[d].at = "check" /\ call'[d].attempt = call[d].attempt
          /\ call'[d].idx = Last' /\ alone[d] /\ steady' = steady
      BY <1>2, <2>1, NextNumber DEF Draw, TypeOK
    <3>2. Swept(Last, InLap, steady[d], 0, call[d].attempt) /\ call[d].attempt \in Nat
      BY <1>2, <2>1, <3>1 DEF Draw, At, SweepInv, SweepOK, TypeOK
    <3>3. /\ InLap' \in Nat
          /\ \/ InLap' = InLap + 1 /\ Last' = IF Last + 1 < NumBackends THEN Last + 1 ELSE 0
             \/ InLap' = 0
      BY <1>2, NextNumber DEF Draw, TypeOK
    <3>4. Swept(Last', InLap', steady[d], 1, call[d].attempt + 1)
      BY <1>0, <3>2, <3>3, SweptOn
    <3> QED
      BY <3>1, <3>4 DEF SweepOK
  <2>2. CASE d # c
    <3>1. call'[d] = call[d] /\ call[d].at = "idle"
      BY <1>2, <2>2 DEF Draw, At, TypeOK
    <3> QED
      BY <3>1 DEF SweepOK
  <2> QED
    BY <2>1, <2>2
<1>3. ASSUME NEW c \in Callers, Pick(c)
      PROVE  SweepOK(call'[d], Last', InLap', steady'[d])
  <2>1. CASE d = c
    <3>1. call'[d].at = "returned" /\ call'[d].result # None
      BY <1>3, <2>1 DEF Pick, TypeOK, None, Backends
    <3> QED
      BY <3>1 DEF SweepOK
  <2>2. CASE d # c
    BY <1>3, <1>a, <2>2 DEF Pick, SweepInv, TypeOK
  <2> QED
    BY <2>1, <2>2
<1>4. ASSUME NEW c \in Callers, Skip(c)
      PROVE  SweepOK(call'[d], Last', InLap', steady'[d])
  <2>1. CASE d = c
    <3>1. /\ call'[d].at = "draw" /\ call'[d].attempt = call[d].attempt + 1
          /\ alone[d] /\ steady' = steady /\ call[d].attempt \in Nat
      BY <1>4, <2>1 DEF Skip, TypeOK, history
    <3>2. /\ call[d].idx = Last /\ Last \notin steady[d]
          /\ Swept(Last, InLap, steady[d], 1, call[d].attempt + 1)
      BY <1>4, <2>1, <3>1 DEF Skip, At, SweepInv, SweepOK, InLoop
    <3>3. Swept(Last, InLap, steady[d], 0, call[d].attempt + 1)
      BY <1>0, <3>1, <3>2, SweptFront
    <3> QED
      BY <1>4, <1>a, <3>1, <3>3 DEF SweepOK, Skip
  <2>2. CASE d # c
    BY <1>4, <1>a, <2>2 DEF Skip, SweepInv, TypeOK, history
  <2> QED
    BY <2>1, <2>2
<1>5. ASSUME NEW c \in Callers, Fail(c)
      PROVE  SweepOK(call'[d], Last', InLap', steady'[d])
  <2>1. CASE d = c
    <3>1. /\ call'[d].at = "returned" /\ alone[d] /\ steady' = steady
          /\ Swept(Last, InLap, steady[d], 0, NumBackends)
      BY <1>5, <2>1 DEF Fail, At, TypeOK, history, SweepInv, SweepOK
    <3> QED
      BY <1>5, <1>a, <3>1 DEF SweepOK, Fail
  <2>2. CASE d # c
    BY <1>5, <1>a, <2>2 DEF Fail, SweepInv, TypeOK, history
  <2> QED
    BY <2>1, <2>2
<1>6. ASSUME NEW c \in Callers, Leave(c)
      PROVE  SweepOK(call'[d], Last', InLap', steady'[d])
  <2>1. CASE d = c
    BY <1>6, <2>1 DEF Leave, TypeOK, NotCalled, SweepOK
  <2>2. CASE d # c
    BY <1>6, <1>a, <2>2 DEF Leave, SweepInv, TypeOK, history
  <2> QED
    BY <2>1, <2>2
<1>7. ASSUME NEW b \in Backends, Turn(b)
      PROVE  SweepOK(call'[d], Last', InLap', steady'[d])
  <2>1. steady'[d] \subseteq steady[d] /\ UNCHANGED <<drawn, call, alone>>
    BY <1>7 DEF Turn, TypeOK
  <2> QED
    BY <1>a, <2>1, SweptLess DEF SweepInv, SweepOK
<1>8. CASE UNCHANGED vars
  BY <1>8, <1>a DEF vars, history, SweepInv
<1> QED
  BY <1>1, <1>2, <1>3, <1>4, <1>5, <1>6, <1>7, <1>8 DEF Next, NextBackend

(* Shares, one step at a time.                                             *)
LEMMA DealtStep ==
  ASSUME TypeOK, TypeOK', InLoop, Dealt, [Next]_vars
  PROVE  Dealt'
<1>0. always \subseteq available /\ always \subseteq Backends
  BY DEF TypeOK
<1>1. ASSUME NEW c \in Callers, Call(c) \/ Fail(c) \/ Leave(c) PROVE Dealt'
  <2>1. UNCHANGED <<drawn, picked, always>>
    BY <1>1 DEF Call, Fail, Leave, history
  <2>2. ASSUME NEW b \in always PROVE Waiting(b)' = Waiting(b)
    <3>1. ~At(c, "check") /\ ~At(c, "check")'
      BY <1>1 DEF Call, Fail, Leave, At, NotCalled, TypeOK
    <3>2. \A d \in Callers \ {c} : call'[d] = call[d]
      BY <1>1 DEF Call, Fail, Leave, TypeOK
    <3> QED
      BY <3>1, <3>2 DEF Waiting, At
  <2>3. ASSUME NEW b \in always PROVE Share(b)' = Share(b)
    BY <2>1, <2>2, SamePending DEF Share
  <2> QED
    BY <2>1, <2>3, DealtStill
<1>2. ASSUME NEW c \in Callers, Draw(c) PROVE Dealt'
  <2>1. /\ drawn' = drawn + 1 /\ UNCHANGED <<always, picked>>
        /\ call'[c].at = "check" /\ call'[c].idx = Last' /\ call[c].at = "draw"
        /\ \A d \in Callers \ {c} : call'[d] = call[d]
    BY <1>2, NextNumber DEF Draw, At, TypeOK
  <2>2. ASSUME NEW b \in Backends
        PROVE  Share(b)' = IF b = Last' THEN Share(b) + 1 ELSE Share(b)
    <3>0. Pending(b) \in Nat /\ picked[b] \in Nat /\ picked'[b] = picked[b]
      BY <2>1, PendingIsNat DEF TypeOK
    <3>1. CASE b = Last'
      <4>1. Waiting(b)' = Waiting(b) \cup {c} /\ c \notin Waiting(b)
        BY <2>1, <3>1 DEF Waiting, At
      <4>2. Pending(b)' = Pending(b) + 1
        BY <4>1, OnePending
      <4> QED
        BY <3>0, <3>1, <4>2 DEF Share
    <3>2. CASE b # Last'
      <4>1. Waiting(b)' = Waiting(b)
        BY <2>1, <3>2 DEF Waiting, At
      <4> QED
        BY <3>0, <3>2, <4>1, SamePending DEF Share
    <3> QED
      BY <3>1, <3>2
  <2> QED
    BY <2>1, <2>2, DealtOn
<1>3. ASSUME NEW c \in Callers, Pick(c) PROVE Dealt'
  <2>1. /\ UNCHANGED <<drawn, always>>
        /\ call[c].at = "check" /\ call'[c].at = "returned"
        /\ \A d \in Callers \ {c} : call'[d] = call[d]
        /\ picked' = [picked EXCEPT ![call[c].idx] = @ + 1]
    BY <1>3 DEF Pick, At, TypeOK
  <2>2. ASSUME NEW b \in always PROVE Share(b)' = Share(b)
    <3>0. Pending(b) \in Nat /\ Pending(b)' \in Nat /\ picked[b] \in Nat
      <4>1. Pending(b)' \in Nat
        <5>1. IsFiniteSet(Waiting(b)')
          BY CallersAssumption, FS_Subset DEF Waiting
        <5> QED
          BY <5>1, FS_CardinalityType DEF Pending, Waiting
      <4> QED
        BY <1>0, <4>1, PendingIsNat DEF TypeOK
    <3>1. CASE b = call[c].idx
      <4>1. Waiting(b)' = Waiting(b) \ {c} /\ c \in Waiting(b)
        BY <2>1, <3>1 DEF Waiting, At
      <4>2. Pending(b) = Pending(b)' + 1 /\ picked'[b] = picked[b] + 1
        BY <1>0, <2>1, <3>1, <4>1, OneLess DEF TypeOK
      <4> QED
        BY <3>0, <4>2 DEF Share
    <3>2. CASE b # call[c].idx
      <4>1. Waiting(b)' = Waiting(b)
        BY <2>1, <3>2 DEF Waiting, At
      <4>2. picked'[b] = picked[b]
        BY <1>0, <2>1, <3>2 DEF TypeOK
      <4> QED
        BY <4>1, <4>2, SamePending DEF Share
    <3> QED
      BY <3>1, <3>2
  <2> QED
    BY <2>1, <2>2, DealtStill
<1>4. ASSUME NEW c \in Callers, Skip(c) PROVE Dealt'
  <2>1. /\ UNCHANGED <<drawn, picked, always>> /\ call[c].idx \notin always
        /\ call[c].at = "check" /\ call'[c].at = "draw"
        /\ \A d \in Callers \ {c} : call'[d] = call[d]
    BY <1>0, <1>4 DEF Skip, At, TypeOK, history
  <2>2. ASSUME NEW b \in always PROVE Waiting(b)' = Waiting(b)
    BY <2>1 DEF Waiting, At
  <2>3. ASSUME NEW b \in always PROVE Share(b)' = Share(b)
    BY <2>1, <2>2, SamePending DEF Share
  <2> QED
    BY <2>1, <2>3, DealtStill
<1>5. CASE (\E b \in Backends : Turn(b)) \/ UNCHANGED vars
  <2>1. UNCHANGED <<drawn, call, picked>> /\ always' \subseteq always
    BY <1>5 DEF Turn, vars, history
  <2>2. ASSUME NEW b \in always PROVE Share(b)' = Share(b)
    BY <2>1 DEF Share, Pending, At
  <2> QED
    BY <2>1, <2>2, DealtStill
<1> QED
  BY <1>1, <1>2, <1>3, <1>4, <1>5 DEF Next, NextBackend

(* The four parts hold always.                                             *)
LEMMA Inductive == Spec => []IInv
<1>1. IInv /\ [Next]_vars => IInv'
  BY TypeStep, SweepStep, DealtStep DEF IInv
<1> QED
  BY <1>1, InitIInv, PTL DEF Spec

----------------------------------------------------------------------------
(* The types; a call never makes more attempts than there are backends.    *)
THEOREM TypeCorrect == Spec => []TypeOK
BY Inductive, PTL DEF IInv

(* A call that no other call draws between finds a backend that stays      *)
(* available, unless the counter wraps within it (NextBackend).            *)
THEOREM SoleTheorem == Spec => []SoleFinds
<1>1. IInv => SoleFinds
  <2> SUFFICES ASSUME IInv, NEW c \in Callers, At(c, "returned"), call[c].result = None,
                      alone[c], InOneLap
               PROVE  steady[c] = {}
    BY DEF SoleFinds
  <2>1. Last \in Backends /\ InLap \in Nat
    BY LastNumber DEF IInv, TypeOK
  <2>2. Swept(Last, InLap, steady[c], 0, NumBackends)
    BY DEF IInv, SweepInv, SweepOK, At
  <2>3. NumBackends - 1 <= InLap
    <3>1. NumBackends - 1 \in Nat /\ drawn \in Nat /\ drawn - (NumBackends - 1) = drawn - NumBackends + 1
      BY NumBackendsAssumption DEF IInv, TypeOK
    <3>2. (drawn - (NumBackends - 1)) \div CounterSize = drawn \div CounterSize
      BY <3>1 DEF InOneLap
    <3> QED
      BY <3>1, <3>2, SameLap, CounterAssumption DEF InLap
  <2>4. steady[c] \cap Backends = {}
    BY <2>1, <2>2, <2>3, SweptAll
  <2> QED
    BY <2>4 DEF IInv, TypeOK
<1> QED
  BY <1>1, Inductive, PTL

(* However many callers interleave, and whichever backends come and go,    *)
(* two that never went away were dealt the same number of requests to      *)
(* within one and one more for each time the counter wrapped (NextBackend).*)
THEOREM FairTheorem == Spec => []FairShare
<1>1. IInv => FairShare
  <2> SUFFICES ASSUME IInv, NEW a \in always, NEW b \in always
               PROVE  Share(a) <= Share(b) + 1 + Laps
    BY DEF FairShare, Share, Laps
  <2>1. /\ Share(a) \in Nat /\ Share(b) \in Nat /\ Laps \in Nat
        /\ Share(a) <= Share(b) + Laps + Early(a) - Early(b)
    BY PendingIsNat, LastNumber DEF IInv, TypeOK, Share, Dealt
  <2> QED
    BY <2>1 DEF Early
<1> QED
  BY <1>1, Inductive, PTL
=============================================================================
