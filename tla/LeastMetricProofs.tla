------------------------- MODULE LeastMetricProofs -------------------------
(***************************************************************************)
(* Proofs about module LeastMetric, for any number of backends and any     *)
(* values of the metric.                                                   *)
(***************************************************************************)
EXTENDS LeastMetric, TLAPS

(* While the call is under way the two properties hold of the backends it  *)
(* has passed: for one that stayed available the best is no worse than its *)
(* highest metric, and the selected one was at least once as good as best. *)
Passed == 0 .. (pos - 1)

ScanOK ==
  /\ \A b \in Backends : low[b] <= metric[b] /\ metric[b] <= high[b]
  /\ steady \subseteq available
  /\ at = "read" => pos < NumBackends
  /\ at = "returned" => pos = NumBackends
  /\ at # "idle" =>
       /\ selected = None => steady \cap Passed = {}
       /\ selected # None =>
            /\ low[selected] <= best
            /\ \A b \in steady \cap Passed : best <= high[b]

IInv == TypeOK /\ ScanOK

LEMMA Numbers ==
  ASSUME TypeOK
  PROVE  /\ NumBackends \in Nat /\ None \notin Backends
         /\ pos \in Nat /\ best \in Nat
         /\ \A b \in Backends : metric[b] \in Nat /\ low[b] \in Nat /\ high[b] \in Nat
<1>1. NumBackends \in Nat /\ None \notin Backends /\ pos \in Nat
  BY NumBackendsAssumption DEF TypeOK, Backends, None
<1>2. Values \subseteq Nat
  BY ValuesAssumption
<1>3. /\ best \in Values
      /\ \A b \in Backends :
           metric[b] \in Values /\ low[b] \in Values /\ high[b] \in Values
  BY DEF TypeOK
<1> QED BY <1>1, <1>2, <1>3

LEMMA InitIInv == Init => IInv
BY NumBackendsAssumption, ValuesAssumption DEF Init, IInv, TypeOK, ScanOK, Backends, Passed

LEMMA TypeStep == TypeOK /\ [Next]_vars => TypeOK'
<1> SUFFICES ASSUME TypeOK, [Next]_vars PROVE TypeOK'
  OBVIOUS
<1> USE NumBackendsAssumption, ValuesAssumption DEF TypeOK, outside, history, scanVars
<1>1. CASE Call
  BY <1>1 DEF Call, Backends
<1>2. CASE Skip
  BY <1>2 DEF Skip, Backends
<1>3. CASE Look
  BY <1>3 DEF Look, Backends
<1>4. CASE Read
  BY <1>4 DEF Read, Backends
<1>5. CASE Return
  BY <1>5 DEF Return
<1>6. CASE Leave
  BY <1>6 DEF Leave
<1>7. ASSUME NEW b \in Backends, Turn(b) PROVE TypeOK'
  BY <1>7 DEF Turn
<1>8. ASSUME NEW b \in Backends, NEW value \in Values, Report(b, value)
      PROVE TypeOK'
  BY <1>8 DEF Report, LesserOf, GreaterOf
<1>9. CASE UNCHANGED vars
  BY <1>9 DEF vars
<1> QED BY <1>1, <1>2, <1>3, <1>4, <1>5, <1>6, <1>7, <1>8, <1>9
        DEF Next, NextBackend

LEMMA ScanStep ==
  ASSUME TypeOK, ScanOK, [Next]_vars PROVE ScanOK'
<1> USE DEF outside, history, scanVars
<1>0. /\ NumBackends \in Nat /\ None \notin Backends /\ pos \in 0 .. NumBackends
      /\ pos \in Nat /\ best \in Nat /\ selected \in Backends \cup {None}
      /\ \A b \in Backends : metric[b] \in Nat /\ low[b] \in Nat /\ high[b] \in Nat
      /\ steady \subseteq Backends
  BY Numbers DEF TypeOK
<1>1. CASE Call
  <2>1. Passed' = {}
    BY <1>1 DEF Call, Passed
  <2> QED BY <1>0, <1>1, <2>1 DEF Call, ScanOK, TypeOK
<1>2. CASE Skip
  <2>1. Passed' \subseteq Passed \cup {pos} /\ pos \notin steady
    BY <1>0, <1>2 DEF Skip, Passed, ScanOK
  <2> QED BY <1>0, <1>2, <2>1 DEF Skip, ScanOK
<1>3. CASE Look
  BY <1>0, <1>3 DEF Look, ScanOK, Passed
<1>4. CASE Read
  <2>1. /\ Passed' \subseteq Passed \cup {pos} /\ pos \in Backends
        /\ at' = "look" /\ pos' = pos + 1 /\ at = "read"
        /\ UNCHANGED <<steady, low, high, metric, available>>
        /\ low[pos] <= metric[pos] /\ metric[pos] <= high[pos]
    BY <1>0, <1>4 DEF Read, Passed, ScanOK, Backends
  <2>2. CASE Better(metric[pos])
    <3>1. selected' = pos /\ best' = metric[pos] /\ pos # None
      BY <1>0, <1>4, <2>1, <2>2 DEF Read
    <3>2. \A b \in steady \cap Passed : metric[pos] <= high[b]
      BY <1>0, <2>1, <2>2 DEF Better, ScanOK
    <3> QED BY <1>0, <2>1, <3>1, <3>2 DEF ScanOK
  <2>3. CASE ~Better(metric[pos])
    <3>1. /\ UNCHANGED <<selected, best>> /\ selected # None
          /\ best <= metric[pos]
      BY <1>0, <1>4, <2>1, <2>3 DEF Read, Better
    <3> QED BY <1>0, <2>1, <3>1 DEF ScanOK
  <2> QED BY <2>2, <2>3
<1>5. CASE Return
  BY <1>0, <1>5 DEF Return, ScanOK, Passed
<1>6. CASE Leave
  BY <1>0, <1>6 DEF Leave, ScanOK, Passed
<1>7. ASSUME NEW b \in Backends, Turn(b) PROVE ScanOK'
  BY <1>0, <1>7 DEF Turn, ScanOK, Passed
<1>8. ASSUME NEW b \in Backends, NEW value \in Values, Report(b, value)
      PROVE ScanOK'
  <2>1. /\ value \in Nat
        /\ UNCHANGED <<at, pos, selected, best, available, steady, Passed>>
    BY <1>8, ValuesAssumption DEF Report, Passed
  <2>2. \A c \in Backends : /\ low'[c] <= low[c] /\ high[c] <= high'[c]
                            /\ low'[c] \in Nat /\ high'[c] \in Nat
                            /\ low'[c] <= metric'[c] /\ metric'[c] <= high'[c]
    BY <1>0, <1>8, <2>1 DEF Report, TypeOK, ScanOK, LesserOf, GreaterOf
  <2> QED BY <1>0, <2>1, <2>2 DEF ScanOK
<1>9. CASE UNCHANGED vars
  BY <1>9 DEF vars, ScanOK, Passed
<1> QED BY <1>1, <1>2, <1>3, <1>4, <1>5, <1>6, <1>7, <1>8, <1>9
        DEF Next, NextBackend

LEMMA Inductive == Spec => []IInv
<1>1. IInv /\ [Next]_vars => IInv'
  BY TypeStep, ScanStep DEF IInv
<1> QED BY <1>1, InitIInv, PTL DEF Spec

LEMMA AllPassed ==
  ASSUME IInv, at = "returned" PROVE steady \cap Passed = steady
BY Numbers DEF IInv, ScanOK, TypeOK, Passed, Backends

----------------------------------------------------------------------------
(* The scan stays within the slice and its metrics (TypeOK).               *)
THEOREM TypeCorrect == Spec => []TypeOK
BY Inductive, PTL DEF IInv

(* No call returns nil while a backend stayed available (ScanFinds).       *)
THEOREM ScanTheorem == Spec => []ScanFinds
<1>1. IInv => ScanFinds
  BY AllPassed DEF IInv, ScanOK, ScanFinds
<1> QED BY <1>1, Inductive, PTL

(* The selected backend is as good as any that stayed available, as far as *)
(* readings taken at different times can tell (LeastSeen).                 *)
THEOREM LeastTheorem == Spec => []LeastSeen
<1>1. IInv => LeastSeen
  <2> SUFFICES ASSUME IInv, at = "returned", selected # None, NEW b \in steady
               PROVE  low[selected] <= high[b]
    BY DEF LeastSeen
  <2>1. low[selected] <= best /\ best <= high[b]
    BY AllPassed DEF IInv, ScanOK
  <2>2. selected \in Backends /\ b \in Backends
    BY DEF IInv, TypeOK
  <2> QED BY <2>1, <2>2, Numbers DEF IInv
<1> QED BY <1>1, Inductive, PTL
=============================================================================
