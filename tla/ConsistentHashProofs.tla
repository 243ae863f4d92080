------------------------ MODULE ConsistentHashProofs ------------------------
(***************************************************************************)
(* Proofs about module ConsistentHash, for any number of backends, virtual *)
(* nodes and callers, and any order of the hashes.                         *)
(***************************************************************************)
EXTENDS ConsistentHash, FiniteSetTheorems, TLAPS

Stores == {"storeLen", "storeNodes"}

CallType ==
  [at : {"idle", "empty", "validate", "build", "storeLen", "storeNodes", "usable", "search",
         "get", "returned", "panicked"},
   pos : 0 .. NumBackends, set : SUBSET Backends,
   lo : 0 .. Len(layout), hi : 0 .. Len(layout), result : Backends \cup {None}]

(* What the loops of a call l know: they took in every backend of st, the  *)
(* ones that stayed available, that they passed.                           *)
LoopOK(l, st) ==
  /\ l.at \in {"idle", "empty"} => l.pos = 0 /\ l.set = {}
  /\ l.at \in {"validate", "build"} => \A b \in st : b < l.pos => b \in l.set
  /\ l.at \in Stores => st \subseteq l.set
  /\ l.at = "search" => l.lo <= l.hi

(* What a call l knows of the ring of length n and of the backends set, on *)
(* which the key comes after k nodes, as long as no other call stores one. *)
Whole(l, st, n, set, k) ==
  /\ l.at = "storeNodes" => n = Length(l.set)
  /\ l.at = "storeLen" => set = l.set
  /\ l.at \notin Stores => n = Length(set)
  /\ l.at \in {"usable", "search", "get"} => Cardinality(st) <= Cardinality(set)
  /\ l.at = "search" => n # 0 /\ l.lo <= k /\ k <= l.hi /\ l.hi <= n
  /\ l.at = "get" => n # 0 /\ l.lo = IF k = n THEN 0 ELSE k
  /\ l.at = "returned" /\ l.result = None => st = {}
  /\ l.at # "panicked"

Unmixed(c) == \A d \in Callers \ {c} : call[d].at \notin Stores

Calls ==
  \A c \in Callers :
    /\ steady[c] \subseteq available
    /\ LoopOK(call[c], steady[c])

CleanCalls ==
  \A c \in Callers :
    clean[c] /\ ~At(c, "idle") =>
      Unmixed(c) /\ Whole(call[c], steady[c], len, nodes, KeyIn(nodes))

IInv == TypeOK /\ Calls /\ CleanCalls

----------------------------------------------------------------------------
(* Rings.                                                                  *)

(* The nodes of some backends are finitely many places of the layout.      *)
LEMMA PlacesFinite ==
  ASSUME layout \in Layouts, NEW set
  PROVE  /\ Len(layout) \in Nat /\ DOMAIN layout = 1 .. Len(layout)
         /\ \A i \in DOMAIN layout : layout[i] \in Backends
         /\ Places(set) \subseteq 1 .. Len(layout) /\ IsFiniteSet(Places(set))
         /\ Cardinality(Places(set)) \in Nat /\ Cardinality(Places(set)) <= Len(layout)
<1>1. layout \in Seq(Backends)
  BY LayoutsAssumption
<1>2. /\ Len(layout) \in Nat /\ DOMAIN layout = 1 .. Len(layout)
      /\ \A i \in DOMAIN layout : layout[i] \in Backends
  BY <1>1
<1>3. Places(set) \subseteq 1 .. Len(layout)
  BY <1>2 DEF Places
<1>4. IsFiniteSet(1 .. Len(layout)) /\ Cardinality(1 .. Len(layout)) = Len(layout)
  <2> DEFINE n == Len(layout)
  <2>1. n \in Nat /\ 1 \in Int
    BY <1>2
  <2> HIDE DEF n
  <2>2. n \in Int /\ (IF 1 > n THEN 0 ELSE n - 1 + 1) = n
    BY <2>1
  <2>3. IsFiniteSet(1 .. n) /\ Cardinality(1 .. n) = IF 1 > n THEN 0 ELSE n - 1 + 1
    BY <2>1, <2>2, FS_Interval, Zenon
  <2> QED
    BY <2>2, <2>3 DEF n
<1>5. IsFiniteSet(Places(set)) /\ Cardinality(Places(set)) <= Len(layout)
  BY <1>3, <1>4, FS_Subset
<1> QED
  BY <1>2, <1>3, <1>5, FS_CardinalityType

(* A set of backends is finite.                                            *)
LEMMA SomeBackends ==
  ASSUME NEW set \in SUBSET Backends
  PROVE  /\ IsFiniteSet(set) /\ Cardinality(set) \in Nat /\ Length(set) \in Nat
         /\ \A fewer \in SUBSET set : Cardinality(fewer) <= Cardinality(set)
<1>1. IsFiniteSet(Backends)
  BY FS_Interval, NumBackendsAssumption DEF Backends
<1>2. IsFiniteSet(set) /\ Cardinality(set) \in Nat
  BY <1>1, FS_Subset, FS_CardinalityType
<1>3. Length(set) \in Nat
  BY <1>2, VirtualNodesAssumption DEF Length
<1> QED
  BY <1>2, <1>3, FS_Subset

(* Each backend has its virtual nodes on a ring and no others.             *)
LEMMA NodeCount ==
  ASSUME layout \in Layouts, NEW set \in SUBSET Backends
  PROVE  Cardinality(Places(set)) = Length(set)
<1> DEFINE mine(b) == {i \in DOMAIN layout : layout[i] = b}
           copies == 1 .. VirtualNodes
           f == [b \in set |-> CHOOSE g : g \in Bijection(copies, mine(b))]
           h == [x \in set \X copies |-> f[x[1]][x[2]]]
<1>1. ASSUME NEW b \in set PROVE f[b] \in Bijection(copies, mine(b))
  <2>1. mine(b) \subseteq Places(set)
    BY DEF Places
  <2>2. IsFiniteSet(mine(b))
    BY <2>1, PlacesFinite, FS_Subset
  <2>3. Cardinality(mine(b)) = VirtualNodes
    BY LayoutsAssumption
  <2>4. ExistsBijection(copies, mine(b))
    BY <2>2, <2>3, FS_CardinalityType
  <2> QED
    BY <2>4 DEF ExistsBijection
<1> HIDE DEF f
<1>2. ASSUME NEW b \in set, NEW v \in copies
      PROVE  f[b][v] \in Places(set) /\ layout[f[b][v]] = b
  <2>1. f[b][v] \in mine(b)
    BY <1>1 DEF Bijection, Injection
  <2> QED
    BY <2>1 DEF Places
<1>3. h \in [set \X copies -> Places(set)]
  BY <1>2
<1>4. ASSUME NEW x \in set \X copies, NEW y \in set \X copies, h[x] = h[y]
      PROVE  x = y
  <2>1. f[x[1]][x[2]] = f[y[1]][y[2]]
    BY <1>4
  <2>2. x[1] = y[1]
    BY <1>2, <2>1
  <2>3. x[2] = y[2]
    <3>1. x[1] \in set /\ x[2] \in copies /\ y[2] \in copies
      OBVIOUS
    <3>2. \A v, w \in copies : f[x[1]][v] = f[x[1]][w] => v = w
      BY <1>1, <3>1 DEF Bijection, Injection, IsInjective
    <3> QED
      BY <2>1, <2>2, <3>1, <3>2
  <2> QED
    BY <2>2, <2>3
<1>5. ASSUME NEW i \in Places(set) PROVE \E x \in set \X copies : h[x] = i
  <2>1. layout[i] \in set /\ i \in mine(layout[i])
    BY DEF Places
  <2>2. PICK v \in copies : f[layout[i]][v] = i
    BY <1>1, <2>1 DEF Bijection, Surjection
  <2>3. <<layout[i], v>> \in set \X copies /\ h[<<layout[i], v>>] = i
    BY <2>1, <2>2
  <2> QED
    BY <2>3
<1>6. h \in Bijection(set \X copies, Places(set))
  BY <1>3, <1>4, <1>5 DEF Bijection, Injection, Surjection, IsInjective
<1>7. IsFiniteSet(copies) /\ Cardinality(copies) = VirtualNodes
  BY FS_Interval, VirtualNodesAssumption
<1>8. /\ IsFiniteSet(set \X copies)
      /\ Cardinality(set \X copies) = Cardinality(set) * VirtualNodes
  BY <1>7, SomeBackends, FS_Product
<1>9. Cardinality(Places(set)) = Cardinality(set) * VirtualNodes
  BY <1>6, <1>8, FS_Bijection DEF ExistsBijection
<1> QED
  BY <1>9, SomeBackends, VirtualNodesAssumption DEF Length

(* The length of a ring tells how many backends are on it, not which.      *)
LEMMA LengthCounts ==
  ASSUME NEW r \in SUBSET Backends, NEW s \in SUBSET Backends, Length(r) = Length(s)
  PROVE  Cardinality(r) = Cardinality(s)
<1>1. ASSUME NEW x \in Nat, NEW y \in Nat, x < y PROVE VirtualNodes * x < VirtualNodes * y
  <2>1. y - x - 1 \in Nat /\ VirtualNodes * (y - x - 1) \in Nat
    BY <1>1, VirtualNodesAssumption
  <2>2. VirtualNodes * y = VirtualNodes * x + VirtualNodes + VirtualNodes * (y - x - 1)
    BY VirtualNodesAssumption
  <2>3. VirtualNodes * x \in Nat /\ VirtualNodes * y \in Nat
    BY VirtualNodesAssumption
  <2> QED
    BY <2>1, <2>2, <2>3, VirtualNodesAssumption
<1>2. Cardinality(r) \in Nat /\ Cardinality(s) \in Nat
  BY SomeBackends
<1> QED
  BY <1>1, <1>2, SomeBackends DEF Length

(* A ring of no backends is empty.                                         *)
LEMMA NoNodes == Length({}) = 0
BY FS_EmptySet, VirtualNodesAssumption DEF Length

(* Counting the nodes before a place goes up from node to node.            *)
LEMMA BeforeRank ==
  ASSUME layout \in Layouts, NEW set
  PROVE  /\ \A i \in Int : Before(set, i) \in Nat /\ Before(set, i) <= Cardinality(Places(set))
         /\ \A i, j \in Int : i <= j => Before(set, i) <= Before(set, j)
         /\ \A i \in Places(set), j \in Int : i < j => Before(set, i) < Before(set, j)
         /\ \A i \in Places(set) : Before(set, i) < Cardinality(Places(set))
<1> DEFINE P == Places(set)
           Less(i) == {j \in P : j < i}
<1>1. IsFiniteSet(P) /\ P \subseteq Int
  BY PlacesFinite
<1>2. ASSUME NEW i \in Int
      PROVE  /\ IsFiniteSet(Less(i)) /\ Cardinality(Less(i)) \in Nat
             /\ Cardinality(Less(i)) <= Cardinality(P)
  BY <1>1, FS_Subset, FS_CardinalityType
<1>3. ASSUME NEW i \in Int, NEW j \in Int, i <= j
      PROVE  Cardinality(Less(i)) <= Cardinality(Less(j))
  <2>1. Less(i) \subseteq Less(j)
    BY <1>1, <1>3
  <2> QED
    BY <1>2, <2>1, FS_Subset
<1>4. ASSUME NEW i \in P, NEW S, IsFiniteSet(S), Less(i) \cup {i} \subseteq S
      PROVE  Cardinality(Less(i)) < Cardinality(S)
  <2>1. i \notin Less(i) /\ i \in Int
    BY <1>1
  <2>2. Cardinality(Less(i) \cup {i}) = Cardinality(Less(i)) + 1
    BY <1>2, <2>1, FS_AddElement
  <2>3. Cardinality(Less(i) \cup {i}) <= Cardinality(S)
    BY <1>4, FS_Subset
  <2> QED
    BY <1>2, <1>4, <2>1, <2>2, <2>3, FS_CardinalityType
<1>5. ASSUME NEW i \in P, NEW j \in Int, i < j
      PROVE  Cardinality(Less(i)) < Cardinality(Less(j))
  <2>1. Less(i) \cup {i} \subseteq Less(j)
    BY <1>1, <1>5
  <2> QED
    BY <1>2, <1>4, <2>1
<1>6. ASSUME NEW i \in P PROVE Cardinality(Less(i)) < Cardinality(P)
  BY <1>1, <1>4
<1> QED
  BY <1>2, <1>3, <1>5, <1>6 DEF Before

(* Every number below the length of the ring is that of a node.            *)
LEMMA NodeExists ==
  ASSUME layout \in Layouts, NEW set \in SUBSET Backends, NEW n \in Nat, n < Length(set)
  PROVE  \E i \in Places(set) : Before(set, i) = n /\ Node(set, n) = layout[i]
<1> DEFINE P == Places(set)
           f == [i \in P |-> Before(set, i)]
           ranks == 0 .. (Length(set) - 1)
<1>1. P \subseteq Int /\ Cardinality(P) = Length(set) /\ Length(set) \in Nat
  BY PlacesFinite, NodeCount, SomeBackends
<1>2. f \in [P -> ranks]
  BY <1>1, BeforeRank
<1>3. ASSUME NEW i \in P, NEW j \in P, f[i] = f[j] PROVE i = j
  <2>1. ~(i < j) /\ ~(j < i)
    BY <1>1, <1>3, BeforeRank
  <2> QED
    BY <1>1, <2>1
<1>4. f \in Injection(P, ranks)
  BY <1>2, <1>3 DEF Injection, IsInjective
<1>5. IsFiniteSet(ranks) /\ Cardinality(ranks) = Length(set)
  <2>1. 0 \in Int /\ Length(set) - 1 \in Int
    BY <1>1
  <2>2. Cardinality(ranks) = IF 0 > Length(set) - 1 THEN 0 ELSE (Length(set) - 1) - 0 + 1
    BY <2>1, FS_Interval
  <2> QED
    BY <1>1, <2>1, <2>2, FS_Interval
<1>6. f \in Surjection(P, ranks)
  BY <1>1, <1>4, <1>5, FS_Injection
<1>7. \E i \in P : Before(set, i) = n
  <2>1. n \in ranks
    BY <1>1
  <2>2. PICK i \in P : f[i] = n
    BY <1>6, <2>1 DEF Surjection
  <2> QED
    BY <2>2
<1> QED
  BY <1>7 DEF Node

(* How far round the ring place i is, counted from the key.                *)
FromKey(i) == IF i > keyRank THEN i ELSE i + Len(layout)

(* The node that lookup takes is the first one that follows the key, round *)
(* the ring.                                                               *)
LEMMA FirstFollows ==
  ASSUME layout \in Layouts, keyRank \in 0 .. Len(layout), NEW set \in SUBSET Backends,
         NEW n, n = IF KeyIn(set) = Length(set) THEN 0 ELSE KeyIn(set), Length(set) # 0
  PROVE  /\ n \in Nat /\ n < Length(set)
         /\ \E i \in Places(set) :
              /\ Node(set, n) = layout[i]
              /\ \A j \in Places(set) : FromKey(i) <= FromKey(j)
<1> DEFINE P == Places(set)
<1>1. /\ Len(layout) \in Nat /\ keyRank \in Nat /\ P \subseteq 1 .. Len(layout)
      /\ Length(set) \in Nat /\ Cardinality(P) = Length(set)
  BY PlacesFinite, NodeCount, SomeBackends
<1>2. KeyIn(set) \in Nat /\ KeyIn(set) <= Length(set)
  <2>1. keyRank + 1 \in Int
    BY <1>1
  <2>2. /\ Before(set, keyRank + 1) \in Nat
        /\ Before(set, keyRank + 1) <= Cardinality(P)
    BY <2>1, BeforeRank, Zenon
  <2> QED
    BY <1>1, <2>2 DEF KeyIn
<1>3. n \in Nat /\ n < Length(set)
  BY <1>1, <1>2
<1>4. PICK i \in P : Before(set, i) = n /\ Node(set, n) = layout[i]
  BY <1>3, NodeExists
<1>5. ASSUME NEW j \in P PROVE FromKey(i) <= FromKey(j)
  <2>0. i \in Int /\ j \in Int /\ keyRank + 1 \in Int
    BY <1>1
  <2>1. j < keyRank + 1 => Before(set, j) < KeyIn(set)
    BY <1>1, <2>0, BeforeRank DEF KeyIn
  <2>2. ~(j < keyRank + 1) => KeyIn(set) <= Before(set, j)
    BY <1>1, <2>0, BeforeRank DEF KeyIn
  <2>3. i < keyRank + 1 => Before(set, i) < KeyIn(set)
    BY <1>1, <2>0, BeforeRank DEF KeyIn
  <2>4. j < i => Before(set, j) < Before(set, i)
    BY <2>0, BeforeRank
  <2>5. Before(set, j) \in Nat /\ Before(set, j) < Length(set)
    BY <1>1, <2>0, BeforeRank
  <2>6. CASE KeyIn(set) = Length(set)
    <3>1. n = 0 /\ j < keyRank + 1 /\ ~(j < i)
      BY <1>1, <1>4, <2>2, <2>4, <2>5, <2>6
    <3> QED
      BY <1>1, <3>1 DEF FromKey
  <2>7. CASE KeyIn(set) # Length(set)
    <3>1. n = KeyIn(set) /\ ~(i < keyRank + 1)
      BY <1>2, <1>4, <2>3, <2>7
    <3>2. ~(j < keyRank + 1) => ~(j < i)
      BY <1>2, <1>4, <2>2, <2>4, <2>5, <3>1
    <3> QED
      BY <1>1, <3>1, <3>2 DEF FromKey
  <2> QED
    BY <2>6, <2>7
<1> QED
  BY <1>3, <1>4, <1>5

(* No two nodes are as far from the key, so the first one is the owner's.  *)
LEMMA OwnerFirst ==
  ASSUME layout \in Layouts, keyRank \in 0 .. Len(layout), NEW set \in SUBSET Backends,
         NEW i \in Places(set), \A j \in Places(set) : FromKey(i) <= FromKey(j)
  PROVE  Owner(set) = layout[i]
<1> DEFINE P == Places(set)
           First(k) == k \in P /\ \A j \in P : FromKey(k) <= FromKey(j)
<1>1. Len(layout) \in Nat /\ keyRank \in Nat /\ P \subseteq 1 .. Len(layout)
  BY PlacesFinite
<1>2. ASSUME NEW k, First(k) PROVE k = i
  <2>1. k \in 1 .. Len(layout) /\ i \in 1 .. Len(layout)
    BY <1>1, <1>2
  <2>2. FromKey(k) <= FromKey(i) /\ FromKey(i) <= FromKey(k)
    BY <1>2
  <2> QED
    BY <1>1, <2>1, <2>2 DEF FromKey
<1>3. (CHOOSE k \in P : \A j \in P : FromKey(k) <= FromKey(j)) = i
  <2>1. First(i) /\ \A k : First(k) => k = i
    BY <1>2
  <2> QED
    BY <2>1
<1>4. Owner(set) = layout[CHOOSE k \in P : \A j \in P : FromKey(k) <= FromKey(j)]
  BY DEF Owner, FromKey
<1> QED
  BY <1>3, <1>4

(* The node that follows the key, round the ring, is the owner's.          *)
LEMMA OwnerFollows ==
  ASSUME layout \in Layouts, keyRank \in 0 .. Len(layout), NEW set \in SUBSET Backends,
         NEW n, n = IF KeyIn(set) = Length(set) THEN 0 ELSE KeyIn(set), Length(set) # 0
  PROVE  n \in Nat /\ n < Length(set) /\ Node(set, n) = Owner(set)
<1>1. /\ n \in Nat /\ n < Length(set)
      /\ \E i \in Places(set) :
           /\ Node(set, n) = layout[i]
           /\ \A j \in Places(set) : FromKey(i) <= FromKey(j)
  BY FirstFollows
<1>2. PICK i \in Places(set) :
        /\ Node(set, n) = layout[i]
        /\ \A j \in Places(set) : FromKey(i) <= FromKey(j)
  BY <1>1
<1>3. Owner(set) = layout[i]
  BY <1>2, OwnerFirst
<1> QED
  BY <1>1, <1>2, <1>3

(* What makes the hash consistent: a ring that loses backends other than   *)
(* the key's owner keeps that owner, and a ring that gains backends gives  *)
(* the key to one of them or leaves it where it was.                       *)
LEMMA OwnerStays ==
  ASSUME layout \in Layouts, keyRank \in 0 .. Len(layout), NEW set \in SUBSET Backends,
         NEW fewer \in SUBSET set, Owner(set) \in fewer
  PROVE  Owner(fewer) = Owner(set)
<1> DEFINE n == IF KeyIn(set) = Length(set) THEN 0 ELSE KeyIn(set)
<1>1. Length(set) # 0
  <2>1. IsFiniteSet(set) /\ Cardinality(set) \in Nat /\ set # {}
    BY SomeBackends
  <2>2. Cardinality(set) # 0
    BY <2>1, FS_EmptySet
  <2>3. Cardinality(set) >= 1 /\ VirtualNodes \in Nat /\ VirtualNodes >= 1
    BY <2>1, <2>2, VirtualNodesAssumption
  <2>4. VirtualNodes * Cardinality(set) # 0
    BY <2>1, <2>3, SMTT(30)
  <2> QED
    BY <2>4 DEF Length
<1>2. \E i \in Places(set) :
        /\ Node(set, n) = layout[i]
        /\ \A j \in Places(set) : FromKey(i) <= FromKey(j)
  <2> HIDE DEF FromKey
  <2> QED
    BY <1>1, FirstFollows
<1>3. PICK i \in Places(set) : \A j \in Places(set) : FromKey(i) <= FromKey(j)
  BY <1>2
<1>4. Owner(set) = layout[i]
  BY <1>3, OwnerFirst
<1>5. i \in Places(fewer) /\ Places(fewer) \subseteq Places(set)
  BY <1>4 DEF Places
<1>6. fewer \in SUBSET Backends /\ \A j \in Places(fewer) : FromKey(i) <= FromKey(j)
  BY <1>3, <1>5
<1>7. Owner(fewer) = layout[i]
  BY <1>5, <1>6, OwnerFirst
<1> QED
  BY <1>4, <1>7

----------------------------------------------------------------------------
(* The calls.                                                              *)

(* It holds of the empty ring of NewConsistentHash.                        *)
LEMMA InitIInv == Init => IInv
<1> SUFFICES ASSUME Init PROVE IInv
  OBVIOUS
<1> USE DEF Init, NotCalled
<1>1. TypeOK
  <2>1. Len(layout) \in Nat
    BY PlacesFinite
  <2>2. len \in {Length(set) : set \in SUBSET Backends}
    BY NoNodes
  <2> QED
    BY <2>1, <2>2, NumBackendsAssumption DEF TypeOK
<1>2. Calls /\ CleanCalls
  BY DEF Calls, LoopOK, Stores, CleanCalls, At
<1> QED
  BY <1>1, <1>2 DEF IInv

(* The numbers of a state.                                                 *)
LEMMA Numbers ==
  ASSUME TypeOK
  PROVE  /\ layout \in Layouts /\ Len(layout) \in Nat /\ keyRank \in 0 .. Len(layout)
         /\ len \in Nat /\ len <= Len(layout)
         /\ nodes \in SUBSET Backends /\ Length(nodes) \in Nat
         /\ KeyIn(nodes) \in Nat /\ KeyIn(nodes) <= Length(nodes)
         /\ NumBackends \in Nat
<1>1. layout \in Layouts /\ keyRank \in 0 .. Len(layout) /\ nodes \in SUBSET Backends
  BY DEF TypeOK
<1>2. Len(layout) \in Nat
  BY <1>1, PlacesFinite
<1>3. PICK set \in SUBSET Backends : len = Length(set)
  BY DEF TypeOK
<1>4. len \in Nat /\ len <= Len(layout)
  BY <1>1, <1>3, NodeCount, SomeBackends, PlacesFinite
<1>5. KeyIn(nodes) \in Nat /\ KeyIn(nodes) <= Length(nodes)
  <2>1. keyRank + 1 \in Int /\ Cardinality(Places(nodes)) = Length(nodes)
    BY <1>1, <1>2, NodeCount
  <2> QED
    BY <1>1, <2>1, BeforeRank DEF KeyIn
<1> QED
  BY <1>1, <1>2, <1>4, <1>5, SomeBackends, NumBackendsAssumption

(* A step of c that changes nothing but its own variables.                 *)
LEMMA ReadStep ==
  ASSUME IInv, NEW c \in Callers, Reading, ~At(c, "idle"),
         call' \in [Callers -> CallType], \A d \in Callers \ {c} : call'[d] = call[d],
         call'[c].at \notin Stores, LoopOK(call'[c], steady[c]),
         clean[c] => Whole(call'[c], steady[c], len, nodes, KeyIn(nodes))
  PROVE  IInv'
<1>0. UNCHANGED <<layout, keyRank, len, nodes, available, steady, clean>>
  BY DEF Reading, place, ring, history
<1>1. TypeOK'
  BY <1>0 DEF IInv, TypeOK, CallType
<1>2. Calls'
  BY <1>0 DEF IInv, Calls
<1>3. KeyIn(nodes)' = KeyIn(nodes)
  BY <1>0 DEF KeyIn, Before, Places
<1>4. CleanCalls'
  <2> SUFFICES ASSUME NEW d \in Callers, clean[d], call'[d].at # "idle"
               PROVE  /\ \A e \in Callers \ {d} : call'[e].at \notin Stores
                      /\ Whole(call'[d], steady[d], len, nodes, KeyIn(nodes))
    BY <1>0, <1>3 DEF CleanCalls, Unmixed, At
  <2>1. call[d].at # "idle"
    BY DEF At
  <2> QED
    BY <2>1 DEF IInv, CleanCalls, Unmixed, At
<1> QED
  BY <1>1, <1>2, <1>4 DEF IInv

(* A call begins, clean if the ring is whole and nobody is storing         *)
(* another.                                                                *)
LEMMA CallStep ==
  ASSUME IInv, NEW c \in Callers, Call(c) PROVE IInv'
<1>0. /\ UNCHANGED <<layout, keyRank, len, nodes, available>>
      /\ call[c].at = "idle" /\ call' = [call EXCEPT ![c].at = "empty"]
      /\ steady' = [steady EXCEPT ![c] = available]
      /\ clean' = [clean EXCEPT ![c] = /\ len = Length(nodes)
                                      /\ \A d \in Callers : call[d].at \notin Stores]
  BY DEF Call, At, Goto, place, ring, Stores
<1>1. TypeOK'
  <2>1. call \in [Callers -> CallType]
    BY DEF IInv, TypeOK, CallType
  <2>2. call' \in [Callers -> CallType]
    <3> DEFINE m == [call[c] EXCEPT !.at = "empty"]
    <3>1. call' = [call EXCEPT ![c] = m]
      BY <1>0, <2>1
    <3>2. m \in CallType
      <4>1. call[c] \in CallType
        BY <2>1
      <4> QED
        BY <4>1 DEF CallType
    <3> HIDE DEF m
    <3>3. CallType' = CallType
      BY <1>0 DEF CallType
    <3> QED
      BY <2>1, <3>1, <3>2
  <2>3. steady' \in [Callers -> SUBSET Backends] /\ clean' \in [Callers -> BOOLEAN]
    BY <1>0 DEF IInv, TypeOK
  <2> QED
    BY <1>0, <2>2, <2>3 DEF IInv, TypeOK, CallType
<1>2. /\ \A d \in Callers \ {c} : call'[d] = call[d] /\ steady'[d] = steady[d] /\ clean'[d] = clean[d]
      /\ call'[c].at = "empty" /\ call'[c].pos = call[c].pos /\ call'[c].set = call[c].set
      /\ steady'[c] = available
      /\ clean'[c] = (len = Length(nodes) /\ \A d \in Callers : call[d].at \notin Stores)
  BY <1>0 DEF IInv, TypeOK
<1>3. Calls'
  BY <1>0, <1>2 DEF IInv, Calls, LoopOK, Stores
<1>4. KeyIn(nodes)' = KeyIn(nodes)
  BY <1>0 DEF KeyIn, Before, Places
<1>5. CleanCalls'
  <2> SUFFICES ASSUME NEW d \in Callers, clean'[d], call'[d].at # "idle"
               PROVE  /\ \A e \in Callers \ {d} : call'[e].at \notin Stores
                      /\ Whole(call'[d], steady'[d], len, nodes, KeyIn(nodes))
    BY <1>0, <1>4 DEF CleanCalls, Unmixed, At
  <2>1. CASE d = c
    BY <1>2, <2>1 DEF Whole, Stores
  <2>2. CASE d # c
    BY <1>2, <2>2 DEF IInv, CleanCalls, Unmixed, At, Stores
  <2> QED
    BY <2>1, <2>2
<1> QED
  BY <1>1, <1>3, <1>5 DEF IInv

(* A call ends, and is judged no more.                                     *)
LEMMA LeaveStep ==
  ASSUME IInv, NEW c \in Callers, Leave(c) PROVE IInv'
<1>0. /\ UNCHANGED <<layout, keyRank, len, nodes, available>>
      /\ call' = [call EXCEPT ![c] = NotCalled]
      /\ steady' = [steady EXCEPT ![c] = {}]
      /\ clean' = [clean EXCEPT ![c] = TRUE]
  BY DEF Leave, place, ring
<1>1. TypeOK'
  <2>1. NotCalled \in CallType
    BY Numbers DEF IInv, NotCalled, CallType
  <2>2. call \in [Callers -> CallType]
    BY DEF IInv, TypeOK, CallType
  <2>3. call' \in [Callers -> CallType]
    BY <1>0, <2>1, <2>2
  <2>4. steady' \in [Callers -> SUBSET Backends] /\ clean' \in [Callers -> BOOLEAN]
    BY <1>0 DEF IInv, TypeOK
  <2> QED
    BY <1>0, <2>3, <2>4 DEF IInv, TypeOK, CallType
<1>2. /\ \A d \in Callers \ {c} : call'[d] = call[d] /\ steady'[d] = steady[d] /\ clean'[d] = clean[d]
      /\ call'[c] = NotCalled /\ steady'[c] = {}
  BY <1>0 DEF IInv, TypeOK
<1>3. Calls'
  BY <1>0, <1>2 DEF IInv, Calls, LoopOK, Stores, NotCalled
<1>4. KeyIn(nodes)' = KeyIn(nodes)
  BY <1>0 DEF KeyIn, Before, Places
<1>5. CleanCalls'
  <2> SUFFICES ASSUME NEW d \in Callers, clean'[d], call'[d].at # "idle"
               PROVE  /\ \A e \in Callers \ {d} : call'[e].at \notin Stores
                      /\ Whole(call'[d], steady'[d], len, nodes, KeyIn(nodes))
    BY <1>0, <1>4 DEF CleanCalls, Unmixed, At
  <2>1. d # c
    BY <1>2 DEF NotCalled
  <2> QED
    BY <1>2, <2>1 DEF IInv, CleanCalls, Unmixed, At, Stores, NotCalled
<1> QED
  BY <1>1, <1>3, <1>5 DEF IInv

(* A circuit turns: fewer backends have stayed available.                  *)
LEMMA TurnStep ==
  ASSUME IInv, NEW b \in Backends, Turn(b) PROVE IInv'
<1>0. /\ UNCHANGED <<layout, keyRank, len, nodes, call, clean>>
      /\ available' \in SUBSET Backends
      /\ steady' = [c \in Callers |-> steady[c] \cap available']
  BY DEF Turn, place, ring, IInv, TypeOK
<1>1. TypeOK'
  BY <1>0 DEF IInv, TypeOK
<1>2. Calls'
  BY <1>0 DEF IInv, Calls, LoopOK
<1>3. KeyIn(nodes)' = KeyIn(nodes)
  BY <1>0 DEF KeyIn, Before, Places
<1>4. CleanCalls'
  <2> SUFFICES ASSUME NEW d \in Callers, clean[d], call[d].at # "idle"
               PROVE  Unmixed(d) /\ Whole(call[d], steady'[d], len, nodes, KeyIn(nodes))
    BY <1>0, <1>3 DEF CleanCalls, Unmixed, At
  <2>1. Unmixed(d) /\ Whole(call[d], steady[d], len, nodes, KeyIn(nodes))
    BY DEF IInv, CleanCalls, At
  <2>2. steady'[d] \subseteq steady[d] /\ steady[d] \in SUBSET Backends
    BY <1>0 DEF IInv, TypeOK
  <2>3. /\ Cardinality(steady'[d]) <= Cardinality(steady[d])
        /\ Cardinality(steady[d]) \in Nat /\ Cardinality(steady'[d]) \in Nat
        /\ Cardinality(nodes) \in Nat
    BY <2>2, SomeBackends, Numbers DEF IInv
  <2> QED
    BY <2>1, <2>2, <2>3 DEF Whole
<1> QED
  BY <1>1, <1>2, <1>4 DEF IInv

(* A store of one word of the ring: from now on no other call's search can *)
(* be relied on, and with the second word this one's can.                  *)
LEMMA StoreStep ==
  ASSUME IInv, NEW c \in Callers, buildRing(c) PROVE IInv'
<1> DEFINE l == call[c]
<1>0. /\ UNCHANGED <<layout, keyRank, available, steady>>
      /\ clean' = [d \in Callers |-> clean[d] /\ (d = c \/ At(d, "idle"))]
      /\ \/ /\ l.at = "build" /\ l.pos = NumBackends
            /\ \/ call' = [call EXCEPT ![c].at = "storeNodes"] /\ len' = Length(l.set) /\ nodes' = nodes
               \/ call' = [call EXCEPT ![c].at = "storeLen"] /\ nodes' = l.set /\ len' = len
         \/ /\ call' = [call EXCEPT ![c].at = "usable"]
            /\ \/ l.at = "storeLen" /\ len' = Length(l.set) /\ nodes' = nodes
               \/ l.at = "storeNodes" /\ nodes' = l.set /\ len' = len
  BY DEF buildRing, StoreLen, StoreNodes, At, Goto, Disturb, place
<1>1. call \in [Callers -> CallType] /\ l \in CallType /\ l.set \in SUBSET Backends
  BY DEF IInv, TypeOK, CallType
<1>2. /\ \A d \in Callers \ {c} : call'[d] = call[d] /\ (clean'[d] => At(d, "idle"))
      /\ clean'[c] = clean[c]
  BY <1>0, <1>1 DEF IInv, TypeOK
<1>3. /\ call' \in [Callers -> CallType] /\ call'[c].set = l.set
      /\ \/ /\ l.at = "build" /\ l.pos = NumBackends
            /\ \/ call'[c].at = "storeNodes" /\ len' = Length(l.set)
               \/ call'[c].at = "storeLen" /\ nodes' = l.set
         \/ /\ l.at \in Stores /\ call'[c].at = "usable"
            /\ \/ l.at = "storeLen" /\ len' = Length(l.set) /\ nodes' = nodes
               \/ l.at = "storeNodes" /\ nodes' = l.set /\ len' = len
  <2>1. ASSUME NEW there \in Stores \cup {"usable"}, call' = [call EXCEPT ![c].at = there]
        PROVE  call' \in [Callers -> CallType] /\ call'[c].set = l.set /\ call'[c].at = there
    BY <1>1, <2>1 DEF CallType, Stores
  <2>2. {"storeNodes", "storeLen", "usable"} \subseteq Stores \cup {"usable"}
    BY DEF Stores
  <2>3. CASE l.at = "build"
    BY <1>0, <2>1, <2>2, <2>3 DEF Stores
  <2>4. CASE l.at \in Stores
    BY <1>0, <2>1, <2>2, <2>4 DEF Stores
  <2> QED
    BY <1>0, <2>3, <2>4 DEF Stores
<1>4. TypeOK'
  <2>1. nodes' \in SUBSET Backends /\ len' \in {Length(set) : set \in SUBSET Backends}
    BY <1>0, <1>1 DEF IInv, TypeOK
  <2>2. clean' \in [Callers -> BOOLEAN]
    BY <1>0 DEF IInv, TypeOK
  <2> QED
    BY <1>0, <1>3, <2>1, <2>2 DEF IInv, TypeOK, CallType
<1>5. steady[c] \subseteq l.set /\ steady[c] \in SUBSET Backends
  <2>1. \A b \in Backends : b < NumBackends
    BY NumBackendsAssumption DEF Backends
  <2> QED
    BY <1>3, <2>1 DEF IInv, TypeOK, Calls, LoopOK
<1>6. Calls'
  <2>1. LoopOK(call'[c], steady[c])
    BY <1>3, <1>5 DEF LoopOK, Stores
  <2> QED
    BY <1>0, <1>2, <2>1 DEF IInv, Calls
<1>7. CleanCalls'
  <2> SUFFICES ASSUME clean[c]
               PROVE  /\ \A e \in Callers \ {c} : call'[e].at \notin Stores
                      /\ Whole(call'[c], steady[c], len', nodes', KeyIn(nodes)')
    BY <1>0, <1>2 DEF CleanCalls, Unmixed, At
  <2>1. Unmixed(c) /\ Whole(l, steady[c], len, nodes, KeyIn(nodes))
    BY <1>3 DEF IInv, CleanCalls, At, Stores
  <2>2. \A e \in Callers \ {c} : call'[e].at \notin Stores
    BY <1>2, <2>1 DEF Unmixed
  <2>3. CASE call'[c].at \in Stores
    <3>1. \/ call'[c].at = "storeNodes" /\ len' = Length(l.set)
          \/ call'[c].at = "storeLen" /\ nodes' = l.set
      BY <1>3, <2>3 DEF Stores
    <3> QED
      BY <1>3, <2>2, <3>1 DEF Whole, Stores
  <2>4. CASE call'[c].at = "usable"
    <3>1. nodes' = l.set /\ len' = Length(l.set)
      BY <1>3, <2>1, <2>4 DEF Stores, Whole
    <3>2. Cardinality(steady[c]) <= Cardinality(l.set)
      BY <1>1, <1>5, SomeBackends
    <3> QED
      BY <2>2, <2>4, <3>1, <3>2 DEF Whole, Stores
  <2> QED
    BY <1>3, <2>3, <2>4 DEF Stores
<1> QED
  BY <1>4, <1>6, <1>7 DEF IInv

(* The steps of validateRing, and the loop of buildRing.                   *)
LEMMA LoopStep ==
  ASSUME IInv, NEW c \in Callers, Empty(c) \/ Check(c) \/ Compare(c) PROVE IInv'
<1> DEFINE l == call[c]
<1>1. /\ call \in [Callers -> CallType] /\ l \in CallType /\ l.set \in SUBSET Backends
      /\ l.pos \in Nat /\ steady[c] \in SUBSET Backends /\ Reading
  BY NumBackendsAssumption DEF IInv, TypeOK, CallType, Empty, Check, Compare
<1>2. /\ LoopOK(l, steady[c]) /\ steady[c] \subseteq available
      /\ clean[c] /\ l.at # "idle" => Whole(l, steady[c], len, nodes, KeyIn(nodes))
  BY DEF IInv, Calls, CleanCalls, At
<1>3. CASE Empty(c)
  <2>1. /\ l.at = "empty" /\ call'[c].at \in {"build", "validate"}
        /\ call'[c].pos = l.pos /\ call' \in [Callers -> CallType]
        /\ \A d \in Callers \ {c} : call'[d] = call[d]
    BY <1>1, <1>3 DEF Empty, At, Goto, CallType
  <2>2. LoopOK(call'[c], steady[c])
    BY <1>1, <1>2, <2>1 DEF LoopOK, Stores, Backends
  <2>3. clean[c] => Whole(call'[c], steady[c], len, nodes, KeyIn(nodes))
    BY <1>2, <2>1 DEF Whole, Stores
  <2> QED
    BY <1>1, <2>1, <2>2, <2>3, ReadStep DEF At, Stores
<1>4. CASE Check(c)
  <2>1. /\ l.at \in {"validate", "build"} /\ l.pos < NumBackends
        /\ call'[c].at = l.at /\ call'[c].pos = l.pos + 1
        /\ call'[c].set = l.set \cup ({l.pos} \cap available)
        /\ \A d \in Callers \ {c} : call'[d] = call[d]
    BY <1>1, <1>4 DEF Check
  <2>2. call' \in [Callers -> CallType]
    <3>1. l.pos + 1 \in 0 .. NumBackends
      BY <1>1, <2>1, NumBackendsAssumption
    <3>2. l.set \cup ({l.pos} \cap available) \in SUBSET Backends
      BY <1>1 DEF IInv, TypeOK
    <3> QED
      BY <1>1, <1>4, <3>1, <3>2 DEF Check, CallType
  <2>3. LoopOK(call'[c], steady[c])
    <3>1. ASSUME NEW b \in steady[c], b < l.pos + 1 PROVE b \in call'[c].set
      <4>1. b \in Int /\ b \in available
        BY <1>1, <1>2 DEF Backends
      <4>2. CASE b < l.pos
        BY <1>2, <2>1, <4>2 DEF LoopOK
      <4>3. CASE b = l.pos
        BY <2>1, <4>1, <4>3
      <4> QED
        BY <1>1, <3>1, <4>1, <4>2, <4>3
    <3> QED
      BY <2>1, <3>1 DEF LoopOK, Stores
  <2>4. clean[c] => Whole(call'[c], steady[c], len, nodes, KeyIn(nodes))
    BY <1>2, <2>1 DEF Whole, Stores
  <2> QED
    BY <1>1, <2>1, <2>2, <2>3, <2>4, ReadStep DEF At, Stores
<1>5. CASE Compare(c)
  <2>1. /\ l.at = "validate" /\ l.pos = NumBackends
        /\ call'[c].at = IF len = Length(l.set) THEN "usable" ELSE "build"
        /\ call'[c].pos = 0 /\ call'[c].set = {}
        /\ \A d \in Callers \ {c} : call'[d] = call[d]
    BY <1>1, <1>5 DEF Compare, At
  <2>2. call' \in [Callers -> CallType]
    <3>1. 0 \in 0 .. NumBackends /\ {} \in SUBSET Backends
      BY NumBackendsAssumption
    <3> QED
      BY <1>1, <1>5, <3>1 DEF Compare, CallType
  <2>3. LoopOK(call'[c], steady[c])
    BY <1>1, <2>1 DEF LoopOK, Stores, Backends
  <2>4. clean[c] => Whole(call'[c], steady[c], len, nodes, KeyIn(nodes))
    <3> SUFFICES ASSUME clean[c] PROVE Whole(call'[c], steady[c], len, nodes, KeyIn(nodes))
      OBVIOUS
    <3>1. len = Length(nodes)
      BY <1>2, <2>1 DEF Whole, Stores
    <3>2. ASSUME len = Length(l.set) PROVE Cardinality(steady[c]) <= Cardinality(nodes)
      <4>1. steady[c] \subseteq l.set
        <5>1. \A b \in Backends : b < NumBackends
          BY NumBackendsAssumption DEF Backends
        <5> QED
          BY <1>1, <1>2, <2>1, <5>1 DEF LoopOK
      <4>2. Cardinality(l.set) = Cardinality(nodes)
        BY <1>1, <3>1, <3>2, LengthCounts, Numbers DEF IInv
      <4> QED
        BY <1>1, <4>1, <4>2, SomeBackends
    <3> QED
      BY <2>1, <3>1, <3>2 DEF Whole, Stores
  <2> QED
    BY <1>1, <2>1, <2>2, <2>3, <2>4, ReadStep DEF At, Stores
<1> QED
  BY <1>3, <1>4, <1>5

(* sort.Search halves what is left of the ring.                            *)
LEMMA HalfWay ==
  ASSUME NEW lo \in Nat, NEW hi \in Nat, lo < hi
  PROVE  (lo + hi) \div 2 \in Nat /\ lo <= (lo + hi) \div 2 /\ (lo + hi) \div 2 < hi
OBVIOUS

(* The lookup.  On a whole ring the search closes in on the key's place,   *)
(* and no index is past the end.                                           *)
LEMMA SearchStep ==
  ASSUME IInv, NEW c \in Callers,
         ReturnNil(c) \/ Search(c) \/ Halve(c) \/ Wrap(c) \/ Get(c) \/ Fault(c)
  PROVE  IInv'
<1> DEFINE l == call[c]
           k == KeyIn(nodes)
<1>1. /\ call \in [Callers -> CallType] /\ l \in CallType
      /\ steady[c] \in SUBSET Backends /\ Reading
      /\ l.lo \in Nat /\ l.hi \in Nat /\ l.lo <= Len(layout) /\ l.hi <= Len(layout)
  BY Numbers DEF IInv, TypeOK, CallType, ReturnNil, Search, Halve, Wrap, Get, Fault, Panic
<1>2. /\ l.at = "search" => l.lo <= l.hi
      /\ clean[c] /\ l.at # "idle" => Whole(l, steady[c], len, nodes, k)
  BY DEF IInv, Calls, LoopOK, CleanCalls, At
<1>3. /\ Len(layout) \in Nat /\ len \in Nat /\ len <= Len(layout)
      /\ k \in Nat /\ k <= Length(nodes) /\ Length(nodes) \in Nat
  BY Numbers DEF IInv
<1> HIDE DEF k
<1>a. ASSUME NEW m \in CallType, call' = [call EXCEPT ![c] = m], l.at # "idle",
             m.at \in {"search", "get", "returned", "panicked"},
             m.at = "search" => m.lo <= m.hi,
             clean[c] => Whole(m, steady[c], len, nodes, k)
      PROVE  IInv'
  <2>1. call'[c] = m /\ \A d \in Callers \ {c} : call'[d] = call[d]
    BY <1>1, <1>a
  <2>2. call' \in [Callers -> CallType]
    BY <1>1, <1>a
  <2>3. LoopOK(m, steady[c]) /\ m.at \notin Stores
    BY <1>a DEF LoopOK, Stores
  <2> QED
    BY <1>1, <1>a, <2>1, <2>2, <2>3, ReadStep DEF At, k
<1>4. CASE ReturnNil(c)
  <2> DEFINE m == [l EXCEPT !.at = "returned"]
  <2>1. call' = [call EXCEPT ![c] = m] /\ l.at = "usable" /\ len = 0
    BY <1>4 DEF ReturnNil, At, Goto
  <2>2. m \in CallType /\ m.at = "returned"
    BY <1>1 DEF CallType
  <2>3. clean[c] => steady[c] = {} /\ len = Length(nodes)
    <3> SUFFICES ASSUME clean[c] PROVE steady[c] = {} /\ len = Length(nodes)
      OBVIOUS
    <3>1. len = Length(nodes) /\ Cardinality(steady[c]) <= Cardinality(nodes)
      BY <1>2, <2>1 DEF Whole, Stores
    <3>2. Cardinality(nodes) = Cardinality({})
      BY <2>1, <3>1, NoNodes, LengthCounts, Numbers DEF IInv
    <3>3. Cardinality(steady[c]) = 0 /\ IsFiniteSet(steady[c])
      BY <1>1, <3>1, <3>2, FS_EmptySet, SomeBackends
    <3> QED
      BY <3>1, <3>3, FS_EmptySet
  <2>4. clean[c] => Whole(m, steady[c], len, nodes, k)
    BY <2>2, <2>3 DEF Whole, Stores
  <2> HIDE DEF m
  <2> QED
    BY <1>a, <2>1, <2>2, <2>4
<1>5. CASE Search(c)
  <2> DEFINE m == [l EXCEPT !.at = "search", !.lo = 0, !.hi = len]
  <2>1. call' = [call EXCEPT ![c] = m] /\ l.at = "usable" /\ len # 0
    BY <1>5 DEF Search, At
  <2>2. m \in CallType /\ m.at = "search" /\ m.lo = 0 /\ m.hi = len
    <3>1. 0 \in 0 .. Len(layout) /\ len \in 0 .. Len(layout)
      BY <1>3
    <3> QED
      BY <1>1, <3>1 DEF CallType
  <2>3. clean[c] => Whole(m, steady[c], len, nodes, k)
    BY <1>2, <1>3, <2>1, <2>2 DEF Whole, Stores
  <2> HIDE DEF m
  <2>4. l.at # "idle" /\ m.lo <= m.hi
    BY <1>3, <2>1, <2>2
  <2> QED
    BY <1>a, <2>1, <2>2, <2>3, <2>4
<1>6. CASE Halve(c)
  <2>1. PICK reached \in HashReached(Middle(c)) :
          call' = [call EXCEPT ![c].lo = IF reached THEN @ ELSE Middle(c) + 1,
                               ![c].hi = IF reached THEN Middle(c) ELSE @]
    BY <1>6 DEF Halve
  <2>2. /\ l.at = "search" /\ l.lo < l.hi /\ Middle(c) < len
        /\ Middle(c) \in Nat /\ l.lo <= Middle(c) /\ Middle(c) < l.hi
    <3>1. l.at = "search" /\ l.lo < l.hi /\ Middle(c) < len
      BY <1>6 DEF Halve, At
    <3> QED
      BY <1>1, <3>1, HalfWay DEF Middle
  <2> DEFINE m == [l EXCEPT !.lo = IF reached THEN @ ELSE Middle(c) + 1,
                            !.hi = IF reached THEN Middle(c) ELSE @]
  <2>3. call' = [call EXCEPT ![c] = m]
    BY <1>1, <2>1
  <2>4. /\ m \in CallType /\ m.at = "search"
        /\ m.lo = (IF reached THEN l.lo ELSE Middle(c) + 1)
        /\ m.hi = (IF reached THEN Middle(c) ELSE l.hi)
    <3>1. /\ (IF reached THEN l.lo ELSE Middle(c) + 1) \in 0 .. Len(layout)
          /\ (IF reached THEN Middle(c) ELSE l.hi) \in 0 .. Len(layout)
      BY <1>1, <1>3, <2>2
    <3> QED
      BY <1>1, <2>2, <3>1 DEF CallType
  <2>5. m.lo <= m.hi
    BY <1>1, <2>2, <2>4
  <2>6. ASSUME clean[c] PROVE Whole(m, steady[c], len, nodes, k)
    <3>1. /\ len = Length(nodes) /\ len # 0 /\ l.lo <= k /\ k <= l.hi /\ l.hi <= len
          /\ Cardinality(steady[c]) <= Cardinality(nodes)
      BY <1>2, <2>2, <2>6 DEF Whole, Stores
    <3>2. reached = (Middle(c) >= k)
      <4>1. HashReached(Middle(c)) = {Middle(c) >= k}
        BY <2>2, <3>1 DEF HashReached, k
      <4>2. reached \in HashReached(Middle(c))
        BY <2>1, Zenon
      <4> QED
        BY <4>1, <4>2, Zenon
    <3>3. m.lo <= k /\ k <= m.hi /\ m.hi <= len
      <4> HIDE DEF m
      <4>1. k \in Int /\ l.lo \in Int /\ l.hi \in Int /\ len \in Int
        BY <1>1, <1>3 DEF k
      <4>2. CASE reached
        <5>1. Middle(c) >= k /\ m.lo = l.lo /\ m.hi = Middle(c)
          BY <2>4, <3>2, <4>2, Zenon
        <5> HIDE DEF k
        <5> QED
          BY <2>2, <3>1, <4>1, <5>1
      <4>3. CASE ~reached
        <5>1. ~(Middle(c) >= k) /\ m.lo = Middle(c) + 1 /\ m.hi = l.hi
          BY <2>4, <3>2, <4>3, Zenon
        <5> HIDE DEF k
        <5> QED
          BY <2>2, <3>1, <4>1, <5>1
      <4> QED
        BY <4>2, <4>3
    <3> QED
      BY <2>4, <3>1, <3>3 DEF Whole, Stores
  <2> HIDE DEF m
  <2> QED
    BY <1>a, <2>2, <2>3, <2>4, <2>5, <2>6
<1>7. CASE Wrap(c)
  <2> DEFINE m == [l EXCEPT !.at = "get", !.lo = IF @ = len THEN 0 ELSE @]
  <2>1. call' = [call EXCEPT ![c] = m] /\ l.at = "search" /\ l.lo = l.hi
    BY <1>7 DEF Wrap, At
  <2>2. m \in CallType /\ m.at = "get" /\ m.lo = IF l.lo = len THEN 0 ELSE l.lo
    <3>1. (IF l.lo = len THEN 0 ELSE l.lo) \in 0 .. Len(layout)
      BY <1>1, <1>3
    <3> QED
      BY <1>1, <3>1 DEF CallType
  <2>3. clean[c] => Whole(m, steady[c], len, nodes, k)
    BY <1>1, <1>2, <1>3, <2>1, <2>2 DEF Whole, Stores
  <2> HIDE DEF m
  <2> QED
    BY <1>a, <2>1, <2>2, <2>3
<1>8. CASE Get(c)
  <2>1. PICK b \in IdxAt(l.lo) : call' = [call EXCEPT ![c].at = "returned", ![c].result = b]
    BY <1>8 DEF Get
  <2>2. l.at = "get" /\ l.lo < len
    BY <1>8 DEF Get, At
  <2>3. l.lo < Length(nodes) => b \in Backends
    <3> SUFFICES ASSUME l.lo < Length(nodes) PROVE b \in Backends
      OBVIOUS
    <3>1. \E i \in Places(nodes) : Before(nodes, i) = l.lo /\ Node(nodes, l.lo) = layout[i]
      BY <1>1, NodeExists, Numbers DEF IInv
    <3>2. b = Node(nodes, l.lo)
      BY <2>1 DEF IdxAt
    <3> QED
      BY <3>1, <3>2, Numbers DEF Places, IInv
  <2>4. b \in Backends \cup {None}
    BY <2>1, <2>3 DEF IdxAt
  <2> DEFINE m == [l EXCEPT !.at = "returned", !.result = b]
  <2>5. m \in CallType /\ m.at = "returned" /\ m.result = b /\ call' = [call EXCEPT ![c] = m]
    BY <1>1, <2>1, <2>4 DEF CallType
  <2>6. ASSUME clean[c] PROVE Whole(m, steady[c], len, nodes, k)
    <3>1. len = Length(nodes)
      BY <1>2, <2>2, <2>6 DEF Whole, Stores
    <3>2. b # None
      BY <2>2, <2>3, <3>1 DEF Backends, None
    <3> QED
      BY <2>5, <3>1, <3>2 DEF Whole, Stores
  <2> HIDE DEF m
  <2> QED
    BY <1>a, <2>2, <2>5, <2>6
<1>9. CASE Fault(c)
  <2> DEFINE m == [l EXCEPT !.at = "panicked"]
  <2>1. call' = [call EXCEPT ![c] = m] /\ l.at \in {"search", "get"}
    BY <1>9 DEF Fault, Panic, At, Goto
  <2>2. m \in CallType /\ m.at = "panicked"
    BY <1>1 DEF CallType
  <2>3. ASSUME clean[c] PROVE FALSE
    <3>1. Whole(l, steady[c], len, nodes, k) /\ len = Length(nodes)
      BY <1>2, <2>1, <2>3 DEF Whole, Stores
    <3>2. l.at = "search" /\ l.lo < l.hi => Middle(c) < l.hi
      BY <1>1, HalfWay DEF Middle
    <3>3. l.at = "search" => l.hi <= len
      BY <3>1 DEF Whole
    <3>4. l.at = "get" => l.lo < len
      BY <1>3, <3>1 DEF Whole
    <3>5. \/ l.at = "search" /\ l.lo < l.hi /\ Middle(c) >= len
          \/ l.at = "get" /\ l.lo >= len
      BY <1>9, <3>1 DEF Fault, At
    <3>6. Middle(c) \in Int
      BY <1>1 DEF Middle
    <3> QED
      BY <1>1, <1>3, <3>2, <3>3, <3>4, <3>5, <3>6
  <2> HIDE DEF m
  <2> QED
    BY <1>a, <2>1, <2>2, <2>3
<1> QED
  BY <1>4, <1>5, <1>6, <1>7, <1>8, <1>9

(* The three parts hold always.                                            *)
LEMMA Inductive == Spec => []IInv
<1>1. IInv /\ [Next]_vars => IInv'
  <2>1. ASSUME IInv, UNCHANGED vars PROVE IInv'
    BY <2>1 DEF vars, place, ring, history, IInv, TypeOK, Calls, CleanCalls, Unmixed, At,
                KeyIn, Before, Places
  <2> QED
    BY <2>1, CallStep, LeaveStep, TurnStep, StoreStep, LoopStep, SearchStep DEF Next, NextBackend
<1> QED
  BY <1>1, InitIInv, PTL DEF Spec

----------------------------------------------------------------------------
(* The types: a call's indices stay within the longest ring, and c.ring    *)
(* within what buildRing makes, mixed up or not.                           *)
THEOREM TypeCorrect == Spec => []TypeOK
BY Inductive, PTL DEF IInv

(* However many calls read the ring at once, none panics or misses a       *)
(* backend that stays, unless another rebuilds it meanwhile (NextBackend). *)
THEOREM SoundTheorem == Spec => []SoundAlone
<1>1. IInv => SoundAlone
  <2> SUFFICES ASSUME IInv, NEW c \in Callers, clean[c], ~At(c, "idle")
               PROVE  /\ ~At(c, "panicked")
                      /\ At(c, "returned") /\ call[c].result = None => steady[c] = {}
    BY DEF SoundAlone, At
  <2> QED
    BY DEF IInv, CleanCalls, Whole, At
<1> QED
  BY <1>1, Inductive, PTL

(* validateRing keeps a ring only if it is of as many backends as are      *)
(* available, and buildRing takes all that are.                            *)
THEOREM RoomTheorem == Spec => []RoomForAll
<1>1. IInv => RoomForAll
  BY DEF IInv, CleanCalls, Whole, At, RoomForAll
<1> QED
  BY <1>1, Inductive, PTL

(* What a call returns from a whole ring is the owner of the key there:    *)
(* the binary search and the wrap-around are right for every order of the  *)
(* hashes.                                                                 *)
THEOREM OwnerTheorem == Spec => FindsOwner
<1> DEFINE Found == \A c \in Callers :
                      At(c, "get") /\ clean[c] /\ call'[c].at # "get" =>
                        call'[c].result = Owner(nodes)
<1>1. ASSUME IInv, IInv', [Next]_vars PROVE Found
  <2> SUFFICES ASSUME NEW c \in Callers, At(c, "get"), clean[c], call'[c].at # "get"
               PROVE  call'[c].result = Owner(nodes)
    OBVIOUS
  <2>1. Get(c) \/ Fault(c)
    <3>1. ASSUME NEW d \in Callers, d # c, NextBackend(d) PROVE call'[c] = call[c]
      BY <1>1, <3>1 DEF NextBackend, Call, Empty, Check, Compare, buildRing, StoreLen, StoreNodes,
                        ReturnNil, Search, Halve, Wrap, Get, Fault, Panic, Leave, Goto, IInv, TypeOK
    <3>2. ASSUME NextBackend(c) PROVE Get(c) \/ Fault(c)
      BY <3>2 DEF NextBackend, Call, Empty, Check, Compare, buildRing, StoreLen, StoreNodes,
                  ReturnNil, Search, Halve, Wrap, Leave, At
    <3>3. ASSUME UNCHANGED call PROVE FALSE
      BY <3>3 DEF At
    <3> QED
      BY <1>1, <3>1, <3>2, <3>3 DEF Next, Turn, vars, At
  <2>2. /\ Whole(call[c], steady[c], len, nodes, KeyIn(nodes)) /\ len = Length(nodes)
        /\ len # 0 /\ call[c].lo = IF KeyIn(nodes) = len THEN 0 ELSE KeyIn(nodes)
    BY <1>1 DEF IInv, CleanCalls, At, Whole, Stores
  <2>3. /\ call[c].lo \in Nat /\ call[c].lo < Length(nodes)
        /\ Node(nodes, call[c].lo) = Owner(nodes)
    BY <1>1, <2>2, OwnerFollows, Numbers DEF IInv
  <2>4. CASE Get(c)
    <3>1. PICK b \in IdxAt(call[c].lo) :
            call' = [call EXCEPT ![c].at = "returned", ![c].result = b]
      BY <2>4 DEF Get
    <3>2. b = Owner(nodes)
      BY <2>3, <3>1 DEF IdxAt
    <3> QED
      BY <1>1, <3>1, <3>2 DEF IInv, TypeOK
  <2>5. CASE Fault(c)
    <3>1. call'[c].at = "panicked" /\ clean'[c]
      BY <1>1, <2>5 DEF Fault, Panic, Goto, Reading, history, IInv, TypeOK
    <3> QED
      BY <1>1, <3>1 DEF IInv, CleanCalls, At, Whole
  <2> QED
    BY <2>1, <2>4, <2>5
<1>2. IInv /\ IInv' /\ [Next]_vars => [Found]_vars
  BY <1>1
<1> QED
  BY <1>2, Inductive, PTL DEF Spec, FindsOwner

(* And it is the owner on every smaller ring that still has it: while one  *)
(* backend goes or comes, the key stays where it is unless it goes with    *)
(* the one or to the other, which is what the strategy is for.             *)
KeyStays ==
  [][\A c \in Callers :
       At(c, "get") /\ clean[c] /\ call'[c].at # "get" =>
         \A fewer \in SUBSET nodes :
           call'[c].result \in fewer => Owner(fewer) = call'[c].result]_vars

THEOREM StaysTheorem == Spec => KeyStays
<1> DEFINE Found == \A c \in Callers :
                      At(c, "get") /\ clean[c] /\ call'[c].at # "get" =>
                        call'[c].result = Owner(nodes)
           Stays == \A c \in Callers :
                      At(c, "get") /\ clean[c] /\ call'[c].at # "get" =>
                        \A fewer \in SUBSET nodes :
                          call'[c].result \in fewer => Owner(fewer) = call'[c].result
<1>1. ASSUME IInv, Found PROVE Stays
  <2>1. layout \in Layouts /\ keyRank \in 0 .. Len(layout) /\ nodes \in SUBSET Backends
    BY <1>1 DEF IInv, TypeOK
  <2>2. \A fewer \in SUBSET nodes : Owner(nodes) \in fewer => Owner(fewer) = Owner(nodes)
    BY <2>1, OwnerStays
  <2> QED
    BY <1>1, <2>2
<1>2. IInv /\ [Found]_vars => [Stays]_vars
  BY <1>1
<1> QED
  BY <1>2, Inductive, OwnerTheorem, PTL DEF KeyStays, FindsOwner
=============================================================================
