--------------------------- MODULE ConsistentHash --------------------------
(***************************************************************************)
(* strategy/consistent_hash.go: NextBackend, called by many requests at    *)
(* once on a ring that they share without a lock and rebuild in place.     *)
(*                                                                         *)
(* Every request has the key "default", so the hashes matter only by their *)
(* order: that of the virtual nodes of all backends, and the place of the  *)
(* key among them.  A ring is then the set of backends whose nodes are in  *)
(* it.  c.ring is a slice, whose length and pointer are two words: a load  *)
(* may see the length of one ring and the nodes of another, and concurrent *)
(* stores may leave such a mixture behind.                                 *)
(***************************************************************************)
EXTENDS Integers, Sequences, FiniteSets

CONSTANTS
  NumBackends,    \* len(backends); NewServer refuses an empty slice
  VirtualNodes,   \* 50 or 100 in the code
  Callers,        \* requests that may choose at the same time
  Layouts         \* the orders the hashes of all nodes may have

Backends == 0 .. (NumBackends - 1)
None == -1

ASSUME NumBackendsAssumption == NumBackends \in Nat \ {0}
ASSUME VirtualNodesAssumption == VirtualNodes \in Nat \ {0}
ASSUME LayoutsAssumption ==
  \A order \in Layouts :
    /\ order \in Seq(Backends)
    /\ \A b \in Backends : Cardinality({i \in DOMAIN order : order[i] = b}) = VirtualNodes

VARIABLES
  layout,      \* the backends of all nodes, in the order of their hashes
  keyRank,     \* how many of these hashes are less than that of the key
  len,         \* len(c.ring)
  nodes,       \* what c.ring points at: the backends of its nodes
  available,   \* the backends that pass CheckCircuitState
  call,        \* call[c]: the variables of c's NextBackend
  steady,      \* steady[c]: available throughout c's call so far (history)
  clean        \* clean[c]: c saw one whole ring but for its own (history)

place == <<layout, keyRank>>
ring == <<len, nodes>>
history == <<steady, clean>>
vars == <<place, ring, available, call, history>>

(* Where the nodes of these backends are, and how many come before place i. *)
Places(set) == {i \in DOMAIN layout : layout[i] \in set}
Before(set, i) == Cardinality({j \in Places(set) : j < i})

(* A ring of these backends: its length, its i-th node, counted from 0, and *)
(* how many of its nodes have a hash less than the key's.                  *)
Length(set) == VirtualNodes * Cardinality(set)
Node(set, i) == layout[CHOOSE j \in Places(set) : Before(set, j) = i]
KeyIn(set) == Before(set, keyRank + 1)

NotCalled ==
  [at |-> "idle", pos |-> 0, set |-> {}, lo |-> 0, hi |-> 0, result |-> None]

Init ==
  /\ layout \in Layouts
  /\ keyRank \in 0 .. Len(layout)
  /\ len = 0
  /\ nodes = {}
  /\ available \in SUBSET Backends
  /\ call = [c \in Callers |-> NotCalled]
  /\ steady = [c \in Callers |-> {}]
  /\ clean = [c \in Callers |-> TRUE]

At(c, step) == call[c].at = step
Goto(c, step) == call' = [call EXCEPT ![c].at = step]
Reading == UNCHANGED <<place, ring, available, history>>

----------------------------------------------------------------------------
Call(c) ==
  /\ At(c, "idle")
  /\ Goto(c, "empty")
  /\ steady' = [steady EXCEPT ![c] = available]
  /\ clean' = [clean EXCEPT ![c] =
       /\ len = Length(nodes)
       /\ \A d \in Callers : call[d].at \notin {"storeLen", "storeNodes"}]
  /\ UNCHANGED <<place, ring, available>>

(* len(c.ring) == 0                                                        *)
Empty(c) ==
  /\ At(c, "empty")
  /\ Goto(c, IF len = 0 THEN "build" ELSE "validate")
  /\ Reading

(* Mutant: the loop goes one past the last backend.                        *)
Check_OneTooMany(c) ==
  /\ call[c].at \in {"validate", "build"} /\ call[c].pos <= NumBackends
  /\ call' = [call EXCEPT ![c].pos = @ + 1,
                          ![c].set = @ \cup ({call[c].pos} \cap available)]
  /\ Reading

(* One backend in the loop of validateRing or buildRing: set has those     *)
(* that may be tried.                                                      *)
Check(c) ==
  /\ call[c].at \in {"validate", "build"} /\ call[c].pos < NumBackends
  /\ call' = [call EXCEPT ![c].pos = @ + 1,
                          ![c].set = @ \cup ({call[c].pos} \cap available)]
  /\ Reading

(* Mutant: a ring that is shorter will do.                                 *)
Compare_Shorter(c) ==
  /\ At(c, "validate") /\ call[c].pos = NumBackends
  /\ call' = [call EXCEPT
       ![c].at = IF len <= Length(call[c].set) THEN "usable" ELSE "build",
       ![c].pos = 0, ![c].set = {}]
  /\ Reading

(* The end of validateRing: is the length what these backends need?        *)
Compare(c) ==
  /\ At(c, "validate") /\ call[c].pos = NumBackends
  /\ call' = [call EXCEPT
       ![c].at = IF len = Length(call[c].set) THEN "usable" ELSE "build",
       ![c].pos = 0, ![c].set = {}]
  /\ Reading

(* The end of buildRing: c.ring = ring, two words in either order.         *)
Disturb(c) ==
  /\ clean' = [d \in Callers |-> clean[d] /\ (d = c \/ At(d, "idle"))]
  /\ UNCHANGED <<place, available, steady>>

StoreLen(c) ==
  /\ \/ At(c, "build") /\ call[c].pos = NumBackends /\ Goto(c, "storeNodes")
     \/ At(c, "storeLen") /\ Goto(c, "usable")
  /\ len' = Length(call[c].set)
  /\ UNCHANGED nodes
  /\ Disturb(c)

StoreNodes(c) ==
  /\ \/ At(c, "build") /\ call[c].pos = NumBackends /\ Goto(c, "storeLen")
     \/ At(c, "storeNodes") /\ Goto(c, "usable")
  /\ nodes' = call[c].set
  /\ UNCHANGED len
  /\ Disturb(c)

----------------------------------------------------------------------------
(* The lookup.  Every use of c.ring loads it again.                        *)

(* Mutant: the search compares with > instead of >=.                       *)
HashReached_Strict(i) ==
  IF i < Length(nodes) THEN {i > KeyIn(nodes)} ELSE BOOLEAN

(* What c.ring[i] may find: a node, or, past the end of what the pointer   *)
(* points at, anything.                                                    *)
HashReached(i) ==
  IF i < Length(nodes) THEN {i >= KeyIn(nodes)} ELSE BOOLEAN
IdxAt(i) ==
  IF i < Length(nodes) THEN {Node(nodes, i)} ELSE Backends \cup {None}

Panic(c) == Goto(c, "panicked") /\ Reading

ReturnNil(c) ==
  /\ At(c, "usable") /\ len = 0
  /\ Goto(c, "returned")
  /\ Reading

(* sort.Search(len(c.ring), ...)                                           *)
Search(c) ==
  /\ At(c, "usable") /\ len # 0
  /\ call' = [call EXCEPT ![c].at = "search", ![c].lo = 0, ![c].hi = len]
  /\ Reading

Middle(c) == (call[c].lo + call[c].hi) \div 2

Halve(c) ==
  /\ At(c, "search") /\ call[c].lo < call[c].hi
  /\ Middle(c) < len
  /\ \E reached \in HashReached(Middle(c)) :
       call' = [call EXCEPT
         ![c].lo = IF reached THEN @ ELSE Middle(c) + 1,
         ![c].hi = IF reached THEN Middle(c) ELSE @]
  /\ Reading

(* Mutant: no wrap-around.                                                 *)
Wrap_Forgotten(c) ==
  /\ At(c, "search") /\ call[c].lo = call[c].hi
  /\ call' = [call EXCEPT ![c].at = "get"]
  /\ Reading

(* if idx == len(c.ring) { idx = 0 }                                       *)
Wrap(c) ==
  /\ At(c, "search") /\ call[c].lo = call[c].hi
  /\ call' = [call EXCEPT ![c].at = "get",
                          ![c].lo = IF @ = len THEN 0 ELSE @]
  /\ Reading

Get(c) ==
  /\ At(c, "get") /\ call[c].lo < len
  /\ \E b \in IdxAt(call[c].lo) :
       call' = [call EXCEPT ![c].at = "returned", ![c].result = b]
  /\ Reading

(* An index past the length panics; past the nodes it may fault.           *)
Fault(c) ==
  /\ \/ At(c, "search") /\ call[c].lo < call[c].hi
          /\ Middle(c) >= (IF len < Length(nodes) THEN len ELSE Length(nodes))
     \/ At(c, "get")
          /\ call[c].lo >= (IF len < Length(nodes) THEN len ELSE Length(nodes))
  /\ Panic(c)

Leave(c) ==
  /\ call[c].at \in {"returned", "panicked"}
  /\ call' = [call EXCEPT ![c] = NotCalled]
  /\ steady' = [steady EXCEPT ![c] = {}]
  /\ clean' = [clean EXCEPT ![c] = TRUE]
  /\ UNCHANGED <<place, ring, available>>

(* A backend stops passing CheckCircuitState, or passes it again.          *)
Turn(b) ==
  /\ available' = IF b \in available THEN available \ {b} ELSE available \cup {b}
  /\ steady' = [c \in Callers |-> steady[c] \cap available']
  /\ UNCHANGED <<place, ring, call, clean>>

buildRing(c) == StoreLen(c) \/ StoreNodes(c)

NextBackend(c) ==
  \/ Call(c) \/ Empty(c) \/ Check(c) \/ Compare(c) \/ buildRing(c)
  \/ ReturnNil(c) \/ Search(c) \/ Halve(c) \/ Wrap(c) \/ Get(c) \/ Fault(c)
  \/ Leave(c)

Next == (\E c \in Callers : NextBackend(c)) \/ (\E b \in Backends : Turn(b))

Spec == Init /\ [][Next]_vars

----------------------------------------------------------------------------
TypeOK ==
  /\ layout \in Layouts
  /\ keyRank \in 0 .. Len(layout)
  /\ len \in {Length(set) : set \in SUBSET Backends}
  /\ nodes \in SUBSET Backends
  /\ available \in SUBSET Backends
  /\ call \in [Callers -> [at : {"idle", "empty", "validate", "build",
                  "storeLen", "storeNodes", "usable", "search", "get",
                  "returned", "panicked"},
                pos : 0 .. NumBackends, set : SUBSET Backends,
                lo : 0 .. Len(layout), hi : 0 .. Len(layout),
                result : Backends \cup {None}]]
  /\ steady \in [Callers -> SUBSET Backends]
  /\ clean \in [Callers -> BOOLEAN]

(* The owner of the key on a ring: going round from the key, the backend   *)
(* of the first node that is in the ring.                                  *)
Owner(set) ==
  LET Place(i) == IF i > keyRank THEN i ELSE i + Len(layout)
  IN  layout[CHOOSE i \in Places(set) : \A j \in Places(set) : Place(i) <= Place(j)]

(* A call that finds the ring whole and that no other call's rebuild       *)
(* overlaps does not panic, and returns nil only if no backend stayed      *)
(* available (NextBackend).                                                *)
SoundAlone ==
  \A c \in Callers : clean[c] =>
    /\ ~At(c, "panicked")
    /\ At(c, "returned") /\ call[c].result = None => steady[c] = {}

(* And what it returns is the owner of the key on its ring: the binary     *)
(* search and the wrap-around find the node that follows the key.          *)
FindsOwner ==
  [][\A c \in Callers :
       At(c, "get") /\ clean[c] /\ call'[c].at # "get" =>
         call'[c].result = Owner(nodes)]_vars

(* The ring that such a call searches is of no fewer backends than stayed  *)
(* available since its start: a backend that came while it validated the   *)
(* ring or rebuilt it may be missing, one that was there all the time is   *)
(* missing only where one that has gone stands in.  (It then is: the ring  *)
(* is kept when its length is right, and the comment "Ensure ring          *)
(* corresponds to current backend set" says more than validateRing does.)  *)
RoomForAll ==
  \A c \in Callers :
    At(c, "search") /\ clean[c] => Cardinality(steady[c]) <= Cardinality(nodes)
=============================================================================
