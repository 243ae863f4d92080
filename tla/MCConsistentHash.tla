-------------------------- MODULE MCConsistentHash -------------------------
(* Layouts, model values and symmetry for the runs of ConsistentHash.      *)
EXTENDS ConsistentHash, TLC

CONSTANTS c1, c2

TwoCallers == {c1, c2}

(* A backend's nodes come together on the ring and apart.                  *)
TwoEach == {<<0, 1, 1, 0>>}

Symmetry == Permutations(Callers)
=============================================================================
