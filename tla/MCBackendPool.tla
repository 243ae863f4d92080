--------------------------- MODULE MCBackendPool ---------------------------
(* Model values and symmetry for the runs of module BackendPool.           *)
EXTENDS BackendPool, TLC

CONSTANTS r1, r2

OneRequest == {r1}
TwoRequests == {r1, r2}
FirstBackend == {0}
OneSample == {1}
TwoSamples == {2, 7}

Symmetry == Permutations(Requests)
=============================================================================
