------------------------------ MODULE MCServer -----------------------------
(* Model values and symmetry for the runs of module Server.                *)
EXTENDS ServerClaims, TLC

CONSTANTS r1, r2

OneRequest == {r1}
FirstBackend == {0}
OneSample == {1}

Symmetry == Permutations(Requests)
=============================================================================
