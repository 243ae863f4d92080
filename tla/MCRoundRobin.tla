---------------------------- MODULE MCRoundRobin ---------------------------
(* Model values and symmetry for the runs of module RoundRobin.            *)
EXTENDS RoundRobin, TLC

CONSTANTS c1, c2

TwoCallers == {c1, c2}

Symmetry == Permutations(Callers)
=============================================================================
