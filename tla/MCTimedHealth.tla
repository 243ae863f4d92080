--------------------------- MODULE MCTimedHealth ---------------------------
(* Model values for the runs of module TimedHealth.                        *)
EXTENDS TimedHealth, TLC

CONSTANTS c1, c2

TwoTogglers == {c1, c2}
FirstBackend == {0}
SecondBackend == {1}
NoSamples == {}

Symmetry == Permutations(Togglers)
=============================================================================
