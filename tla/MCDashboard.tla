---------------------------- MODULE MCDashboard ----------------------------
(* Model values, limits and symmetry for the run of Dashboard.             *)
EXTENDS Dashboard, TLC

CONSTANTS p1, p2

TwoPosts == {p1, p2}
ThreeSizes == {0, 1, 2}
ZeroOne == {0, 1}

(* Mixing two of them gives limits that are none of them; two of them let  *)
(* no request pass.                                                        *)
SomeLimits ==
  {[body |-> 1, header |-> 2], [body |-> 2, header |-> -1], [body |-> -2, header |-> 1]}

Symmetry == Permutations(Posts)
=============================================================================
