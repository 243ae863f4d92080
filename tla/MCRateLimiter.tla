---------------------------- MODULE MCRateLimiter --------------------------
(* Model values, limits and symmetry for the runs of module RateLimiter.   *)
EXTENDS RateLimiter, TLC

CONSTANTS h1, h2, k1, k2

TwoHandlers == {h1, h2}
TwoKeys == {k1, k2}

SomeLimits == {[max |-> 1, window |-> 2], [max |-> 2, window |-> 3],
               [max |-> 1, window |-> 0]}

Symmetry == Permutations(Handlers) \cup Permutations(Keys)
=============================================================================
