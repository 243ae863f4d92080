SPECIFICATION Spec
CONSTANTS
  c1 = c1
  c2 = c2
  Callers <- TwoCallers
  NumBackends = 3
  CounterSize = 4
  MaxDraws = 8
SYMMETRY Symmetry
INVARIANTS TypeOK SoleFinds FairShare
