SPECIFICATION Spec
CONSTANTS
  NumBackends = 3
  Values <- ThreeValues
INVARIANTS ScanFinds LeastSeen
