SPECIFICATION Spec
CONSTANTS
  c1 = c1
  c2 = c2
  NumBackends = 2
  MaxFailures = 1
  OpenStateTimeout = 5
  Samples <- NoSamples
  Faulty <- SecondBackend
  PlainClients = TRUE
  Togglers <- TwoTogglers
  Interval = 2
  ProbeTimeout = 1
  Slow <- FirstBackend
SYMMETRY Symmetry
INVARIANTS TypeOK ShownInTime QuietWhileDown BackInTime TogglesCount
