SPECIFICATION PoolSpec
CONSTANTS
  r1 = r1
  r2 = r2
  NumBackends = 1
  MaxFailures = 2
  OpenStateTimeout = 2
  Samples <- TwoSamples
  Faulty <- FirstBackend
  PlainClients = FALSE
  Requests <- TwoRequests
  MaxLeaks = 1
SYMMETRY Symmetry
INVARIANTS ClosedBelowThreshold ConnectionsAccounted
PROPERTIES ClosesThroughTrial OnlyChecksRevive AverageWithin
