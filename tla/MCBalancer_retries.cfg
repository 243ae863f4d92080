SPECIFICATION FairBalancerSpec
CONSTANTS
  r1 = r1
  r2 = r2
  NumBackends = 2
  MaxFailures = 1
  OpenStateTimeout = 1
  Samples <- ZeroSample
  Faulty <- FirstBackend
  PlainClients = TRUE
  Requests <- OneRequest
  MaxLeaks = 0
  MaxRetries = 1
  MaxIDs = 0
  Names <- SomeNames
  CounterSize = 3
  MaxSets = 1
INVARIANTS RetriesReachAll BlamelessKept
PROPERTY RotationRestored
