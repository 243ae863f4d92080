SPECIFICATION FairSpec
CONSTANTS
  r1 = r1
  r2 = r2
  NumBackends = 1
  MaxFailures = 2
  OpenStateTimeout = 1
  Samples <- OneSample
  Faulty <- FirstBackend
  PlainClients = FALSE
  Requests <- OneRequest
  MaxLeaks = 1
  MaxRetries = 2
  MaxIDs = 2
INVARIANT TypeOK
PROPERTIES Contract RequestsEnd RequestIdKept
