SPECIFICATION Spec
CONSTANTS
  r1 = r1
  r2 = r2
  NumBackends = 2
  MaxFailures = 2
  OpenStateTimeout = 1
  Samples <- OneSample
  Faulty <- FirstBackend
  PlainClients = TRUE
  Requests <- OneRequest
  MaxLeaks = 1
  MaxRetries = 2
  MaxIDs = 1
INVARIANT SuccessIsSent
