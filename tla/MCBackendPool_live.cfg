SPECIFICATION FairPoolSpec
CONSTANTS
  r1 = r1
  r2 = r2
  NumBackends = 1
  MaxFailures = 2
  OpenStateTimeout = 1
  Samples <- OneSample
  Faulty <- FirstBackend
  PlainClients = TRUE
  Requests <- TwoRequests
  MaxLeaks = 1
PROPERTY Recovery
