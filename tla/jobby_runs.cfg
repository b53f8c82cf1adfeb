SPECIFICATION HistorySpec
CONSTANTS
  Jobs <- OneJob
  NoJob = NoJob
  MaxFaults = 1
  Goroutines <- Poll
  MaxAttempts = 1
  BatchSize = 1
  PersistToken = FALSE
  MaxPublishErrors = 0
  MaxOutages = 0
  Workers = {w1, w2}
  Accepted <- OneJob
  MaxKills = 1
  Clients = {c1, c2}
  Calls <- AllCalls
  MaxRetries = 1
SYMMETRY Symmetry
INVARIANTS TypeOK RunsCounted CompletedAfterSuccess RunningHasOwner RetriedInFlight
CHECK_DEADLOCK FALSE
