SPECIFICATION Spec
CONSTANTS
  Jobs <- OneJob
  NoJob = NoJob
  MaxFaults = 0
  Goroutines <- Poll
  MaxAttempts = 1
  BatchSize = 1
  PersistToken = FALSE
  MaxPublishErrors = 0
  MaxOutages = 0
  Workers = {w1}
  Accepted <- OneJob
  MaxKills = 0
  Clients = {c1}
  Calls <- NoCalls
  MaxRetries = 0
INVARIANT StatusShowsTerminal
CHECK_DEADLOCK FALSE
