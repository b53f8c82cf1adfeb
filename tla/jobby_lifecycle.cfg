SPECIFICATION HistorySpec
CONSTANTS
  Jobs <- OneJob
  NoJob = NoJob
  MaxFaults = 1
  Goroutines <- StreamAndPoll
  MaxAttempts = 1
  BatchSize = 1
  PersistToken = FALSE
  MaxPublishErrors = 1
  MaxOutages = 0
  Workers = {w1, w2}
  Accepted <- OneJob
  MaxKills = 0
  Clients = {c1}
  Calls <- FailAndRetry
  MaxRetries = 1
SYMMETRY Symmetry
VIEW ReadVars
PROPERTIES ImplementsLifecycle ImplementsRetriedSaga
CHECK_DEADLOCK FALSE
