SPECIFICATION FairSpec
CONSTANTS
  Jobs <- OneJob
  NoJob = NoJob
  MaxFaults = 1
  Goroutines <- StreamAndPoll
  MaxAttempts = 1
  BatchSize = 1
  PersistToken = FALSE
  MaxPublishErrors = 1
  MaxOutages = 0
  Workers = {w1, w2}
  Accepted <- OneJob
  MaxKills = 1
  Clients = {c1}
  Calls <- CancelAndFail
  MaxRetries = 0
INVARIANTS DispatchedInFlight DocumentsValid
PROPERTIES MessagesAccounted EveryJobEnds
CHECK_DEADLOCK FALSE
