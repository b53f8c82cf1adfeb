SPECIFICATION FairDispatcherSpec
CONSTANTS
  Jobs <- TwoJobs
  NoJob = NoJob
  Goroutines <- StreamAndPoll
  MaxFaults = 1
  MaxAttempts = 2
  BatchSize = 1
  PersistToken = TRUE
  MaxPublishErrors = 2
  MaxOutages = 1
INVARIANTS DispatcherTypeOK AttemptsNeverOverstated TokenNeverAhead
PROPERTIES ImplementsSaga NoJobForgotten
CHECK_DEADLOCK FALSE
