SPECIFICATION FairExecutorSpec
CONSTANTS
  Jobs <- TwoJobs
  NoJob = NoJob
  MaxFaults = 2
  Workers = {w1, w2}
  Accepted <- OneJob
  MaxKills = 1
INVARIANTS ExecutorTypeOK RunsCounted CompletedAfterSuccess RunningHasOwner
PROPERTIES RedeliveredAfterFault EveryMessageSettles
CHECK_DEADLOCK FALSE
