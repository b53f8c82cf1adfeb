SPECIFICATION FairProcessSpec
CONSTANTS
  Jobs <- TwoJobs
  NoJob = NoJob
  MaxFaults = 4
  Workers = {w1, w2}
  Accepted <- OneJob
  MaxKills = 0
  MaxExits = 2
INVARIANTS ProcessTypeOK HandledWhileOpen NotStartedHasMessage
PROPERTIES ShutdownAdvances ShutdownCompletes
CHECK_DEADLOCK FALSE
