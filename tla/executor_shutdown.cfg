SPECIFICATION FairProcessSpec
CONSTANTS
  Jobs <- OneJob
  NoJob = NoJob
  MaxFaults = 1
  Workers = {w1}
  Accepted <- OneJob
  MaxKills = 0
  MaxExits = 1
PROPERTY HandlerOutcomeRecorded
CHECK_DEADLOCK FALSE
