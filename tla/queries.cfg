SPECIFICATION QuerySpec
CONSTANTS
  Jobs <- ThreeJobs
  NoJob = NoJob
  MaxFaults = 1
  Writes = {"markDispatched", "retry"}
  Filters <- AllOrSome
  Limits <- Pages
  Times <- TwoTimes
INVARIANTS QueryTypeOK PagesMissNothing StatsMissNobody
