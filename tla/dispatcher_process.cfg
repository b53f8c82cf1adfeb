SPECIFICATION FairProcessSpec
CONSTANTS
  Topics = {t1, t2}
  NoTopic = NoTopic
  MaxBatch = 2
  MaxProducers = 3
  MaxExits = 2
INVARIANTS ProcessTypeOK ProducersKnown TokenFileReadable NilClientOnlyForLateStream
PROPERTIES StreamRecovers ShutdownAdvances ShutdownCompletes
CHECK_DEADLOCK FALSE
