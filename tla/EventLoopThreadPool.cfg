SPECIFICATION FairSpec
CONSTANTS
  NumThreads <- MCNumThreads
  UserCodeQuits = TRUE
  MaxGets <- MCMaxGets
INVARIANTS TypeOK NoLostNotification LoopsAreAlive RoundRobin
PROPERTY StartReturns
CHECK_DEADLOCK FALSE
