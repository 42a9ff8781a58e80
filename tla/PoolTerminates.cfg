SPECIFICATION Spec
CONSTANTS
  NumThreads = 1
  UserCodeQuits = FALSE
  MaxGets <- MCMaxGets
INVARIANT DestructorsReturn
CHECK_DEADLOCK FALSE
