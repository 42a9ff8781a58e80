SPECIFICATION Spec
CONSTANTS
  NumThreads = 1
  UserCodeQuits = FALSE
  MaxGets <- MCMaxGets
INVARIANT QuitTouchesLiveLoop
CHECK_DEADLOCK FALSE
