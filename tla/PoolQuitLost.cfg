SPECIFICATION FairSpec
CONSTANTS
  NumThreads = 1
  UserCodeQuits = FALSE
  MaxGets <- MCMaxGets
PROPERTY QuitIsObeyed
CHECK_DEADLOCK FALSE
