SPECIFICATION FairSpec
CONSTANTS
  MaxConn <- MCMaxConn
  MaxThreads <- MCMaxThreads
INVARIANTS TypeOK ToldOnce DestroyedAfterDown RemovalsFindServer
PROPERTIES ImplementsLife OneLoopPerThread EventuallyServed EventuallyReleased
CHECK_DEADLOCK FALSE
