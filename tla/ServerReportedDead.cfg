SPECIFICATION Spec
CONSTANTS
  MaxConn <- MCMaxConn
  MaxThreads <- MCMaxThreads
INVARIANT ReportedExist
CHECK_DEADLOCK FALSE
