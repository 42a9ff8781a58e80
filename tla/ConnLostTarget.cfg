SPECIFICATION HSpec
CONSTANTS
  m1 = m1
  m2 = m2
  Msg <- OneMessage
  MsgSize <- TwoParts
  HighWaterMark = 2
INVARIANT FunctorsFindConnection
CHECK_DEADLOCK FALSE
