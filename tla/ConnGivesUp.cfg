SPECIFICATION HSpec
CONSTANTS
  m1 = m1
  m2 = m2
  Msg <- OneMessage
  MsgSize <- TwoParts
  HighWaterMark = 2
PROPERTY GivesUpIffDisconnected
CHECK_DEADLOCK FALSE
