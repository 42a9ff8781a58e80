SPECIFICATION FairSpec
CONSTANTS
  m1 = m1
  m2 = m2
  Msg <- TwoMessages
  MsgSize <- TwoParts
  HighWaterMark = 3
INVARIANTS InOrder WritingIffBuffered DownOnce SentInOrder NothingLostWhileUp BackpressureTold
PROPERTIES ShutdownFlushes ImplementsLife UsesTaskQueue EventuallyFlushed EventuallyShutdown EventuallyDown
CHECK_DEADLOCK FALSE
