SPECIFICATION Spec
CONSTANTS
  Byte <- MCByte
  Zero = 0
  kCheapPrepend = 1
  InitialSize = 2
  ExtraSize = 2
  MaxLen = 3
  MaxReadable <- MCMaxReadable
INVARIANTS TypeOK BoundedGrowth
PROPERTY ImplementsByteQueue
