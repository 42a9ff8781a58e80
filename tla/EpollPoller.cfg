SPECIFICATION FairSpec
CONSTANTS
  c1 = c1
  c2 = c2
  k1 = k1
  fd1 = fd1
  fd2 = fd2
  NoFd = NoFd
  NoChannel = NoChannel
  ConnChannel <- MCConnChannel
  KeptChannel <- MCKeptChannel
  Fd <- MCFd
  InitEventListSize <- MCInitEventListSize
INVARIANTS TypeOK KernelAgrees MapAgrees
PROPERTIES ImplementsDemultiplexer NoChannelStarves
CHECK_DEADLOCK FALSE
