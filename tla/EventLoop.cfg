SPECIFICATION FairSpec
CONSTANTS
  f1 = f1
  f2 = f2
  t1 = t1
  t2 = t2
  io = io
  NoFunctor = NoFunctor
  WakeupChannel = wakeup
  Functor <- MCFunctor
  Thread <- MCThread
  Channel <- MCChannel
  EventfdMax <- MCEventfdMax
INVARIANTS NoLostWakeup QuitWakesOwner
PROPERTIES ImplementsTaskQueue FunctorEventuallyRuns QuitEventuallyStops BatchesEnd
CHECK_DEADLOCK FALSE
