SPECIFICATION FairSpec
CONSTANTS
  Threads = {t1, t2, t3}
  Nobody = Nobody
INVARIANTS
  OwnerAndFlag
  NoWakeupLost
PROPERTIES
  OwnerWritesFlag
  ImplementsMonitor
  TimedWaitReturns
