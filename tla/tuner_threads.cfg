SPECIFICATION FairSpec
CONSTANTS
  Feeds = {1, 2, 3, 4}
  PidOf <- SharedAndAll
  PassAll = 8192
  MaxThreads = 3
INVARIANTS TypeOK StreamServed FeedsFlow IdleStops
PROPERTIES StopReturns ShutdownEnds
CHECK_DEADLOCK FALSE
