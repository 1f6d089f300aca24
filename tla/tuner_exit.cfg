SPECIFICATION Spec
CONSTANTS
  Feeds = {1, 2}
  PidOf <- PidAndAll
  PassAll = 8192
  MaxThreads = 2
INVARIANT ThreadsClosed
CHECK_DEADLOCK FALSE
