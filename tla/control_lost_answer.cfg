SPECIFICATION FairSpec
CONSTANTS
  c1 = c1
  t1 = t1
  Callers = {c1}
  Signalled = {}
  Tuners = {t1}
  MesgSize = 2
  BufSize = 5
  MaxPosts = 2
  MaxStarts = 1
PROPERTY EveryWaitEnds
CHECK_DEADLOCK FALSE
