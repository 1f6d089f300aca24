SPECIFICATION Spec
CONSTANTS
  c1 = c1
  t1 = t1
  Callers = {c1}
  Signalled = {c1}
  Tuners = {t1}
  MesgSize = 2
  BufSize = 5
  MaxPosts = 2
  MaxStarts = 1
INVARIANT OwnAnswer
CHECK_DEADLOCK FALSE
