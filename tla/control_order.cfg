SPECIFICATION FairSpec
CONSTANTS
  c1 = c1
  c2 = c2
  t1 = t1
  Callers = {c1, c2}
  Signalled = {c1, c2}
  Tuners = {t1}
  MesgSize = 2
  BufSize = 5
  MaxPosts = 4
  MaxStarts = 2
INVARIANTS TypeOK InOrder FreshAnswers ReadyIsServing
PROPERTY WaitsEnd
CHECK_DEADLOCK FALSE
