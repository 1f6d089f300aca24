SPECIFICATION FeedSpec
CONSTANTS
  c1 = c1
  c2 = c2
  c3 = c3
  t1 = t1
  f1 = f1
  Callers = {c1, c2, c3}
  FeedCallers = {c1, c2}
  Signalled = {c1}
  Tuners = {t1}
  Feeds = {f1}
  MesgSize = 1
  BufSize = 2
  MaxPosts = 4
  MaxStarts = 2
INVARIANTS FeedTypeOK FeedsAgree OwnAnswerAlone
PROPERTY StartedIsServed
CHECK_DEADLOCK FALSE
