SPECIFICATION FairSpec
CONSTANTS
  t1 = t1
  t2 = t2
  Threads = {t1, t2}
  PAGE_SIZE = 2
  MaxRecv = 5
  MaxBytes = 6
INVARIANTS TypeOK AllDelivered
PROPERTIES ImplementsPipe WritesEnd
CHECK_DEADLOCK FALSE
