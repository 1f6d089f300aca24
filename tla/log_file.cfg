SPECIFICATION FairSpec
CONSTANTS
  m = m
  c = c
  Main = m
  Others = {c}
  MaxLines = 3
  MaxOther = 1
  MaxFiles = 2
INVARIANTS TypeOK NoAbort LinesKept
PROPERTIES NeverToOldFile LinesEnd
CHECK_DEADLOCK FALSE
