CONSTANTS
  c1 = c1  c2 = c2
  Calls = {c1}
  WriteMode = FALSE
  Warn = 0
  Stale = 0
  WaitCap = 1
  GraceRetries = 1
  Abandons = TRUE
  MaxJournal = 1
  MaxPhase = 1
  MaxNow = 2
SPECIFICATION FairSpec
INVARIANTS TypeOK
PROPERTIES CallReturns
CHECK_DEADLOCK FALSE
