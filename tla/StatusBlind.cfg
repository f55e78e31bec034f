CONSTANTS
  c1 = c1  c2 = c2
  Calls = {c1}
  WriteMode = FALSE
  Warn = 1
  Stale = 1
  WaitCap = 1
  GraceRetries = 1
  Abandons = FALSE
  MaxJournal = 0
  MaxPhase = 0
  MaxNow = 2
SPECIFICATION FairSpec
PROPERTIES BlindWindowEnds
CHECK_DEADLOCK FALSE
