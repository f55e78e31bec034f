CONSTANTS
  c1 = c1  c2 = c2
  Calls = {c1, c2}
  WriteMode = TRUE
  Warn = 0
  Stale = 1
  WaitCap = 1
  GraceRetries = 0
  Abandons = FALSE
  MaxJournal = 1
  MaxPhase = 0
  MaxNow = 3
SPECIFICATION Spec
CONSTRAINT Scope
SYMMETRY CallSymmetry
INVARIANTS MarkMeansDelivered WarnOncePerKey
CHECK_DEADLOCK FALSE
