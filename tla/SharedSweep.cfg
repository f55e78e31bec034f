CONSTANTS
  s1 = s1  s2 = s2  s3 = s3  s4 = s4  j1 = j1  l1 = l1
  None = None
  Servers = {s1, s2, s3, s4}
  Jobs = {j1}
  WriteJobs = {j1}
  Pid <- ReusedPids
  MaxRetries = 1
  Legacy <- NoLegacy
  StoreFaults = TRUE
SPECIFICATION Spec
INVARIANTS TypeOK LiveOwnerRows WorktreesKept SinglePruner
PROPERTIES TerminalRowFinal
CHECK_DEADLOCK FALSE
