CONSTANTS
  s1 = s1  s2 = s2  s3 = s3  s4 = s4  j1 = j1  l1 = l1
  None = None
  Servers = {s1, s2}
  Jobs = {j1}
  WriteJobs = {j1}
  Pid <- OwnPids
  MaxRetries = 0
  Legacy <- NoLegacy
  StoreFaults = FALSE
SPECIFICATION Spec
INVARIANTS NoPruneUnderOrphan
CHECK_DEADLOCK FALSE
