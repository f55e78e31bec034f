CONSTANTS
  j1 = j1  j2 = j2  j3 = j3
  NoJob = NoJob
  Jobs = {j1, j2, j3}
  WriteJobs = {}
  RunsDir <- OwnDirs
  UsedDirs = {}
  Cap = 1
  MaxAuthoringRetries = 0
  StoreFaults = TRUE
  Escapes = FALSE
SPECIFICATION Spec
SYMMETRY ReadSymmetry
CONSTRAINT NoSessions
INVARIANTS SlotAccounting StoreNeverAhead QueueExact WorkConserving
PROPERTIES ImplementsAdmission
CHECK_DEADLOCK FALSE
