CONSTANTS
  j1 = j1  j2 = j2  j3 = j3
  NoJob = NoJob
  Jobs = {j1, j2}
  WriteJobs = {j1}
  RunsDir <- OwnDirs
  UsedDirs = {}
  Cap = 1
  MaxAuthoringRetries = 1
  StoreFaults = FALSE
  Escapes = TRUE
SPECIFICATION Spec
INVARIANTS TypeOK DoneSignal PruneSafe CorrelationFresh
  NoFleetRerun StoreQuiet SnapshotBeforePrune
PROPERTIES TerminalIsFinal
CHECK_DEADLOCK FALSE
