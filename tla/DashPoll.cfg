CONSTANTS
  Readers = {"poller", "detail"}
  MaxVer = 2
  c1 = c1  c2 = c2
  Clients = {c1}
  HubBuffer = 1
  Ends = {"aborted", "failed"}
  WriteJob = TRUE
  MaxFaults = 1
SPECIFICATION FairSpec
CONSTRAINTS OneVisitor OneTrouble
INVARIANTS TypeOK CacheCoherent NoMissedSnapshot EndedJobHasDetail
PROPERTIES PollerConverges
CHECK_DEADLOCK FALSE
