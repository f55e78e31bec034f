CONSTANTS
  MaxAttempts = 2
  Escapes = TRUE
SPECIFICATION FairSpec
INVARIANTS TypeOK EndNotLost NoPreviewLeft
PROPERTIES AttemptEnds
CHECK_DEADLOCK FALSE
