CONSTANTS
  Depth = 3
  MaxWrites = 2
  MaxNoise = 1
  Overflows = TRUE
SPECIFICATION FairSpec
INVARIANTS DeepestWatched HintCoversWrite
PROPERTIES CancelEndsWatch WritesReachConsumer
CHECK_DEADLOCK FALSE
