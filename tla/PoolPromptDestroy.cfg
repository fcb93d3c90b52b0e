CONSTANTS
  NULL = NULL
  MaxThreads = 2
  Threads = {1, 2}
  MaxHandouts = 0
SPECIFICATION FairSpec
PROPERTY DestroyReturns
CHECK_DEADLOCK FALSE
