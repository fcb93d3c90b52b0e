CONSTANTS
  NULL = NULL
  MaxThreads = 2
  Threads = {1, 2}
  MaxHandouts = 0
SPECIFICATION Spec
INVARIANT NullLoopMeansNoThread
CHECK_DEADLOCK FALSE
