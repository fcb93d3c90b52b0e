CONSTANTS
  NULL = NULL
  MaxThreads = 2
  Threads = {1, 2}
  MaxHandouts = 3
SPECIFICATION FairSpec
INVARIANTS TypeOK LoopsAreLive ThreadEndsBeforeItsObject Balanced
PROPERTIES StartReturnsUnlessSelfQuit DestroyReturnsOnceLooping
CHECK_DEADLOCK FALSE
