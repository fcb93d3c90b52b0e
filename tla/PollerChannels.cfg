CONSTANTS
  Conns = {c1, c2, c3}
  Acceptor = acceptor
  Wakeup = wakeup
  NULL = NULL
  MaxFd = 4
  kInitEventListSize = 1
SPECIFICATION FairSpec
INVARIANTS IInv CtlNeverFails IndexAgrees WatchedAsAsked SizeIsBounded
PROPERTY EveryReadyIsReported
CHECK_DEADLOCK FALSE
