CONSTANTS
  MaxConns = 2
  NumSubs = 1
  MaxMsgs = 1
  MayStop = TRUE
SPECIFICATION FairSpec
INVARIANTS PollerHoldsLiveChannels RemovedForGood ClosedAtMostOnce LivesUntilDestroyed
PROPERTIES ClosedIsReleased ServerEndsOnceLooping
CHECK_DEADLOCK FALSE
