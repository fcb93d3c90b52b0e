CONSTANTS
  MaxConns = 3
  NumSubs = 0
  MaxMsgs = 1
  MayStop = TRUE
SPECIFICATION FairSpec
INVARIANT TypeOK
PROPERTIES LivesAsPromised DisconnectedIsFinal BacklogIsTried
CHECK_DEADLOCK FALSE
