CONSTANTS
  MaxConns = 1
  NumSubs = 0
  MaxMsgs = 1
  MayStop = TRUE
SPECIFICATION Spec
INVARIANT EveryUpHasADown
CHECK_DEADLOCK FALSE
