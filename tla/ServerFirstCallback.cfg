CONSTANTS
  MaxConns = 1
  NumSubs = 1
  MaxMsgs = 1
  MayStop = FALSE
SPECIFICATION Spec
INVARIANT FirstCallbackIsUp
CHECK_DEADLOCK FALSE
