CONSTANTS
  Users = {u1, u2}
  SndBuf = 1
  HighWater = 3
  MaxLen = 1
  MaxSends = 2
  MaxMsgs = 0
SPECIFICATION Spec
INVARIANT RemovedForGood
CHECK_DEADLOCK FALSE
