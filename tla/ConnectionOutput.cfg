CONSTANTS
  Users = {u1}
  SndBuf = 1
  HighWater = 2
  MaxLen = 2
  MaxSends = 3
  MaxMsgs = 1
SPECIFICATION FairSpec
INVARIANTS TypeOK BytesInOrder OutputIsWatched FinAfterData HighWaterOnce DrainIsAnnounced RemovedForGood
PROPERTIES ShutdownEndsStream OutputDrains
CHECK_DEADLOCK FALSE
