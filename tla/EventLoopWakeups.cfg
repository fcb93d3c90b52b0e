CONSTANTS
  Tasks = {t1, t2, t3}
  Foreign = {f1, f2}
SPECIFICATION FairSpec
INVARIANTS NoLostWakeup IInv
PROPERTIES RunsInQueueOrder QueuedTaskRuns EveryTaskRuns QuitStops
