SPECIFICATION FairSpec
CONSTANTS
  Clients = {c1}
  MinThr = 1
  MaxThr = 5
  Batch = 10
  MaxTasks = 2
  MaxExit = 2
INVARIANTS TakenInOrder LeavesNothing NoLostWakeup
PROPERTY ShutdownEnds
