SPECIFICATION FairPoolSpec
CONSTANTS
  N = 2
  Room = 2
  MaxTasks = 5
INVARIANTS RunOnceInOrder LeastLoaded
PROPERTIES ShutdownEnds TasksRun
