SPECIFICATION PoolSpec
CONSTANTS
  N = 1
  Room = 2
  MaxTasks = 2
INVARIANT AllTasksCompleted
