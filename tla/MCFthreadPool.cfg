CONSTANTS
  MaxThreads = 3
  MaxQueue = 2
  MaxTasks = 6
  MaxFails = 1
SPECIFICATION FairSpec
INVARIANT TypeOK
INVARIANT TasksInOrder
INVARIANT WakeOwed
PROPERTY AllTasksRun
