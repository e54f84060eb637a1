SPECIFICATION ExecutorSpec
CONSTANTS
  MaxTasks = 3
  Capacity = 4
INVARIANT PoppedTaskExists
CHECK_DEADLOCK FALSE
