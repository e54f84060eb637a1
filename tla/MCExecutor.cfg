SPECIFICATION ExecutorFairSpec
CONSTANTS
  MaxTasks = 3
  Capacity = 3
INVARIANTS
  DueIsQueued
  NoPanic
PROPERTY WokenIsPolled
CHECK_DEADLOCK FALSE
