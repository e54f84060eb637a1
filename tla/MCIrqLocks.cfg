SPECIFICATION IrqLocksSpec
CONSTANTS
  c1 = c1
  c2 = c2
  Cores <- TwoCores
  Locks <- TwoLocks
  MaxTasks = 3
INVARIANTS
  OwnerNotInterrupted
  FlagRestored
  RunQueueExact
  NoPanic
  GuardHandedOver
PROPERTIES
  ImplementsLock
  SpinnersProgress
  FlagPassedOn
  EveryoneRuns
