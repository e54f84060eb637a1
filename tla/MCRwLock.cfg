SPECIFICATION RwLockFairSpec
CONSTANTS
  t1 = t1
  t2 = t2
  h = h
  Threads <- ThreeCallers
  Handlers <- OneHandler
  NoThread = NoThread
  MaxReaders = 2
  MaxCalls = 2
INVARIANTS
  WordCountsGuards
  NoBugPanic
PROPERTIES
  ImplementsRwLock
  CallsReturn
CHECK_DEADLOCK FALSE
