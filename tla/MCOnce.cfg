SPECIFICATION CellSpec
CONSTANTS
  t1 = t1
  t2 = t2
  t3 = t3
  Threads <- ThreeThreads
  Uninit = Uninit
  MayPanic = TRUE
INVARIANTS
  CellNeverUninit
  CellOneValue
PROPERTIES
  CallsEnd
  TrueIsFinal
  WaitersReleased
CHECK_DEADLOCK FALSE
