CONSTANTS
  Vector = 48
  MaxCount = 2
  Sample = 2
SPECIFICATION InterruptsSpec
INVARIANT IrqSafe
INVARIANT TickHasHandler
PROPERTY TicksServed
PROPERTY MeasurementEnds
