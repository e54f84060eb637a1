SPECIFICATION CallsSpec
CONSTANTS
  FirstFrame = 1
  FrameCount = 6
  WordSize = 3
  Pools <- MCPools
  h1 = h1
  h2 = h2
  Handles <- MCHandles
  MaxFrames = 4
PROPERTIES
  ImplementsAllocator
  FailsOnlyWhenFull
  NoPanic
  ImplementsContract
