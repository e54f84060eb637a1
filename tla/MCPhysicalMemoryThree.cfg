SPECIFICATION MemorySpec
CONSTANTS
  FirmwareMaps <- MCThreeRegions
  FirstFrame = 0
  Pools = {}
  FrameCount = 6
  WordSize = 3
  h1 = h1
  h2 = h2
  h3 = h3
  h4 = h4
  Handles <- MCFourHandles
  MaxFrames = 2
SYMMETRY FourSymmetry
CHECK_DEADLOCK FALSE
INVARIANTS
  NoOverlap
