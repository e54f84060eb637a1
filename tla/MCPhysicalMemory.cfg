SPECIFICATION MemorySpec
CONSTANTS
  FirmwareMaps <- MCFirmwareMaps
  FirstFrame = 0
  Pools = {}
  FrameCount = 6
  WordSize = 3
  h1 = h1
  h2 = h2
  h3 = h3
  h4 = h4
  Handles <- MCHandles
  MaxFrames = 3
SYMMETRY HandleSymmetry
CHECK_DEADLOCK FALSE
INVARIANTS
  NoOverlapTwoRegions
  BootFramesUsable
  DrainCovers
PROPERTY NoPanic
