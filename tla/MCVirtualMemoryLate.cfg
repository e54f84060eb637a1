CONSTANTS
  RangeStart = 0
  RangeEnd = 8
  MaxWatermark = 16
  UsedStart = 2
  UsedEnd = 4
  RegionStart = 4
  RegionEnd = 6
  MaxPages = 2
  PageCells = 2
  Threads = {t1}
  Handles = {h1}
  Nobody = Nobody
  Layouts <- MCLayouts
  NodeLayout <- MCNode
SPECIFICATION VMFairSpec
PROPERTY LateGrowthEnds
CHECK_DEADLOCK FALSE
