SPECIFICATION Spec
CONSTANTS
  W = 3
  Capacity = 1
  MaxPages = 3
  MaxAllocate = 2
  MaxRcs = 2
  MaxFrames = 3
INVARIANTS
  TypeOK
  BlocksHaveOneOwner
  FreeListIsExact
  StatsCountUsedBlocks
  DroppedPoolFreesPages
PROPERTIES
  ShrinkDropsUnusedPages
  ImplementsPageLife
CHECK_DEADLOCK FALSE
