SPECIFICATION Spec
CONSTANTS
  t1 = t1
  t2 = t2
  Threads <- OneThread
  Allocators <- OneThread
  Shrinkers <- OneThread
  Droppers <- OneThread
  BLOCK_PER_PAGE = 1
  DELAY_DROP_SHRINK = 1
  Capacity = 1
  MaxPages = 3
  MaxAllocate = 2
  USIZE = 8
INVARIANTS
  ShrinkLeavesNoUnusedPage
CHECK_DEADLOCK FALSE
