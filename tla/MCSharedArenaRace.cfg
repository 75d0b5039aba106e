SPECIFICATION Spec
CONSTANTS
  t1 = t1
  t2 = t2
  Threads <- TwoThreads
  Allocators <- TwoThreads
  Shrinkers <- TwoThreads
  Droppers <- NoThread
  BLOCK_PER_PAGE = 1
  DELAY_DROP_SHRINK = 1
  Capacity = 2
  MaxPages = 4
  MaxAllocate = 2
  USIZE = 8
INVARIANTS
  AssertsHold
  WriterIsExclusive
CHECK_DEADLOCK FALSE
