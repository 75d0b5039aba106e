SPECIFICATION Spec
CONSTANTS
  t1 = t1
  t2 = t2
  Threads <- TwoThreads
  Allocators <- TwoThreads
  Shrinkers <- NoThread
  Droppers <- TwoThreads
  BLOCK_PER_PAGE = 1
  DELAY_DROP_SHRINK = 1
  Capacity = 1
  MaxPages = 2
  MaxAllocate = 2
  USIZE = 8
INVARIANTS
  FullArenaGrows
CHECK_DEADLOCK FALSE
