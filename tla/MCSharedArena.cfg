SPECIFICATION FairSpec
CONSTANTS
  t1 = t1
  t2 = t2
  Threads <- TwoThreads
  Allocators <- OneThread
  Shrinkers <- OneThread
  Droppers <- TwoThreads
  BLOCK_PER_PAGE = 2
  DELAY_DROP_SHRINK = 2
  Capacity = 1
  MaxPages = 3
  MaxAllocate = 2
  USIZE = 8
INVARIANTS
  TypeOK
  ListsAreDisjoint
  ListedPagesAreInFull
  PagesAreAccountedFor
  MarkedPagesAreReachable
  DroppedArenaFreesPages
  MovedPagesExist
PROPERTIES
  AllocReturns
  ImplementsPageLife
CHECK_DEADLOCK FALSE
