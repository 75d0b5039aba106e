SPECIFICATION FairSpec
CONSTANTS
  W = 3
  owner = owner
  t1 = t1
  t2 = t2
  Threads <- ThreeThreads
  Owner = owner
  Capacity = 1
  MaxPages = 2
  MaxAllocate = 2
INVARIANTS
  TypeOK
  BlocksHaveOnePlace
  ReferencedPagesSurvive
  ListsAreDisjoint
  StatsCountHandles
  AssertHolds
PROPERTIES
  ImplementsPageLife
  AbandonedPagesAreFreed
  AllocReturns
CHECK_DEADLOCK FALSE
