SPECIFICATION Spec
CONSTANTS
  W = 2
  owner = owner
  t1 = t1
  t2 = t2
  Threads <- ThreeThreads
  Owner = owner
  Capacity = 1
  MaxPages = 1
  MaxAllocate = 1
INVARIANTS
  ShrunkPagesAreNotTouched
CHECK_DEADLOCK FALSE
