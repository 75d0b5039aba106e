SPECIFICATION Spec
CONSTANTS
  W = 3
  MaxArcs = 2
  t1 = t1
  t2 = t2
  t3 = t3
  Threads <- TwoThreads
  Usages <- OnlyMover
INVARIANTS
  NoTouchAfterFree
CHECK_DEADLOCK FALSE
