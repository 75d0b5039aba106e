SPECIFICATION FairSpec
CONSTANTS
  W = 3
  MaxArcs = 2
  t1 = t1
  t2 = t2
  t3 = t3
  Threads <- ThreeThreads
  Usages <- Orderly
INVARIANTS
  TypeOK
  NoSharedBlock
  CounterCountsHandles
  ReferencedPageSurvives
  FreedOnce
  NoLostBlock
  ValueLivesWithHandles
  PushedOnlyWhenOut
PROPERTIES
  RetiredPageDrains
  Reclaimed
  ImplementsPageLife
CHECK_DEADLOCK FALSE
