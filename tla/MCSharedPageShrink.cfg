SPECIFICATION Spec
CONSTANTS
  W = 3
  MaxArcs = 2
  t1 = t1
  t2 = t2
  t3 = t3
  Threads <- TwoThreads
  Usages <- Disorderly
INVARIANTS
  HandledPageSurvives
CHECK_DEADLOCK FALSE
