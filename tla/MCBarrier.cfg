SPECIFICATION FairSpec
CONSTANTS
  t1 = t1
  t2 = t2
  t3 = t3
  Threads = {t1, t2, t3}
  Count = 2
  BARRIER_IN_THRESHOLD = 5
  DestroyAtThreshold = FALSE
INVARIANTS ResetAlone DestroyWaitsForAll
PROPERTIES ImplementsBarrier DestroyReturns
