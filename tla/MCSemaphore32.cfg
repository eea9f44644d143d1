SPECIFICATION FairSpec32
CONSTANTS
  t1 = t1
  t2 = t2
  t3 = t3
  t4 = t4
  Threads = {t1, t2, t3, t4}
  SEM_VALUE_MAX = 2
  Cancellable = {t1}
INVARIANTS WaitersCounted32 MistakeNoticed
PROPERTY ImplementsSemaphore32
