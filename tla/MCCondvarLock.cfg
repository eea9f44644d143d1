SPECIFICATION LockFairSpec
CONSTANTS
  t1 = t1
  t2 = t2
  t3 = t3
  Users = {t1, t2, t3}
  Unowned = Unowned
  Sizes = {0, 1}
INVARIANT SizeKept
PROPERTY CondvarLockIsLock
