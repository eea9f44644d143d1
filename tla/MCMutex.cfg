SPECIFICATION AnyFairSpec
CONSTANTS
  t1 = t1
  t2 = t2
  t3 = t3
  Threads = {t1, t2, t3}
  NoOwner = NoOwner
  Kinds = {"normal", "adaptive", "recursive", "errorcheck"}
  RobustKinds = {"robust_normal", "robust_errorcheck", "robust_recursive"}
  MaxCount = 2
INVARIANTS MutualExclusion NoLostWakeup OwnerTruthful UsersCounted DeathNoticed TornKnown
PROPERTIES ImplementsLock RobustAnswered
CHECK_DEADLOCK FALSE
