SPECIFICATION FairSpec
CONSTANTS
  t1 = t1
  t2 = t2
  t3 = t3
  Threads = {t1, t2, t3}
  MaxForks = 2
  MaxCancels = 2
  ForkInInit = FALSE
INVARIANTS OneInitializer ControlTruthful InitializedBeforeReturn
PROPERTY CallsReturn
CHECK_DEADLOCK FALSE
