SPECIFICATION FairSpec
CONSTANTS
  p1 = p1
  c1 = c1
  c2 = c2
  p2 = p2
  Producers = {p1, p2}
  Consumers = {c1, c2}
  NoOwner = NoOwner
  MaxItems = 2
  MaxNotify = 3
INVARIANT ItemsCovered
PROPERTY ImplementsLock
