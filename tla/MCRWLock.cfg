SPECIFICATION FairSpec
CONSTANTS
  t1 = t1
  t2 = t2
  t3 = t3
  Threads = {t1, t2, t3}
  Readers = {t1, t2}
  Writers = {t1, t2, t3}
  Timed = {t1}
  Nobody = Nobody
  Kinds = {"prefer_reader", "prefer_writer", "nonrecursive"}
  MaxDepth = 2
  ReaderOverflow = 4
INVARIANTS
  OnePrimary
  RecursionNeverBlocks
PROPERTIES
  ImplementsRWLock
  WaitersAnswered
