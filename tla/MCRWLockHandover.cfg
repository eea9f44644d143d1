SPECIFICATION Spec
CONSTANTS
  t1 = t1
  t2 = t2
  t3 = t3
  Threads = {t1, t2, t3}
  Readers = {t1, t2}
  Writers = {t1, t2, t3}
  Timed = {t1}
  Nobody = Nobody
  Kinds = {"prefer_writer"}
  MaxDepth = 1
  ReaderOverflow = 4
INVARIANT
  ReadersWoken
