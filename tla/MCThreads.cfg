SPECIFICATION FairSpec
CONSTANTS
  main = main
  p1 = p1
  p2 = p2
  Main = main
  Pool = {p1, p2}
  NoThread = NoThread
  Callers = {main, p1}
  Setters = {main}
  Cancelable = {p1}
  MaxCreate = 3
  MaxSetxid = 1
INVARIANTS ProcessWide JoinableKept ThreadsCounted
PROPERTIES OperationsEnd CancelDelivered
CHECK_DEADLOCK FALSE
