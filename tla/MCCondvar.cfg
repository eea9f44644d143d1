SPECIFICATION Spec
CONSTANTS
  p1 = p1
  c1 = c1
  c2 = c2
  c3 = c3
  Producers = {p1}
  Consumers = {c1, c2, c3}
  Nobody = Nobody
  GroupMax = 2
  Kinds = {"signal"}
  Locked = {TRUE}
  Faults = {}
  Destroys = FALSE
  MaxWaits = 5
  MaxItems = 4
  MaxFaults = 0
INVARIANTS NoLostSignal NoStaleSleeper
CHECK_DEADLOCK FALSE
SYMMETRY Symmetry
