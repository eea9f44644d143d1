SPECIFICATION Spec
CONSTANTS
  p1 = p1
  c1 = c1
  c2 = c2
  c3 = c3
  Producers = {p1}
  Consumers = {c1, c2}
  Nobody = Nobody
  GroupMax = 2
  Kinds = {"signal", "broadcast"}
  Locked = {FALSE}
  Faults = {"timeout", "cancel", "spurious"}
  Destroys = TRUE
  MaxWaits = 3
  MaxItems = 2
  MaxFaults = 3
INVARIANTS NoLostSignal SizesSound DestroyWaitsForAll
SYMMETRY Symmetry
CHECK_DEADLOCK FALSE
