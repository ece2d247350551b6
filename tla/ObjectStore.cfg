SPECIFICATION Spec
CONSTANTS
  MaxId = 3
  Requested = {2}
  Slots = {1, 2, 3}
  MaxBlock = 4
  Empty = empty
  Nil = nil
  Values <- MCValues
  Size <- MCSize
  FaultPoints = {"data", "header", "flush", "release", "super", "persist", "idle", "down", "format", "formatted"}
  MaxFaults = 1
  MaxCrashes = 1
  MaxRequests = 5
  pair = pair
CHECK_DEADLOCK FALSE
INVARIANTS ReachableKept MountSucceeds AutomaticIdsFresh
PROPERTIES ImplementsDurableObjects
