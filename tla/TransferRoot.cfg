SPECIFICATION Spec
CONSTANTS
  Roots = {r1, r2}
  Objects = {x1}
  Ops = {o1, o2}
  MaxGen = 1
  Capacity = 1
  MaxAttempts = 1
  MaxFaults = 0
CHECK_DEADLOCK FALSE
INVARIANTS ActiveTransferHasRoot
