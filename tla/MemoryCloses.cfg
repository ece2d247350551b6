SPECIFICATION Spec
CONSTANTS
  Roots = {r1, r2}
  Objects = {x1, x2}
  Ops = {o1, o2}
  MaxGen = 1
  Capacity = 1
  MaxAttempts = 1
  MaxFaults = 0
ACTION_CONSTRAINT SecondObjectLent
CHECK_DEADLOCK FALSE
PROPERTIES OperationsEnd ClosesComplete
