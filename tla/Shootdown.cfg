SPECIFICATION Spec
CONSTANTS
  LastLp = 2
  Callers = {t1, t2}
  MaxEpoch = 2
INVARIANTS
  TypeOK
  OneOwner
PROPERTIES
  ImplementsInvalidation
  CallsReturn
