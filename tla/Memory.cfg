SPECIFICATION Spec
CONSTANTS
  Roots = {r1, r2}
  Objects = {x1}
  Ops = {o1, o2}
  MaxGen = 2
  Capacity = 1
  MaxAttempts = 1
  MaxFaults = 1
CHECK_DEADLOCK FALSE
SYMMETRY Symmetry
INVARIANTS TypeOK TranslationsNameTheirRoot FreedUnreachable WriterAlone ClaimsUndisturbed LeasesExact
