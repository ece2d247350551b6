SPECIFICATION FairSpec
CHECK_DEADLOCK FALSE
CONSTANTS
  MaxTerm = 2
  Indices = {1, 2}
  Size <- TwoLeaders
  MaxChunks = 2
  MaxCompactions = 1
  MaxRestarts = 1
  MaxInFlight = 3
  MaxFaults = 2
  RestoreMayFail = TRUE
INVARIANTS
  TypeOK
  InstalledWhole
  ProgressTruthful
PROPERTIES
  CommitMonotonic
  UndisturbedStreamCompletes
