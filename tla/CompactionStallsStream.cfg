SPECIFICATION FairSpec
CHECK_DEADLOCK FALSE
CONSTANTS
  MaxTerm = 1
  Indices = {1, 2}
  Size <- OneLeader
  MaxChunks = 2
  MaxCompactions = 1
  MaxRestarts = 0
  MaxInFlight = 3
  MaxFaults = 0
  RestoreMayFail = FALSE
PROPERTIES
  StreamCompletes
