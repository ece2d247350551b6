SPECIFICATION Spec
CONSTANTS
  s1 = s1
  s2 = s2
  s3 = s3
  s4 = s4
  Nil = Nil
  Server = {s1, s2, s3}
  Founders = {s1, s2, s3}
  JoinLearners = {}
  Anchors = {}
  Removable = {}
  SnapshotMinEntries = 0
  MaxBatch = 1
  Campaigns <- Succession
  Clients = {}
  MaxLog = 2
  MaxRestart = 0
  Crashing = {}
  CrashPoints = {}
  Readers = {s1}
  MaxReads = 1
  EagerHeartbeats = TRUE
VIEW Visible
CHECK_DEADLOCK FALSE
INVARIANTS
  LogMatching
  MatchIndexTruthful
  ReadLinearizable
