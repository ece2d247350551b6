SPECIFICATION Spec
CONSTANTS
  s1 = s1
  s2 = s2
  s3 = s3
  s4 = s4
  Nil = Nil
  Server = {s1, s2, s3}
  Founders = {s1, s2, s3}
  JoinLearners = {}
  Anchors = {}
  Removable = {s3}
  SnapshotMinEntries = 0
  MaxBatch = 2
  Campaigns <- Contested
  Clients = {}
  MaxLog = 2
  MaxRestart = 0
  Crashing = {}
  CrashPoints = {}
  Readers = {}
  MaxReads = 0
  EagerHeartbeats = TRUE
VIEW Visible
CHECK_DEADLOCK FALSE
INVARIANTS
  TypeOK
  ElectionSafety
  BallotInvariant
