SPECIFICATION Spec
CONSTANTS
  s1 = s1
  s2 = s2
  s3 = s3
  s4 = s4
  Nil = Nil
  Server = {s1, s2, s3}
  Founders = {s1, s2, s3}
  JoinLearners = {}
  Anchors = {}
  Removable = {}
  SnapshotMinEntries = 2
  MaxBatch = 1
  Campaigns <- Contested
  Clients = {}
  MaxLog = 0
  MaxRestart = 1
  Crashing = {s1}
  CrashPoints = {"any", "term", "truncate"}
  Readers = {}
  MaxReads = 0
  EagerHeartbeats = TRUE
VIEW Visible
CHECK_DEADLOCK FALSE
INVARIANTS
  VoteOnce
  LeaderCompleteness
  StateMachineSafety
PROPERTIES
  CommittedPrefixStable
