SPECIFICATION Spec
CONSTANTS
  s1 = s1
  s2 = s2
  s3 = s3
  s4 = s4
  Nil = Nil
  Server = {s1, s4}
  Founders = {s1}
  JoinLearners = {}
  Anchors = {s1}
  Removable = {}
  SnapshotMinEntries = 4
  MaxBatch = 2
  Campaigns <- Alone
  Clients = {s1}
  MaxLog = 3
  MaxRestart = 2
  Crashing = {s1, s4}
  CrashPoints = {"any", "term", "truncate", "fence", "reset", "admit", "install"}
  Readers = {}
  MaxReads = 0
  EagerHeartbeats = TRUE
VIEW Visible
CHECK_DEADLOCK FALSE
INVARIANTS
  NoSingletonResurrection
  AdmittedCaughtUp
  ElectionSafety
