SPECIFICATION FairSpec
CONSTANTS
  Servers = {s1, s2}
  Memories = {m1, m2}
  MaxVersion = 1
  MaxAttempts = 2
  Models = {"old"}
  FirstModel = "old"
  WriteStates = {"pending", "not_configured"}
  Backfills = {}
  Imports = {}
  ServerOf <- MCServerOf
  Snapshot <- MCSnapshot
  SnapshotState = "pending"
  MaxCrashes = 0
  MaxFaults = 0
  MaxLosses = 1
  None = None
  home = s1
\* The system rests when clients ask for nothing more.
CHECK_DEADLOCK FALSE
INVARIANTS
  SingleOwner
  AttemptsBounded
  FreshMeansSettled
PROPERTIES
  ImplementsQueue
  JobsSettle
  PendingResolves
