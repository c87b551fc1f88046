SPECIFICATION FairSpec
CONSTANTS
  Servers = {s1}
  Memories = {m1}
  MaxVersion = 1
  MaxAttempts = 2
  Models = {"old"}
  FirstModel = "old"
  WriteStates = {"pending"}
  Backfills = {}
  Imports = {}
  ServerOf <- MCServerOf
  Snapshot <- MCSnapshot
  SnapshotState = "pending"
  MaxCrashes = 1
  MaxFaults = 0
  MaxLosses = 1
  None = None
  home = s1
\* The system rests when clients ask for nothing more.
CHECK_DEADLOCK FALSE
PROPERTY JobsSettle
