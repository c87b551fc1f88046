SPECIFICATION FairSpec
CONSTANTS
  Servers = {s1}
  Memories = {m1}
  MaxVersion = 2
  MaxAttempts = 2
  Models = {"old", "new"}
  FirstModel = "old"
  WriteStates = {"pending"}
  Backfills = {b1}
  Imports = {i1}
  ServerOf <- MCServerOf
  Snapshot <- MCSnapshot
  SnapshotState = "not_configured"
  MaxCrashes = 1
  MaxFaults = 1
  MaxLosses = 1
  None = None
  home = s1
\* The system rests when clients ask for nothing more.
CHECK_DEADLOCK FALSE
INVARIANTS
  OrphansAreLosses
  ReadyHasVector
  StaleVectorsExcluded
PROPERTIES
  RevivedJobsSettle
