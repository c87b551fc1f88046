SPECIFICATION ReplaySpec
CONSTANTS
  d1 = d1
  d2 = d2
  w = w
  Deliveries = {d1, d2}
  EventOf <- MCEventOf
  References <- MCReferences
  MaxHandlings = 3
  MaxRevisions = 1
  MaxReplays = 2
  MaxLost = 1
\* All deliveries have been answered and all replays made.
CHECK_DEADLOCK FALSE
INVARIANTS
  OneEpisode
  RetryCompletesReferences
  ReplayReconstructs
  RebuildRepairs
