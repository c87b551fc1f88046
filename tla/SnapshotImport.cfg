SPECIFICATION FairSpec
CONSTANTS
  Objects = {m1, a1}
  TableOf <- MCTableOf
  MaxVersion = 2
  Stamps = {10, 21, 22}
  Importers = {i1, i2}
  MaxLocal = 1
  MaxFaults = 1
  MaxAborts = 1
  NoObject = NoObject
  m1 = m1
  a1 = a1
\* Clients may stop asking.
CHECK_DEADLOCK FALSE
INVARIANTS
  NoBlankRows
  HistoryPreserved
  CompletedMeansImported
  TornIsRefused
PROPERTIES
  RepeatChangesNothing
  RetryCompletes
