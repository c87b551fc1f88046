SPECIFICATION Spec
CONSTANTS
  Objects = {m1}
  TableOf <- MCTableOf
  MaxVersion = 2
  Stamps = {10, 12}
  Importers = {i1}
  MaxLocal = 0
  MaxFaults = 0
  MaxAborts = 0
  NoObject = NoObject
  m1 = m1
  a1 = a1
\* Clients may stop asking.
CHECK_DEADLOCK FALSE
INVARIANT CompletedPreservesVersions
