SPECIFICATION Spec
CONSTANTS
  a = a
  b = b
  c = c
  ka = ka
  kb = kb
  Ids = {a, b, c}
  Keys = {ka, kb, c}
  None = None
  Snapshot <- MCSnapshot
  MaxAsked = 2
  MaxDepth = 4
\* The request has been answered and all scopes have been created.
CHECK_DEADLOCK FALSE
INVARIANTS
  AncestorsFirst
  NoReentry
  ExpansionStable
