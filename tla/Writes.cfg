SPECIFICATION Spec
CONSTANTS
  Requests = {r1, r2, r3}
  Calls <- MixedCalls
  Keys = {k1, k2, k3}
  Objects <- MCObjects
  KindOf <- MCKindOf
  Generated <- MCGenerated
  KeptValues = {plain, revised}
  GivenValues = {plain}
  States = {"active", "archived"}
  Unset = Unset
  NewId = NewId
  NoCall = NoCall
  DefaultState = "active"
  Dialect = "sqlite"
  EmbedderConfigured = TRUE
  m1 = m1
  m2 = m2
  a1 = a1
  k1 = k1
  k2 = k2
  k3 = k3
  plain = plain
  revised = revised
SYMMETRY RequestSymmetry
INVARIANTS
  HistoryIsContiguous
  EventsMatchRows
  BuiltOnPredecessor
  AnswerCoversEffect
  SearchableOnceIndexed
PROPERTY ImplementsLog
