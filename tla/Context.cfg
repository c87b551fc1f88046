SPECIFICATION Spec
CONSTANTS
  ArtifactShapes <- MCArtifacts
  MemoryShapes <- MCMemories
  NoKey = NoKey
  k1 = k1
  Requested = {0, 5}
  DefaultBudget = 10
  MaxArtifacts = 2
  MaxMemories = 3
\* The request is answered and nothing follows.
CHECK_DEADLOCK FALSE
INVARIANTS
  BudgetKept
  ExplicitAuthoritative
  DurableFirst
  OverrideHasWinner
  AnsweredOnce
