SPECIFICATION Spec
CONSTANTS
  asked = asked
  other = other
  NoSubject = NoSubject
  Ids = {1, 2, 3}
  Shapes <- MCShapes
  InQuery = {asked}
  LexicalLimit = 2
  RerankLeast = 2
  RerankLimit = 2
  Margin = 8000
  Limits = {2, 20}
  Related = {2}
  Invented = 0
  MaxAnswer = 2
  MaxChanges = 1
\* The request has been answered.
CHECK_DEADLOCK FALSE
INVARIANTS
  WasEligible
  MatchedIsRanked
  RerankReordersOrRejects
