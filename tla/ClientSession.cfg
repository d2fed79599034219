CONSTANTS
  m1 = m1
  m2 = m2
  r1 = r1
  r2 = r2
  Messages = {m1, r1}
  Results = {r1}
  Texts = {m1}
  Saved <- MCSaved
  Threshold = 3
  MaxRefreshes = 1
  None = None
SPECIFICATION FairSpec
INVARIANTS
  TypeOK
  OneWastedSummary
PROPERTIES
  ToolPairsIntact
  KeepsTheConversation
  EveryTurnEnds
