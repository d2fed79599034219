CONSTANTS
  m1 = m1
  m2 = m2
  m3 = m3
  Messages = {m1, m2, m3}
  Answers <- MCAnswers
  Past <- MCPast
  Threshold = 8
  Window = 9
  UsageReported = {FALSE, TRUE}
  Client = "concurrent"
  None = None
SPECIFICATION FairSpec
INVARIANTS
  NothingTwice
  NeverUndercounts
  LockReleased
PROPERTIES
  EverySendEnds
