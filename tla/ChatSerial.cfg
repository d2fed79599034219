CONSTANTS
  m1 = m1
  m2 = m2
  m3 = m3
  Messages = {m1, m2, m3}
  Answers <- MCAnswers
  Past <- MCPast
  Threshold = 9
  Window = 5
  UsageReported = {FALSE}
  Client = "serial"
  None = None
SPECIFICATION Spec
INVARIANTS
  TypeOK
  ToolPairsIntact
PROPERTIES
  RequestFits
  KeepsTheConversation
