CONSTANTS
  m1 = m1
  m2 = m2
  r1 = r1
  r2 = r2
  Messages = {m1, m2}
  Results = {}
  Texts = {m1, m2}
  Saved = {}
  Threshold = 9
  MaxRefreshes = 1
  None = None
SPECIFICATION Spec
PROPERTIES
  AuthKeepsConversation
