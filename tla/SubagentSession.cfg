SPECIFICATION FairSpec
CONSTANTS
  s1 = s1
  s2 = s2
  emit = emit
  Slots = {s1, s2, emit}
  Emit = emit
  TurnBound = 2
CHECK_DEADLOCK FALSE
INVARIANTS
  TypeOK
  AbortIsReported
  QuietWhenReturned
PROPERTIES
  EndsWhenItMust
