SPECIFICATION FairSpec
CONSTANTS
  m1 = m1
  m2 = m2
  m3 = m3
  c1 = c1
  c2 = c2
  Messages = {m1, m2, m3}
  Commands = {m3}
  Slots = {c1}
  MaxRounds = 2
  MaxEscs = 1
  None = None
INVARIANTS
  TypeOK
  NeverSpinsForNothing
PROPERTIES
  ComesToRest
  CallsAreAnswered
