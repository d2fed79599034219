SPECIFICATION Spec
CONSTANTS
  m1 = m1
  m2 = m2
  m3 = m3
  c1 = c1
  c2 = c2
  Messages = {m1, m2}
  Commands = {}
  Slots = {c1, c2}
  MaxRounds = 2
  MaxEscs = 1
  None = None
INVARIANT
  CancelledTurnsAreMuted
