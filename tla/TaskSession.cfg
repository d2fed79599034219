SPECIFICATION FairSpec
CONSTANTS
  u1 = u1
  c1 = c1
  c2 = c2
  g = g
  k = k
  Users = {u1}
  Calls = {c1, c2}
  Edits = {c1}
  Readers = {g}
  Cancels = {k}
  MaxTasks = 2
  MaxRestarts = 1
  None = None
CHECK_DEADLOCK FALSE
INVARIANTS
  TypeOK
  TurnAnswersItsCalls
  WorkingIsRunning
PROPERTIES
  ResultsGoBackOnce
  ExecutionsEnd
