SPECIFICATION FairSpec
CONSTANTS
  c1 = c1
  c2 = c2
  c3 = c3
  c4 = c4
  b1 = b1
  b2 = b2
  b3 = b3
  Calls = {c1, c2}
  Batches = {b1}
  BatchOf <- MCBatchOf
  Asking = {c1, c2}
  IdeCalls = {c1}
  Handlers = {h1, h2}
  Repeated = {c2}
  MaxLaunches = 2
  None = None
CHECK_DEADLOCK FALSE
INVARIANTS
  TypeOK
  ConsentBeforeExecution
  ExecutesAtMostOnce
  RefusalHonoured
  NoRunDuringEdit
PROPERTIES
  ForwardOnly
  EveryRequestEnds
