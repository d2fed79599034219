SPECIFICATION FairSpec
CONSTANTS
  d1 = d1
  d2 = d2
  d3 = d3
  p = p
  Diffs = {d1, d2}
  Paths = {p}
  PathOf <- OneFile
  Answers = {a1}
  MaxDrops = 1
  None = None
INVARIANTS
  TypeOK
  SettledByTheUser
PROPERTIES
  DiffsSettle
  
