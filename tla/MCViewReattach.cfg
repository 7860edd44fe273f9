SPECIFICATION FairSpec
CONSTANTS
  i1 = i1
  i2 = i2
  q1 = q1
  q2 = q2
  Counter = Counter
  None = None
  Ids = {i1}
  Queries = {q1}
  MaxViews = 1
  MaxSeq = 4
  MaxDrops = 1
  MaxSkips = 1
  MaxBreaks = 0
  MaxBad = 1
  MaxRestarts = 1
PROPERTY QueriesReturn
CHECK_DEADLOCK FALSE
