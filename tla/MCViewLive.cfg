SPECIFICATION FairSpec
CONSTANTS
  i1 = i1
  i2 = i2
  q1 = q1
  q2 = q2
  Counter = Counter
  None = None
  Ids = {i1}
  Queries = {q1, q2}
  MaxViews = 2
  MaxSeq = 2
  MaxDrops = 0
  MaxSkips = 0
  MaxBreaks = 1
  MaxBad = 0
  MaxRestarts = 1
INVARIANT OneGoroutine
INVARIANT CloseStops
PROPERTY QueriesReturn
PROPERTY CloseReturns
CHECK_DEADLOCK FALSE
