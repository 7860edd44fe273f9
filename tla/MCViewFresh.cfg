SPECIFICATION Spec
CONSTANTS
  i1 = i1
  i2 = i2
  q1 = q1
  q2 = q2
  Counter = Counter
  None = None
  Ids = {i1, i2}
  Queries = {q1}
  MaxViews = 1
  MaxSeq = 5
  MaxDrops = 1
  MaxSkips = 0
  MaxBreaks = 0
  MaxBad = 1
  MaxRestarts = 1
SYMMETRY ViewSymmetry
INVARIANT MarkCovers
INVARIANT PageCurrent
PROPERTY ViewMonotone
CHECK_DEADLOCK FALSE
