SPECIFICATION Spec
CONSTANTS
  a1 = a1
  a2 = a2
  a3 = a3
  r1 = r1
  Appends = {a1, a2, a3}
  Readers = {r1}
  MaxFrom = 2
  MaxDeletes = 1
SYMMETRY AppendSymmetry
INVARIANT AckedInPlace
INVARIANT ConflictIsFinal
INVARIANT CursorSnapshot
INVARIANT CursorComplete
CHECK_DEADLOCK FALSE
