SPECIFICATION Spec
CONSTANTS
  c1 = c1
  c2 = c2
  c3 = c3
  s1 = s1
  s2 = s2
  None = None
  Calls = {c1, c2, c3}
  Seams = {s1, s2}
  Jobs <- SomeJobs
  MaxInflight = 1
  MaxChanges = 2
INVARIANT BatchWhole
INVARIANT OutcomeTrue
INVARIANT NeverAdopted
INVARIANT NamesApart
CHECK_DEADLOCK FALSE
