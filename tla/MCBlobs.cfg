SPECIFICATION FairSpec
CONSTANTS
  p1 = p1
  p2 = p2
  d1 = d1
  l1 = l1
  l2 = l2
  l3 = l3
  k1 = k1
  k2 = k2
  Key = Key
  None = None
  Puts = {p1, p2}
  Deletes = {d1}
  Contents <- SomeContents
  Damages <- SomeDamages
  MaxDamages = 1
  Links = {l1, l2, l3}
  LinkOf <- ChainAndCycle
  LinkMaxDepth = 2
  Closers = {k1, k2}
INVARIANT WholeContent
INVARIANT AckedUnlessRaced
PROPERTY LinksResolved
PROPERTY NoDataAfterClose
PROPERTY CloseReturns
CHECK_DEADLOCK FALSE
