SPECIFICATION FairSpec
CONSTANTS
  c1 = c1
  c2 = c2
  c3 = c3
  i1 = i1
  i2 = i2
  p1 = p1
  p2 = p2
  s1 = s1
  v1 = v1
  v2 = v2
  ranked = ranked
  NoLatch = NoLatch
  NoValue = NoValue
  NoKeys = NoKeys
  Ids = {i1, i2}
  Scopes = {s1}
  ScopeOf <- OneScope
  Values = {v1}
  Keys = {NoKeys}
  MaxOrder = 2
  MaxRev = 1
  MaxAttempts = 2
  Calls = {c1, c2, c3}
  Procs = {p1, p2}
  ProcOf <- MixedProcs
  Ops = {"create"}
INVARIANT OrderUnique
PROPERTY CallsReturn
CHECK_DEADLOCK FALSE
