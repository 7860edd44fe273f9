SPECIFICATION Spec
CONSTANTS
  c1 = c1
  c2 = c2
  c3 = c3
  i1 = i1
  i2 = i2
  p1 = p1
  p2 = p2
  s1 = s1
  v1 = v1
  v2 = v2
  ranked = ranked
  NoLatch = NoLatch
  NoValue = NoValue
  NoKeys = NoKeys
  Ids = {i1}
  Scopes = {s1}
  ScopeOf <- OneScope
  Values = {v1, v2}
  Keys = {NoKeys, ranked}
  MaxOrder = 1
  MaxRev = 2
  MaxAttempts = 1
  Calls = {c1, c2, c3}
  Procs = {p1}
  ProcOf <- OneProc
  Ops = {"create", "update", "delete"}
INVARIANT RefusalIsFinal
INVARIANT SuccessIsDurable
INVARIANT LatchSound
PROPERTY ImplementsIndex
CHECK_DEADLOCK FALSE
