SPECIFICATION FairSpec
CONSTANTS
  c1 = c1
  c2 = c2
  c3 = c3
  h1 = h1
  h2 = h2
  g1 = g1
  g2 = g2
  None = None
  Deleted = Deleted
  Calls = {c1, c2, c3}
  Keys = {1, 2, 3}
  BadKeys = {4}
  Listings <- AllKeys
  Expected = {0, 3, 5}
  Requests <- SomeRequests
  CloserOf <- Twice
  Pasts <- SomePasts
  Handles = {h1, h2}
  HandleOf <- Apart
  Closers = {g1, g2}
CONSTRAINT Bounds
INVARIANT PutAnswers
INVARIANT ReadAnswers
INVARIANT OneEngine
INVARIANT NothingLeaked
PROPERTY CloseReturns
