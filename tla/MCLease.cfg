SPECIFICATION FairSpec
CONSTANTS
  h1 = h1
  h2 = h2
  NoHolder = NoHolder
  Holders = {h1, h2}
  TTL = 1
  TTLMultiple = 1
  BackstopFloor = 2
  MaxClock = 2
  MaxRevision = 3
  MaxOrphans = 1
INVARIANT OwnershipExclusive
INVARIANT ReleaseSticks
INVARIANT EpochsDistinct
PROPERTY TakeoverNoticed
PROPERTY ReleaseReturns
CHECK_DEADLOCK FALSE
