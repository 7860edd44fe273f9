SPECIFICATION Spec
CONSTANTS
  None = None
  Ids <- SomeIds
  OrderOf <- SomeOrders
  RankingScopeOf <- OneRankingScope
  Shapes <- SomeShapes
  MaxRev = 2
  MaxOrder = 3
  Limits = {1}
  Bounds = {1}
  Namespace = "here"
  Elsewhere = "there"
INVARIANT IndexExact
INVARIANT PageExact
INVARIANT ListingExact
CHECK_DEADLOCK FALSE
