SPECIFICATION RelayFairSpec
CONSTANTS
  MaxStatement = 3
  MaxLine = 1
  MaxCancel = 2
INVARIANTS
  RelayTypeOK
  OneReplyOwed
  StatusIsTrue
  ForwardIsHarmless
  ChildHasSession
PROPERTIES
  CancelledIsNoResult
  CancelEnds
CHECK_DEADLOCK FALSE
