SPECIFICATION RelayFairSpec
CONSTANTS
  MaxStatement = 1
  MaxLine = 1
  MaxCancel = 0
PROPERTIES
  GoneKillsChild
CHECK_DEADLOCK FALSE
