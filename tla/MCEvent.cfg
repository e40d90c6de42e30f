SPECIFICATION FairSpec
CONSTANTS
  Sensors <- MCSensors
  Water = 2
  EqCap = 3
  NetCap = 2
  MaxChanges = 2
  MaxLosses = 1
  MaxOrders = 1
INVARIANTS TypeOK UntoldIsStored
PROPERTIES AckIsForState PlatformKnows
CHECK_DEADLOCK FALSE
