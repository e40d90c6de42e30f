SPECIFICATION FairSpec
CONSTANTS
  Sensors <- MCSensors
  Water = 2
  EqCap = 3
  NetCap = 2
  MaxChanges = 2
  MaxLosses = 1
  MaxOrders = 1
INVARIANT StateOfSensor
CHECK_DEADLOCK FALSE
