SPECIFICATION UpFairSpec
CONSTANTS
  f1 = f1
  f2 = f2
  Files = {f1}
  Pages = 3
  DataCap = 2
  MaxSends = 4
  MaxEvents = 3
  None = None
  Erased = Erased
  Garbled = Garbled
INVARIANTS UpTypeOK Prefix
PROPERTIES FinishIsWhole UpgradeEnds
CHECK_DEADLOCK FALSE
