SPECIFICATION Spec
CONSTANTS
  Kinds = {"data", "upgrade"}
  Layout <- MCLayout
  HeadFlag = 2
  EndFlag = 3
  Radix = 4
  Texts <- MCTexts
  BufLen <- MCBufLen
  Segs <- MCSegs
  MaxSwitch = 2
INVARIANTS TypeOK HealthyIsKept FirstLossIsSplit RoomLeft
CHECK_DEADLOCK FALSE
