SPECIFICATION FairSpec
CONSTANTS
  RegCap = 3
  AckCap = 2
  TcpCap = 2
  HbCap = 1
  DataCap = 2
  WireCap = 1
  MaxLosses = 2
INVARIANTS TypeOK NeverForgotten WorkIsAccepted WorkIsWatched
PROPERTY EndsInWork
