SPECIFICATION FairSpec
CONSTANTS
  short = short
  long = long
  Corrupt = Corrupt
  Erased = Erased
  Torn = Torn
  Images = {short, long}
  Size <- MCSize
  MaxPages = 3
INVARIANTS TypeOK RunsWholeImage Recoverable
PROPERTIES FinishMeansInstalled ImplementsFirmware EndsInApp
