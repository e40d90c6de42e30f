SPECIFICATION FairSpec
CONSTANTS
  data = data
  shell = shell
  DA = DA
  None = None
  Tasks = {data, shell, DA}
  Prio <- MCPrio
  Ops <- MCOps
  DEV_NUM = 2
  ALARM_NUM = 2
  Level = {0, 1}
  Batches <- MCBatches
  MaxNest = 2
  Watched = {DA}
  Wrap = 2
  MaxOrders = 2
INVARIANTS TypeOK  EnabledAsAsked
PROPERTIES Served HangIsReported
