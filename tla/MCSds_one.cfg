SPECIFICATION Spec
CONSTANTS
  t1 = t1
  t2 = t2
  v1 = v1
  v2 = v2
  Datalock = Datalock
  DAlock = DAlock
  Blank = Blank
  Torn = Torn
  NoVal = NoVal
  NoTask = NoTask
  Tasks = {t1}
  NItems = 2
  Vals = {v1, v2}
  Default <- MCDefault
  Locks = {Datalock, DAlock}
  LockOf <- OneLock
  Failing = {"erase", "cpy", "poll"}
INVARIANTS TypeOK
PROPERTIES KeepsACopy SavedIsStored ImplementsStore
CONSTRAINT Rows
