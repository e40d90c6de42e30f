SPECIFICATION Spec
CONSTANTS
  Size = 4
  MaxSent = 10
INVARIANTS TypeOK
PROPERTIES ImplementsFifo
CHECK_DEADLOCK FALSE
