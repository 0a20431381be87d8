SPECIFICATION Spec
CONSTANTS
  Size <- MCSize
  Requests = {1, 2, 4}
  MaxBytes = 9
  LongStall = TRUE
PROPERTY ImplementsChannel
CHECK_DEADLOCK FALSE
