SPECIFICATION FairSpec
CONSTANTS
  Size <- MCSize
  Requests = {1, 2, 4}
  MaxBytes = 7
  LongStall = FALSE
INVARIANTS TypeOK NoOverlap SpaceExact VectorsCover IInv
PROPERTIES ImplementsChannel Delivered
CHECK_DEADLOCK FALSE
