SPECIFICATION Spec
CONSTANTS
  Failing = {}
  Refusing = {"stream", "control", "lcd"}
  Leaving = {"stream", "lcd"}
INVARIANTS TypeOK RingsOutliveThreads SocketsOutliveUsers LeavesClean IInv
CHECK_DEADLOCK FALSE
