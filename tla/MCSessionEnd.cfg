SPECIFICATION FairSpec
CONSTANTS
  Failing = {"remux"}
  Refusing = {"control"}
  Leaving = {"stream", "lcd"}
PROPERTY CleanupEnds
CHECK_DEADLOCK FALSE
