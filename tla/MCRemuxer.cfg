SPECIFICATION FairSpec
CONSTANTS
  PayloadSize = 7
  MinIn = 13
  MinOut = 22
  OutCap = 44
  BlockSize = 22
  CounterSize = 2
  Scripts <- MCScripts
INVARIANTS TypeOK BlocksAligned PesArrives PacketsMarked
PROPERTY KeepsUp
CHECK_DEADLOCK FALSE
