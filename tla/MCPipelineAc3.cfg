SPECIFICATION Spec
CONSTANTS
  CapIn = 2
  CapOut = 2
  SockCap = 1
  DrainMax = 1
  MaxGen = 0
  MaxMsgs = 0
  Messages = {}
  Ac3Gens = {}
  FirstAc3 <- Unknown
  Hazards = {}
INVARIANT QuietOutReset
CHECK_DEADLOCK FALSE
