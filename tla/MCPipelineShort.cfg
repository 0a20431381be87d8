SPECIFICATION Spec
CONSTANTS
  CapIn = 2
  CapOut = 2
  SockCap = 1
  DrainMax = 1
  MaxGen = 0
  MaxMsgs = 0
  Messages = {}
  Ac3Gens = {}
  FirstAc3 = 0
  Hazards = {"short"}
INVARIANT AdvanceWithin
CHECK_DEADLOCK FALSE
