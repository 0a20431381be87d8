SPECIFICATION Spec
CONSTANTS
  CapIn = 1
  CapOut = 1
  SockCap = 1
  DrainMax = 1
  MaxGen = 1
  MaxMsgs = 1
  Messages = {"zap", "freeze"}
  Ac3Gens = {1}
  FirstAc3 <- Unknown
  Hazards = {"eager", "stall", "short"}
INVARIANTS QuietInReset RightSound FrozenRemembered
CHECK_DEADLOCK FALSE
