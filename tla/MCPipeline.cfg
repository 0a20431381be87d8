SPECIFICATION Spec
CONSTANTS
  CapIn = 2
  CapOut = 2
  SockCap = 1
  DrainMax = 1
  MaxGen = 2
  MaxMsgs = 2
  Messages = {"zap", "speed", "same", "freeze", "still"}
  Ac3Gens = {}
  FirstAc3 = 0
  Hazards = {}
INVARIANTS TypeOK OldStreamGone QuietOutReset AdvanceWithin FrozenRemembered
CHECK_DEADLOCK FALSE
