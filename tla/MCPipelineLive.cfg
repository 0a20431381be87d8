SPECIFICATION FairSpec
CONSTANTS
  CapIn = 1
  CapOut = 1
  SockCap = 1
  DrainMax = 1
  MaxGen = 1
  MaxMsgs = 1
  Messages = {"zap", "speed", "same", "still"}
  Ac3Gens = {}
  FirstAc3 = 0
  Hazards = {"slow"}
PROPERTIES ZapCompletes ResetEnds StillEnds
CHECK_DEADLOCK FALSE
