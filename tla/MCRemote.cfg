SPECIFICATION FairSpec
CONSTANTS
  Keys = {"up", "down", "ok", "home", "power", "red", "volumeup", "volumedown", "mute"}
  NServers = 2
  VolumeTop = 6
  VolumeStep = 5
  UseLirc = FALSE
  MaxInput = 1
INVARIANTS TypeOK SelectionShown KeysDelivered
PROPERTIES PressTaken DialogsEnd
CHECK_DEADLOCK FALSE
