SPECIFICATION LiveSpec
CONSTANTS
  Launchers = {"Listener", "Main", "StartStop", "StartStopWait"}
  Hooks = {"none", "armed"}
  Resets = TRUE
  AppCodes = {0, 3}
  Room = 2
  MaxAsks = 1
  NoCode = NoCode
INVARIANTS
  CleanVerdictIsEarned
  AskedCodeIsForwarded
  NormalExitIsClean
PROPERTIES
  StopIsHonoured
  LostChannelEndsJvm
