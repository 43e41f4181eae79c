SPECIFICATION Spec
CONSTANTS
  Configurations <- AllConfigurations
  Requests = {"Stop", "Pause", "Resume", "ThreadDump", "HeapDump", "User"}
  FilterActions = {"DUMP", "GC", "RESTART", "SHUTDOWN", "PAUSE", "RESUME"}
  ExitCodes = {0, 1}
  MaxJvmId = 3
  ControlCapacity = 1
  EventCapacity = 0
  PacketCapacity = 1
  OtherEvents = FALSE
  IoErrors = TRUE
INVARIANTS
  OneJvm
  Throttled
  DisabledRestarts
PROPERTIES
  StopIsFinal
  StopIsServed
  ExitIsNoticed
