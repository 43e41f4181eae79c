SPECIFICATION HostSpec
CONSTANTS
  Configurations <- HostConfigurations
  Requests = {"Stop", "Pause", "Resume"}
  FilterActions = {}
  ExitCodes = {0, 1}
  MaxJvmId = 2
  ControlCapacity = 2
  EventCapacity = 2
  PacketCapacity = 1
  OtherEvents = FALSE
  IoErrors = FALSE
  MaxRequests = 2
INVARIANTS
  UpIsNotReportedDown
PROPERTIES
  ImplementsStatus
  StopReachesStopped
