SPECIFICATION Spec
CONSTANTS
  Configurations <- OnlyDefault
  Requests = {"Stop"}
  FilterActions = {}
  ExitCodes = {0, 1}
  MaxJvmId = 2
  ControlCapacity = 1
  EventCapacity = 0
  PacketCapacity = 1
  OtherEvents = FALSE
  IoErrors = FALSE
PROPERTIES
  LossIsLeftToPolicy
