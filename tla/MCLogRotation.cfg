SPECIFICATION Spec
CONSTANTS
  MaxFilesValues = {0, 1, 2}
  RollModes = {"NONE", "SIZE", "WRAPPER", "JVM", "SIZE_OR_WRAPPER", "SIZE_OR_JVM"}
  MaxSize = 2
  MaxIndex = 4
  MaxRecords = 7
INVARIANTS
  Chronological
  OnlyOldestIsLost
  WithinLimits
PROPERTIES
  UnlimitedKeepsAll
