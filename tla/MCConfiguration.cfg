SPECIFICATION CommandSpec
CONSTANTS
  Systems <- MCSystems
  OverrideSets <- MCOverrideSets
  References <- MCReferences
  Uppercase <- MCUppercase
  Numerals <- MCNumerals
  MaxIncludeDepth = 2
  RootLength = 3
  FragmentLength = 5
INVARIANTS
  LoadedAsWritten
  PacketKeepsProperties
  CommandAsConfigured
PROPERTIES
  VariablesChangeBySet
