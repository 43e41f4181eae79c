SPECIFICATION Spec
CONSTANTS
  MaxActions = 2
  Streams = {"stdout", "stderr"}
  Scripts <- AllScripts
  FilterSets <- AllFilterSets
  MaxOutputLine = 3
  OutputBatch = 2
  QueueCapacity = 2
  PipeCapacity = 2
  PauseStops = FALSE
INVARIANTS
  OutputIsKept
  FirstMatchWins
PROPERTIES
  ExitedJvmIsLogged
  WritersAreNotStuck
  DrainComesToAnEnd
