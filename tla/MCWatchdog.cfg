SPECIFICATION Spec
CONSTANTS
  PingInterval = 1
  PingTimeout = 2
  StartupTimeout = 2
  Hints = {2}
  HeapTimeout = 2
  Jcmd = TRUE
  DumpTimeout = 2
  MaxDumps = 1
  ShutdownTimeout = 1
  DumpOnExit = TRUE
  DumpDelay = 1
  DrainTime = 1
  StopMargin = 1
  Latency = 1
  ClockMax = 10
INVARIANTS
  WatchdogIsPatient
  LostJvmIsFound
  
  StartupVerdictIsTrue
  StopsWithinHint
