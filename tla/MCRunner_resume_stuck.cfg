SPECIFICATION FairSpec
CONSTANTS
  a = a
  b = b
  ghost = ghost
  None = None
  Specs <- OneSpec
  Deps <- Free
  OnCycle = {}
  Malformed = {}
  SpecDirMayMiss = FALSE
  Targets <- OnlyNone
  StopOnBlocker = TRUE
  RetryLimit = 1
  MaxCycles = 3
  Verifies = TRUE
  Resets = TRUE
  Daemon = TRUE
  Commands = {"pause", "resume"}
  MaxItems = 3
  MaxRuns = 1
  MaxCommands = 2
  MaxCrashes = 0
PROPERTIES
  ResumeContinues
CHECK_DEADLOCK FALSE
