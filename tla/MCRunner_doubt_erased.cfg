SPECIFICATION Spec
CONSTANTS
  a = a
  b = b
  ghost = ghost
  None = None
  Specs <- OneSpec
  Deps <- Free
  OnCycle = {}
  Malformed = {}
  SpecDirMayMiss = FALSE
  Targets <- OnlyNone
  StopOnBlocker = TRUE
  RetryLimit = 1
  MaxCycles = 3
  Verifies = TRUE
  Resets = TRUE
  Daemon = FALSE
  Commands = {"pause", "resume"}
  MaxItems = 3
  MaxRuns = 2
  MaxCommands = 3
  MaxCrashes = 1
INVARIANTS
  DoubtIsRecorded
CHECK_DEADLOCK FALSE
