SPECIFICATION Spec
CONSTANTS
  a = a
  b = b
  ghost = ghost
  None = None
  Specs <- OneSpec
  Deps <- Free
  OnCycle = {}
  Malformed = {}
  SpecDirMayMiss = FALSE
  Targets <- OnlyNone
  StopOnBlocker = TRUE
  RetryLimit = 1
  MaxCycles = 3
  Verifies = TRUE
  Resets = TRUE
  Daemon = FALSE
  Commands = {"edit"}
  MaxItems = 3
  MaxRuns = 2
  MaxCommands = 1
  MaxCrashes = 0
PROPERTIES
  OperatorEditsStay
CHECK_DEADLOCK FALSE
