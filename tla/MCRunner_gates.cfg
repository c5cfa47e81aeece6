SPECIFICATION Spec
CONSTANTS
  a = a
  b = b
  ghost = ghost
  None = None
  Specs <- TwoSpecs
  Deps <- Dangling
  OnCycle = {}
  Malformed = {}
  SpecDirMayMiss = TRUE
  Targets <- AnyTarget
  StopOnBlocker = TRUE
  RetryLimit = 0
  MaxCycles = 3
  Verifies = FALSE
  Resets = TRUE
  Daemon = TRUE
  Commands = {"pause", "resume", "takeover", "auto", "edit"}
  MaxItems = 2
  MaxRuns = 1
  MaxCommands = 2
  MaxCrashes = 1
INVARIANTS
  DoubtIsRecorded
CHECK_DEADLOCK FALSE
