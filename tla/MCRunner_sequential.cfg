SPECIFICATION FairSpec
CONSTANTS
  a = a
  b = b
  ghost = ghost
  None = None
  Specs <- TwoSpecs
  Deps <- Chain
  OnCycle = {}
  Malformed = {}
  SpecDirMayMiss = FALSE
  Targets <- AnyTarget
  StopOnBlocker = TRUE
  RetryLimit = 1
  MaxCycles = 3
  Verifies = TRUE
  Resets = TRUE
  Daemon = FALSE
  Commands = {"pause"}
  MaxItems = 3
  MaxRuns = 2
  MaxCommands = 1
  MaxCrashes = 1
INVARIANTS
  CompletedWasVerified
  PredecessorsFirst
  AttemptsAreBounded
  
PROPERTIES
  SendIsRecordedFirst
  RunEnds
CHECK_DEADLOCK FALSE
