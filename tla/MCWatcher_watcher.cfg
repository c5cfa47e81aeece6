SPECIFICATION Spec
CONSTANTS
  c1 = c1
  c2 = c2
  None = None
  Queue <- TwoChanges
  Repos = {"openspec"}
  HasInitial = TRUE
  Debounce = 2
  Attempts = 2
INVARIANTS
  QuietBeforeBoundary
  OneInputAfterPause
  PromptIsRecorded
PROPERTIES
  AdvanceNeedsProof
CHECK_DEADLOCK FALSE
