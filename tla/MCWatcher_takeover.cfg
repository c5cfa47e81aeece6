SPECIFICATION Spec
CONSTANTS
  c1 = c1
  c2 = c2
  None = None
  Queue <- OneChange
  Repos = {"openspec"}
  HasInitial = TRUE
  Debounce = 2
  Attempts = 2
INVARIANTS
  ManualSendsNothing
CHECK_DEADLOCK FALSE
