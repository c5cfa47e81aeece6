SPECIFICATION FairSpec
CONSTANTS
  c1 = c1
  c2 = c2
  None = None
  Queue <- OneChange
  Repos = {"openspec", "legacy"}
  HasInitial = TRUE
  Debounce = 1
  Attempts = 2
PROPERTIES
  StopEnds
  ModeIsFollowed
CHECK_DEADLOCK FALSE
