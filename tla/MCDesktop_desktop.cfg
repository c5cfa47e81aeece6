SPECIFICATION MCSpec
CONSTANTS
  Parts = {"window", "hub", "dialog", "keymap"}
  Messages = {"m1"}
  Empty = ""
  MaxPresses = 2
  MaxEvents = 1
  Hubs = {"h1", "h2"}
  Projects = {"p1", "p2", "p3"}
  DaemonModes = {"AUTO", "PAUSE"}
  NoHub = NoHub
  SerialHubs = TRUE
  Widgets = {"w1"}
  WatchHub = "watch hub"
  SharedHub = "shared hub"
  KEYMAP_ACTIONS <- MCActions
  DEFAULT_KEYMAP <- MCDefaults
  Keys = {"Ctrl+Esc", "Ctrl+Shift+Q", "F1"}
  Legacy = {Unset, "F1"}
  Unset = Unset
  MaxSaves = 2
  NoKey = NoKey
  Requests <- MCRequests
  PERMISSION_MAX_SENDS = 3
  PERMISSION_RETRY_QUIET_POLLS = 3
  APPROVAL_REASK_QUIET_POLLS = 3
  Paths <- MCPaths
  Resolved <- MCResolved
  Nowhere = "nowhere"
  InTempRoot = {"temp"}
  InAllowlist = {"listed"}
  InProject = {"temp", "listed", "src"}
  Anchored = {"tmp/f", "listed/f", "src/f", "link"}
  WithParent = {"../f"}
  FromHome = {"~/f"}
  WithShell = {"a|b"}
  WithGlob = {"dir/*"}
  Lines <- MCLines
  Screens <- MCScreens
  Settings <- MCSettings
INVARIANTS
  NoStaleGrabs
  RegistryIsShown
  ApprovalsAreBounded
  QuestionsAreBounded
  ScrollbackIsContext
PROPERTIES
  WindowOutlivesDaemon
  WindowCatchesUp
  ApprovalsArePermitted
\* a window may be closed
CHECK_DEADLOCK FALSE
