------------------------------ MODULE MCDesktop ------------------------------
(***************************************************************************)
(* What the operator faces: the project's window, the hub, the global      *)
(* keys, and the provider's permission dialogs that the robot answers or   *)
(* leaves to the operator.  They share no state: a behaviour runs one of   *)
(* the Parts, so that their state spaces add up.                           *)
(***************************************************************************)
EXTENDS Companion, Hub, Keymap, MCPermissionDialog

CONSTANT Parts

VARIABLE part

desktopVars == <<companionVars, hubVars, keymapVars, dvars, part>>

InWindow(A) == part = "window" /\ A /\ UNCHANGED <<hubVars, keymapVars, dvars, part>>
InHub(A) == part = "hub" /\ A /\ UNCHANGED <<companionVars, keymapVars, dvars, part>>
InKeymap(A) == part = "keymap" /\ A /\ UNCHANGED <<companionVars, hubVars, dvars, part>>
AtDialog(A) == part = "dialog" /\ A /\ UNCHANGED <<companionVars, hubVars, keymapVars, part>>

OneSetting == CHOOSE s \in Settings : TRUE

MCInit ==
  /\ part \in Parts
  /\ CompanionInit /\ HubInit /\ KeymapInit /\ PollInit
  /\ part # "dialog" => config = OneSetting
  /\ part = "window" => daemon.mode # "PAUSE"
  /\ part # "window" => daemon = [generation |-> 1, up |-> "running", mode |-> "AUTO", watcher |-> TRUE]

MCNext == InWindow(CompanionNext) \/ InHub(HubNext) \/ InKeymap(KeymapNext) \/ AtDialog(PollNext)

MCFairness ==
  /\ WF_desktopVars(InWindow(Answer)) /\ WF_desktopVars(InWindow(Finish))
  /\ WF_desktopVars(InWindow(PollBegins)) /\ WF_desktopVars(InWindow(PollAnswer))
  /\ WF_desktopVars(InWindow(PollFinishes))

MCSpec == MCInit /\ [][MCNext]_desktopVars /\ MCFairness

MCActions == {"yield", "quit_tab"}
MCDefaults == [action \in MCActions |-> IF action = "yield" THEN "Ctrl+Esc" ELSE "Ctrl+Shift+Q"]
=============================================================================
