-------------------------------- MODULE Hub ---------------------------------
(***************************************************************************)
(* The hub window (ariadex/hub.py, RobotHubWindow of companion.py): one    *)
(* process shows a tab for each project that `ariadex start` registers     *)
(* over a socket of the user.  The server keeps the registered projects by *)
(* path, the window keeps lists of tabs and of what each showed last; both *)
(* live on the Tk thread.  A socket file may be left by a dead hub.        *)
(***************************************************************************)
EXTENDS Naturals, Sequences, SequencesExt

CONSTANTS
  Hubs,        \* processes that run `ariadex admin hub-window`
  Projects, DaemonModes,
  NoHub,
  SerialHubs   \* a hub is launched only after the one before has ended

ASSUME HubAssumption ==
  NoHub \notin Hubs /\ DaemonModes \subseteq {"AUTO", "PAUSE", "MANUAL", "down"}

VARIABLES
  hubSock,   \* hub.sock: the process that bound it, or NoHub
  hub,       \* [Hubs]: how far the process is
  registry,  \* [Hubs]: HubWindowServer.tabs, by project
  tabs,      \* [Hubs]: RobotHubWindow.tabs
  models,    \* [Hubs]: RobotHubWindow.models
  active,    \* [Hubs]: the visible tab, from 1
  modes      \* [Projects]: the mode of the project's daemon, or down

processes == <<hubSock, hub>>
views == <<registry, tabs, models, active>>
hubVars == <<processes, views, modes>>

HubInit ==
  /\ hubSock = NoHub
  /\ hub = [h \in Hubs |-> "idle"]
  /\ registry = [h \in Hubs |-> {}]
  /\ tabs = [h \in Hubs |-> <<>>] /\ models = [h \in Hubs |-> <<>>]
  /\ active = [h \in Hubs |-> 1]
  /\ modes \in [Projects -> {"AUTO"}]

Moves(h, step) == hub' = [hub EXCEPT ![h] = step]

-----------------------------------------------------------------------------
(* The process.                                                            *)

Ended(h) == hub[h] \in {"idle", "failed", "gone", "crashed"}

(* ensure_hub spawns a hub when none answers.                              *)
Launches(h) ==
  /\ hub[h] = "idle"
  /\ SerialHubs => \A g \in Hubs : Ended(g)
  /\ ~(hubSock # NoHub /\ hub[hubSock] = "open")
  /\ Moves(h, "bind")
  /\ UNCHANGED <<hubSock, views, modes>>

(* listen: an address in use is taken for stale.                           *)
ListenBinds(h) ==
  /\ hub[h] = "bind"
  /\ IF hubSock = NoHub
       THEN hubSock' = h /\ Moves(h, "open")
       ELSE UNCHANGED hubSock /\ Moves(h, "reclaim")
  /\ UNCHANGED <<views, modes>>

ListenReclaims(h) ==
  /\ hub[h] = "reclaim"
  /\ hubSock' = NoHub
  /\ Moves(h, "rebind")
  /\ UNCHANGED <<views, modes>>

ListenRebinds(h) ==
  /\ hub[h] = "rebind"
  /\ IF hubSock = NoHub
       THEN hubSock' = h /\ Moves(h, "open")
       ELSE UNCHANGED hubSock /\ Moves(h, "failed")
  /\ UNCHANGED <<views, modes>>

(* What a process knew is gone with it.                                    *)
Forgotten(h) ==
  /\ registry' = [registry EXCEPT ![h] = {}]
  /\ tabs' = [tabs EXCEPT ![h] = <<>>] /\ models' = [models EXCEPT ![h] = <<>>]
  /\ active' = [active EXCEPT ![h] = 1]

(* After the main loop the server is closed, for the second time when the  *)
(* window ended with its last tab: whatever socket file is there goes.     *)
HubExits(h) ==
  /\ hub[h] = "closing"
  /\ hubSock' = NoHub
  /\ Moves(h, "gone")
  /\ Forgotten(h)
  /\ UNCHANGED modes

HubCrashes(h) ==
  /\ ~Ended(h)
  /\ Moves(h, "crashed")
  /\ Forgotten(h)
  /\ UNCHANGED <<hubSock, modes>>

(* WM_DELETE_WINDOW: the window goes, the daemons stay.                    *)
OnCloseWindow(h) ==
  /\ hub[h] = "open"
  /\ Moves(h, "closing")
  /\ UNCHANGED <<hubSock, views, modes>>

-----------------------------------------------------------------------------
(* The tabs.                                                               *)

(* _daemon_status_view and build_robot_view_model: the indicator.          *)
Indicator(mode) ==
  CASE mode = "down" -> "unreachable"
    [] mode = "PAUSE" -> "paused"
    [] mode = "MANUAL" -> "waiting"
    [] mode = "AUTO" -> "working"

Clamped_Not(i, n) == i

Clamped(i, n) == IF n = 0 THEN 1 ELSE IF i > n THEN n ELSE i

(* _refresh: every tab's status is read, and the visible tab exists.       *)
Refreshed(h, list) ==
  /\ tabs' = [tabs EXCEPT ![h] = list]
  /\ models' = [models EXCEPT ![h] = [i \in 1..Len(list) |-> Indicator(modes[list[i]])]]
  /\ active' = [active EXCEPT ![h] = Clamped(@, Len(list))]

HubPolls(h) ==
  /\ hub[h] = "open"
  /\ Refreshed(h, tabs[h])
  /\ UNCHANGED <<processes, registry, modes>>

(* poll_socket and handle: `start` and `stop` of a project reach the hub   *)
(* behind the socket file.  A project that is registered already keeps its *)
(* tab; one that is no project is refused.                                 *)
RoundTrip(h) == hubSock = h
Listens(h) == RoundTrip(h) /\ hub[h] = "open"

(* daemon_tab: a tab reads its status from the project's daemon.           *)
DaemonTab(h, p) == Refreshed(h, Append(tabs[h], p))

Registers(h, p) ==
  /\ Listens(h) /\ p \notin registry[h]
  /\ registry' = [registry EXCEPT ![h] = @ \cup {p}]
  /\ IF Contains(tabs[h], p) THEN UNCHANGED <<tabs, models, active>>
                             ELSE DaemonTab(h, p)
  /\ UNCHANGED <<processes, modes>>

(* remove_project of the server, which calls that of the window.  With the *)
(* last tab the socket is closed and the window destroyed.                 *)
Unregistered(h, p) ==
  /\ registry' = [registry EXCEPT ![h] = @ \ {p}]
  /\ Refreshed(h, RemoveFirst(tabs[h], p))
  /\ IF tabs[h] = <<p>>
       THEN hubSock' = NoHub /\ Moves(h, "closing")
       ELSE UNCHANGED processes
  /\ UNCHANGED modes

Unregisters(h, p) ==
  /\ Listens(h) /\ p \in registry[h]
  /\ Unregistered(h, p)

OnQuitActive(h) ==
  /\ hub[h] = "open" /\ tabs[h] # <<>>
  /\ Unregistered(h, tabs[h][active[h]])

(* _on_quit_all: each tab that quits leaves the list the loop runs over,   *)
(* so that it passes every second one; then the window is destroyed.       *)
OnQuitAll(h) ==
  /\ hub[h] = "open"
  /\ LET left == [i \in 1..(Len(tabs[h]) \div 2) |-> tabs[h][2 * i]]
     IN  /\ registry' = [registry EXCEPT ![h] = ToSet(left)]
         /\ tabs' = [tabs EXCEPT ![h] = left]
         /\ models' = [models EXCEPT ![h] = [i \in 1..Len(left) |-> Indicator(modes[left[i]])]]
         /\ active' = [active EXCEPT ![h] = Clamped(@, Len(left))]
         /\ hubSock' = IF Len(tabs[h]) = 1 THEN NoHub ELSE hubSock
  /\ Moves(h, "closing")
  /\ UNCHANGED modes

OnSelect(h) ==
  /\ hub[h] = "open"
  /\ \E i \in DOMAIN tabs[h] : active' = [active EXCEPT ![h] = i]
  /\ UNCHANGED <<processes, registry, tabs, models, modes>>

-----------------------------------------------------------------------------
(* The buttons act by what the tab showed last.  A daemon that is paused   *)
(* already, or asked to resume from another mode, stays as it is.          *)
Paused(p) == IF modes[p] = "down" THEN "down" ELSE "PAUSE"
Resumed(p) == IF modes[p] = "PAUSE" THEN "AUTO" ELSE modes[p]

(* The same press refreshes every tab.                                     *)
RefreshedBy(h) ==
  models' = [models EXCEPT ![h] = [i \in DOMAIN tabs[h] |-> Indicator(modes'[tabs[h][i]])]]

OnPauseActive(h) ==
  /\ hub[h] = "open" /\ tabs[h] # <<>>
  /\ LET p == tabs[h][active[h]]
     IN  modes' = [modes EXCEPT ![p] = IF models[h][active[h]] = "paused" THEN Resumed(p) ELSE Paused(p)]
  /\ RefreshedBy(h)
  /\ UNCHANGED <<processes, registry, tabs, active>>

OnPauseAll(h) ==
  /\ hub[h] = "open"
  /\ modes' = [p \in Projects |->
                 IF \E i \in DOMAIN tabs[h] : tabs[h][i] = p /\ models[h][i] # "paused"
                 THEN Paused(p) ELSE modes[p]]
  /\ RefreshedBy(h)
  /\ UNCHANGED <<processes, registry, tabs, active>>

(* The daemons: started, stopped, and switched by others.                  *)
ProjectChanges(p) ==
  /\ \E mode \in DaemonModes : modes' = [modes EXCEPT ![p] = mode]
  /\ UNCHANGED <<processes, views>>

HubNext ==
  \/ \E h \in Hubs :
       \/ Launches(h) \/ ListenBinds(h) \/ ListenReclaims(h) \/ ListenRebinds(h)
       \/ HubExits(h) \/ HubCrashes(h) \/ OnCloseWindow(h) \/ HubPolls(h)
       \/ \E p \in Projects : Registers(h, p) \/ Unregisters(h, p)
       \/ OnQuitActive(h) \/ OnQuitAll(h) \/ OnSelect(h)
       \/ OnPauseActive(h) \/ OnPauseAll(h)
  \/ \E p \in Projects : ProjectChanges(p)

HubSpec == HubInit /\ [][HubNext]_hubVars

-----------------------------------------------------------------------------
(* "idempotent per project" (hub.py:361, companion.py:4009): server and    *)
(* window agree on the projects, whichever side a tab is removed from, no  *)
(* project has two tabs, each tab has a model, and the visible tab, whose  *)
(* project the buttons reach, is one of them.                              *)
RegistryIsShown ==
  \A h \in Hubs : hub[h] = "open" =>
    /\ ToSet(tabs[h]) = registry[h] /\ IsInjective(tabs[h])
    /\ Len(models[h]) = Len(tabs[h])
    /\ tabs[h] # <<>> => active[h] \in DOMAIN tabs[h]
=============================================================================
