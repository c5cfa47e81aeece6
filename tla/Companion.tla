----------------------------- MODULE Companion ------------------------------
(***************************************************************************)
(* The floating window of one project (CompanionWindow of                  *)
(* ariadex/companion.py) and its daemon.  A press sends one request from a *)
(* thread of its own, a timer polls the status from another, and both      *)
(* bring what they got to the Tk thread, in any order.  The daemon is      *)
(* changed by others too: the command line, its watcher, a crash.          *)
(***************************************************************************)
EXTENDS Naturals

CONSTANTS
  Messages, Empty,   \* what the message box may hold
  MaxPresses,        \* bound on the operator's presses
  MaxEvents          \* bound on what others do, lost requests among it

ASSUME BoxAssumption == Empty \notin Messages

VARIABLES
  daemon,     \* the daemon: its generation, whether it runs, its mode, its watcher
  shown,      \* self.model: the state the buttons follow
  armed,      \* self._stop_armed
  press,      \* the action in flight (self._action_busy), or NoPress
  late,       \* a request its client gave up on, in a thread of the daemon
  poll,       \* the refresh in flight (self._refresh_busy), or NoPoll
  box,        \* the message box
  display,    \* self.display_mode
  open,       \* the window's process lives
  delivered,  \* history: the messages the daemon took
  presses, events

companionVars == <<daemon, shown, armed, press, late, poll, box, display, open,
                   delivered, presses, events>>

Modes == {"AUTO", "PAUSE", "MANUAL"}

(* failure_view_model: what is shown while nothing is known.               *)
Unreachable == [mode |-> "unknown", alive |-> FALSE, manual |-> FALSE]

(* daemon_status_view: a daemon whose record says stopping is not alive;   *)
(* without a watcher there is nothing to retry and no model to choose.     *)
View == [mode |-> daemon.mode, alive |-> daemon.up \in {"running", "ending"}, manual |-> daemon.watcher]

NoPress == [action |-> "none", text |-> Empty, step |-> "none", ok |-> FALSE,
              view |-> Unreachable, generation |-> 0]
NoPoll == [step |-> "none", ok |-> FALSE, view |-> Unreachable]

(* The constructor refreshes once before the window takes events.          *)
CompanionInit ==
  /\ \E up \in {"running", "down"}, mode \in Modes :
       daemon = [generation |-> 1, up |-> up, mode |-> mode, watcher |-> TRUE]
  /\ shown = IF daemon.up = "down" THEN Unreachable ELSE View
  /\ armed = FALSE /\ open = TRUE
  /\ press = NoPress /\ late = NoPress /\ poll = NoPoll
  /\ box = Empty /\ display = "collapsed" /\ delivered = {}
  /\ presses = 0 /\ events = 0

-----------------------------------------------------------------------------
(* The buttons.  The strip shows none; the manual panel and the rows of    *)
(* the details need the full window.                                       *)
Visible(action) ==
  \/ display = "full"
  \/ display = "collapsed" /\ action \in {"pause", "resume", "stop", "close"}

(* The "actions" of build_view_model; reconcile and close are always on.   *)
Allowed(action) ==
  CASE action = "pause" -> shown.alive /\ shown.mode = "AUTO"
    [] action = "resume" -> shown.alive /\ shown.mode \in {"PAUSE", "MANUAL"}
    [] action \in {"stop", "send"} -> shown.alive
    [] action \in {"retry", "switch"} -> shown.alive /\ shown.manual
    [] OTHER -> TRUE

(* _run_client_async: while one action is in flight another is not sent.   *)
Asks(action, text) ==
  /\ open /\ press = NoPress
  /\ presses < MaxPresses /\ presses' = presses + 1
  /\ press' = [NoPress EXCEPT !.action = action, !.text = text, !.step = "sent"]

OnButton(action) ==
  /\ action \in {"pause", "resume", "reconcile", "retry", "switch", "close"}
  /\ Visible(action) /\ Allowed(action)
  /\ Asks(action, Empty)
  /\ UNCHANGED <<daemon, shown, armed, late, poll, box, display, open, delivered, events>>

(* The global key works whatever is visible, and looks at the mode only.   *)
OnHotkey ==
  /\ Asks(IF shown.mode = "AUTO" THEN "pause" ELSE "resume", Empty)
  /\ UNCHANGED <<daemon, shown, armed, late, poll, box, display, open, delivered, events>>

OnSend ==
  /\ Visible("send") /\ Allowed("send") /\ box # Empty
  /\ Asks("send", box)
  /\ UNCHANGED <<daemon, shown, armed, late, poll, box, display, open, delivered, events>>

(* The first press of Stop arms it.                                        *)
OnStop ==
  /\ open /\ Visible("stop") /\ Allowed("stop") /\ ~armed
  /\ armed' = TRUE
  /\ UNCHANGED <<daemon, shown, press, late, poll, box, display, open, delivered, presses, events>>

(* The second sends the request, unless another is in flight.              *)
OnStopAgain ==
  /\ open /\ Visible("stop") /\ Allowed("stop") /\ armed
  /\ armed' = FALSE
  /\ \/ Asks("stop", Empty)
     \/ press # NoPress /\ UNCHANGED <<press, presses>>
  /\ UNCHANGED <<daemon, shown, late, poll, box, display, open, delivered, events>>

(* STOP_CONFIRM_TIMEOUT_MS passed.                                         *)
DisarmStop ==
  /\ open /\ armed
  /\ armed' = FALSE
  /\ UNCHANGED <<daemon, shown, press, late, poll, box, display, open, delivered, presses, events>>

(* The box can be edited while a send of it is in flight.                  *)
Types ==
  /\ open /\ Visible("send")
  /\ \E text \in Messages \ {box} : box' = text
  /\ UNCHANGED <<daemon, shown, armed, press, late, poll, display, open, delivered, presses, events>>

(* _toggle_expanded, by a button the strip hides, and _cycle_display_mode, *)
(* by a click on the strip.                                                *)
Toggles ==
  /\ open
  /\ display' = IF display = "full" THEN "strip" ELSE "full"
  /\ UNCHANGED <<daemon, shown, armed, press, late, poll, box, open, delivered, presses, events>>

-----------------------------------------------------------------------------
(* handle_request of the daemon: what an action does to it.                *)
Handles(action, text, ok) ==
  /\ daemon.up # "down"
  /\ delivered' = IF ok /\ action = "send" THEN delivered \cup {text} ELSE delivered
  /\ \/ ok /\ action = "pause" /\ daemon' = [daemon EXCEPT !.mode = "PAUSE"]
     \/ ok /\ action = "resume" /\ daemon.mode # "MANUAL" /\ daemon' = [daemon EXCEPT !.mode = "AUTO"]
     \/ ok /\ action \in {"retry", "send", "switch"} /\ daemon.watcher /\ UNCHANGED daemon
     \/ ok /\ action = "reconcile" /\ UNCHANGED daemon
     \/ ~ok /\ action \notin {"reconcile", "stop", "close"} /\ UNCHANGED daemon
     \* a stop that is refused sets the stop event all the same
     \/ action \in {"stop", "close"} /\ daemon' = [daemon EXCEPT !.up = IF ok THEN "stopping" ELSE "ending"]

Serves ==
  /\ press.step = "sent"
  /\ \E ok \in BOOLEAN :
       /\ Handles(press.action, press.text, ok)
       /\ press' = [press EXCEPT !.step = "answered", !.ok = ok, !.view = View',
                                     !.generation = daemon.generation]
  /\ UNCHANGED <<shown, armed, late, poll, box, display, open, presses, events>>

(* Five seconds without an answer: the daemon may still come to it.        *)
GivesUp ==
  /\ press.step = "sent"
  /\ daemon.up = "down" \/ events < MaxEvents
  /\ events' = IF daemon.up = "down" THEN events ELSE events + 1
  /\ late' \in IF daemon.up = "down" THEN {late} ELSE {late, press}
  /\ press' = [press EXCEPT !.step = "answered"]
  /\ UNCHANGED <<daemon, shown, armed, poll, box, display, open, delivered, presses>>

ServesLate ==
  /\ late # NoPress
  /\ \E ok \in BOOLEAN : Handles(late.action, late.text, ok)
  /\ late' = NoPress
  /\ UNCHANGED <<shown, armed, press, poll, box, display, open, presses, events>>

Finish_QuitsAnyway ==
  /\ open /\ press.step = "answered"
  /\ press' = NoPress
  /\ shown' = IF press.ok THEN press.view ELSE Unreachable
  /\ box' = IF press.ok /\ press.action = "send" THEN Empty ELSE box
  /\ open' = (open /\ press.action # "close")
  /\ UNCHANGED <<daemon, armed, late, poll, display, delivered, presses, events>>

(* finish on the Tk thread: the answer, or UNREACHABLE, is shown; a send   *)
(* that went through empties the box, a close quits.                       *)
Finish ==
  /\ open /\ press.step = "answered"
  /\ press' = NoPress
  /\ shown' = IF press.ok THEN press.view ELSE Unreachable
  /\ box' = IF press.ok /\ press.action = "send" THEN Empty ELSE box
  /\ open' = (open /\ ~(press.ok /\ press.action = "close"))
  /\ UNCHANGED <<daemon, armed, late, poll, display, delivered, presses, events>>

-----------------------------------------------------------------------------
(* _refresh_async, on a timer; a tick is dropped while one is in flight.   *)
PollBegins ==
  /\ open /\ poll = NoPoll
  /\ poll' = [NoPoll EXCEPT !.step = "sent"]
  /\ UNCHANGED <<daemon, shown, armed, press, late, box, display, open, delivered, presses, events>>

PollAnswered ==
  /\ poll.step = "sent" /\ daemon.up # "down"
  /\ poll' = [step |-> "answered", ok |-> TRUE, view |-> View]
  /\ UNCHANGED <<daemon, shown, armed, press, late, box, display, open, delivered, presses, events>>

PollFails ==
  /\ poll.step = "sent"
  /\ daemon.up = "down" \/ events < MaxEvents
  /\ events' = IF daemon.up = "down" THEN events ELSE events + 1
  /\ poll' = [NoPoll EXCEPT !.step = "answered"]
  /\ UNCHANGED <<daemon, shown, armed, press, late, box, display, open, delivered, presses>>

PollFinishes_StaysBusy ==
  /\ open /\ poll.step = "answered"
  /\ poll' = IF poll.ok THEN NoPoll ELSE poll
  /\ shown' = IF poll.ok THEN poll.view ELSE shown
  /\ UNCHANGED <<daemon, armed, press, late, box, display, open, delivered, presses, events>>

(* A failed refresh adds its reason to the model and keeps the rest.       *)
PollFinishes ==
  /\ open /\ poll.step = "answered"
  /\ poll' = NoPoll
  /\ shown' = IF poll.ok THEN poll.view ELSE shown
  /\ UNCHANGED <<daemon, armed, press, late, box, display, open, delivered, presses, events>>

-----------------------------------------------------------------------------
(* The daemon's own life and the other clients.                            *)
Happens == events < MaxEvents /\ events' = events + 1

ModeChanges ==
  /\ Happens
  /\ \E mode \in Modes \ {daemon.mode} : daemon' = [daemon EXCEPT !.mode = mode]
  /\ UNCHANGED <<shown, armed, press, late, poll, box, display, open, delivered, presses>>

(* A blocked watcher ends; the daemon goes on.                             *)
WatcherLeaves ==
  /\ Happens
  /\ daemon.up = "running" /\ daemon.watcher
  /\ daemon' = [daemon EXCEPT !.watcher = FALSE]
  /\ UNCHANGED <<shown, armed, press, late, poll, box, display, open, delivered, presses>>

(* A stopping daemon ends the widget it owns; one that dies leaves it.     *)
DaemonEnds ==
  /\ daemon.up \in {"ending", "stopping"}
  /\ daemon' = [daemon EXCEPT !.up = "down", !.watcher = FALSE]
  /\ open' \in {open, FALSE}
  /\ late' = NoPress
  /\ UNCHANGED <<shown, armed, press, poll, box, display, delivered, presses, events>>

DaemonDies ==
  /\ Happens
  /\ daemon.up # "down"
  /\ daemon' = [daemon EXCEPT !.up = "down", !.watcher = FALSE]
  /\ late' = NoPress
  /\ UNCHANGED <<shown, armed, press, poll, box, display, open, delivered, presses>>

DaemonStarts ==
  /\ Happens
  /\ daemon.up = "down"
  /\ daemon' = [daemon EXCEPT !.generation = @ + 1, !.up = "running", !.watcher = TRUE]
  /\ UNCHANGED <<shown, armed, press, late, poll, box, display, open, delivered, presses>>

CompanionNext ==
  \/ \E action \in {"pause", "resume", "reconcile", "retry", "switch", "close"} : OnButton(action)
  \/ OnHotkey \/ OnSend \/ OnStop \/ OnStopAgain \/ DisarmStop \/ Types \/ Toggles
  \/ Serves \/ GivesUp \/ ServesLate \/ Finish
  \/ PollBegins \/ PollAnswered \/ PollFails \/ PollFinishes
  \/ ModeChanges \/ WatcherLeaves \/ DaemonEnds \/ DaemonDies \/ DaemonStarts

CompanionSpec == CompanionInit /\ [][CompanionNext]_companionVars

(* The timers of the Tk loop run, and a request is answered or given up.   *)
Answer == Serves \/ GivesUp
PollAnswer == PollAnswered \/ PollFails

-----------------------------------------------------------------------------
(* "Do not close the only visible control while the daemon is still        *)
(* running" (companion.py:2681): a window that closes leaves no daemon of  *)
(* the generation it asked to stop in service.                             *)
WindowOutlivesDaemon ==
  [][open /\ ~open' => daemon.up # "running" \/ press.generation \in 1..(daemon.generation - 1)]_companionVars

(* "the characters appear in the box and Send delivers them"               *)
(* (companion/spec.md:209): what an operator typed leaves the box only     *)
(* after the daemon took it.                                               *)
BoxKeepsUndelivered == [][box # Empty /\ box' = Empty => box \in delivered]_companionVars

(* Once others leave a running daemon alone, an open window comes to show  *)
(* it as it is, whatever answers were late, lost or applied out of order.  *)
WindowCatchesUp ==
  <>[](open /\ daemon.up = "running") => <>[](shown = View)
=============================================================================
