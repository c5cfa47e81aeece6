------------------------------- MODULE Daemon -------------------------------
(***************************************************************************)
(* One project's resident daemon and the command-line processes around it: *)
(* run_daemon and the stop request in ariadex/daemon.py, the generation of *)
(* managed_runtime.py, the widget of widget_runtime.py, and start, stop    *)
(* and widget in cli.py.  They meet in files only: the daemon record, the  *)
(* socket, the lease, the generation and the widget record.                *)
(*                                                                         *)
(* Every client is one process that runs one command, every pid one daemon *)
(* process.  A step is one access to a shared file, or a call that makes   *)
(* one.  The lease is taken, dropped and recovered in one step: what lies  *)
(* inside is module Lease.  Modes and cancellation are module Runner's,    *)
(* the watcher thread is module Watcher's, the provider session Relay's.   *)
(***************************************************************************)
EXTENDS Naturals

CONSTANTS
  MaxClients,  \* bound on command-line processes
  MaxPids,     \* bound on daemon processes
  MaxCrashes,  \* bound on daemon crashes
  Nil

ASSUME BoundsAssumption ==
  MaxClients \in Nat /\ MaxPids \in Nat /\ MaxCrashes \in Nat /\ Nil \notin Nat

(* Processes are numbered in the order in which they begin.                *)
Clients == 1..MaxClients
Pids == 1..MaxPids

VARIABLES
  record,      \* daemon.json: Nil or a pid and a status
  sock,        \* daemon.sock: Nil or the daemon that bound it
  lease,       \* the lock file's owner, or Nil
  managed,     \* the managed-runtime marker exists
  gen,         \* managed-generation.json: Nil or a pid and a status
  widget,      \* widget.json: Nil or the recorded process
  dpc,         \* [Pids]: where the daemon process is
  serving,     \* [Pids]: its control socket is open
  stopEvent,   \* [Pids]: stop_event
  started,     \* [Pids]: its managed runtime is started
  child,       \* [Pids]: the widget process it keeps, or Nil
  cpc,         \* [Clients]: where the command is
  seen,        \* [Clients]: the record it read
  parent,      \* [Clients]: the daemon that spawned this widget process, or Nil
  asked,       \* [Clients]: the daemon whose thread handles its request, or Nil
  hpc,         \* [Clients]: where that thread is
  crashes      \* bound

files == <<record, sock, lease, managed, gen, widget>>
daemons == <<dpc, serving, stopEvent, started, child>>
clients == <<cpc, seen, parent>>
requests == <<asked, hpc>>
daemonVars == <<files, daemons, clients, requests, crashes>>

Entry(pid, status) == [pid |-> pid, status |-> status]

Lives(p) == dpc[p] \notin {"unborn", "exited", "crashed"}

RecordAlive_StatusOnly(r) == r # Nil /\ r.status = "running"

(* daemon_alive: a running record of a live process.                       *)
RecordAlive(r) == r # Nil /\ r.status = "running" /\ Lives(r.pid)

(* A connection is answered: the file leads to an open socket.             *)
Reachable == sock # Nil /\ serving[sock]

LeaseIsLive == lease # Nil /\ Lives(lease)

DaemonInit ==
  /\ record = Nil /\ sock = Nil /\ lease = Nil /\ managed = FALSE
  /\ gen = Nil /\ widget = Nil /\ crashes = 0
  /\ dpc = [p \in Pids |-> "unborn"]
  /\ serving = [p \in Pids |-> FALSE]
  /\ stopEvent = [p \in Pids |-> FALSE]
  /\ started = [p \in Pids |-> FALSE]
  /\ child = [p \in Pids |-> Nil]
  /\ cpc = [c \in Clients |-> "idle"]
  /\ seen = [c \in Clients |-> Nil]
  /\ parent = [c \in Clients |-> Nil]
  /\ asked = [c \in Clients |-> Nil]
  /\ hpc = [c \in Clients |-> "none"]

IsNext(c) == cpc[c] = "idle" /\ \A b \in Clients : b < c => cpc[b] # "idle"

GoesTo(c, label) == cpc' = [cpc EXCEPT ![c] = label]
At(p, label) == dpc' = [dpc EXCEPT ![p] = label]

-----------------------------------------------------------------------------
(* ariadex start, and the part of it that widget shares.                   *)

(* cmd_start marks the project as managed, looks for an owner             *)
(* (_live_owner), attaches to what runs, and else starts a daemon.         *)
StartBegins(c) ==
  /\ IsNext(c)
  /\ managed' = TRUE
  /\ GoesTo(c, IF RecordAlive(record) THEN "attached" ELSE "reread")
  /\ UNCHANGED <<record, sock, lease, gen, widget, daemons, seen, parent, requests, crashes>>

(* widget looks first and marks nothing.  Its status request to a daemon   *)
(* whose record is not alive is one more look at the record.               *)
WidgetBegins(c) ==
  /\ IsNext(c)
  /\ GoesTo(c, "widget")
  /\ UNCHANGED <<files, daemons, seen, parent, requests, crashes>>

WidgetLooks(c) ==
  /\ cpc[c] = "widget"
  /\ GoesTo(c, IF RecordAlive(record) THEN "attached" ELSE "reread")
  /\ UNCHANGED <<files, daemons, seen, parent, requests, crashes>>

(* _start_daemon_only, in its order: the record, the lease, the socket,    *)
(* the process, and a bounded wait for it.                                 *)
StarterReads(c) ==
  /\ cpc[c] = "reread"
  /\ IF RecordAlive(record)
       THEN GoesTo(c, "done") /\ UNCHANGED seen
       ELSE GoesTo(c, "diagnose") /\ seen' = [seen EXCEPT ![c] = record]
  /\ UNCHANGED <<files, daemons, parent, requests, crashes>>

StarterRecovers_Always(c) ==
  /\ cpc[c] = "diagnose"
  /\ GoesTo(c, "clean")
  /\ lease' = Nil
  /\ UNCHANGED <<record, sock, managed, gen, widget, daemons, seen, parent, requests, crashes>>

StarterRefused(c) ==
  /\ cpc[c] = "diagnose" /\ LeaseIsLive
  /\ seen' = [seen EXCEPT ![c] = Nil]
  /\ GoesTo(c, "done")
  /\ UNCHANGED <<files, daemons, parent, requests, crashes>>

StarterRecovers(c) ==
  /\ cpc[c] = "diagnose" /\ ~LeaseIsLive
  /\ GoesTo(c, "clean")
  /\ lease' = Nil
  /\ UNCHANGED <<record, sock, managed, gen, widget, daemons, seen, parent, requests, crashes>>

(* What it read may be old by now: this unlinks whatever socket is there.  *)
StarterCleans(c) ==
  /\ cpc[c] = "clean"
  /\ sock' = IF seen[c] = Nil THEN sock ELSE Nil
  /\ seen' = [seen EXCEPT ![c] = Nil]
  /\ GoesTo(c, "spawn")
  /\ UNCHANGED <<record, lease, managed, gen, widget, daemons, parent, requests, crashes>>

StarterSpawns(c) ==
  /\ cpc[c] = "spawn"
  /\ \E p \in Pids :
       /\ dpc[p] = "unborn" /\ \A q \in Pids : q < p => dpc[q] # "unborn"
       /\ At(p, "new")
  /\ parent' = [parent EXCEPT ![c] = Nil]
  /\ GoesTo(c, "ready")
  /\ UNCHANGED <<files, serving, stopEvent, started, child, seen, requests, crashes>>

(* The wait sees a live record and a socket file, whosever they are.       *)
StarterReady(c) ==
  /\ cpc[c] = "ready"
  /\ RecordAlive(record) /\ sock # Nil
  /\ GoesTo(c, "attached")
  /\ UNCHANGED <<files, daemons, seen, parent, requests, crashes>>

(* The process ended first, or five seconds passed.                        *)
StarterGivesUp(c) ==
  /\ cpc[c] \in {"ready", "spawn"}
  /\ GoesTo(c, "done")
  /\ UNCHANGED <<files, daemons, seen, parent, requests, crashes>>

(* The operator detaches, or interrupts, which asks for a stop; the widget *)
(* window asks for one when it is closed.                                  *)
Leaves(c) ==
  /\ cpc[c] = "attached"
  /\ GoesTo(c, "done") \/ GoesTo(c, "send")
  /\ UNCHANGED <<files, daemons, seen, parent, requests, crashes>>

-----------------------------------------------------------------------------
(* ariadex stop.                                                           *)
StopBegins(c) ==
  /\ IsNext(c)
  /\ IF RecordAlive(record)
       THEN GoesTo(c, "send") /\ UNCHANGED seen
       ELSE GoesTo(c, "stale") /\ seen' = [seen EXCEPT ![c] = record]
  /\ UNCHANGED <<files, daemons, parent, requests, crashes>>

(* Not running: the record it read is written back as stopped, and the     *)
(* socket removed, whatever has started meanwhile.                         *)
StopWritesStale(c) ==
  /\ cpc[c] = "stale"
  /\ record' = IF seen[c] = Nil THEN record ELSE [seen[c] EXCEPT !.status = "stopped"]
  /\ seen' = [seen EXCEPT ![c] = Nil]
  /\ GoesTo(c, "unlink")
  /\ UNCHANGED <<sock, lease, managed, gen, widget, daemons, parent, requests, crashes>>

StopUnlinks(c) ==
  /\ cpc[c] = "unlink"
  /\ sock' = Nil
  /\ GoesTo(c, "done")
  /\ UNCHANGED <<record, lease, managed, gen, widget, daemons, seen, parent, requests, crashes>>

(* The request reaches the daemon behind the socket, or fails.             *)
SendStop(c) ==
  /\ cpc[c] = "send" /\ Reachable
  /\ asked' = [asked EXCEPT ![c] = sock]
  /\ hpc' = [hpc EXCEPT ![c] = "read"]
  /\ GoesTo(c, "asked")
  /\ UNCHANGED <<files, daemons, seen, parent, crashes>>

SendFails(c) ==
  /\ cpc[c] = "send" /\ ~Reachable
  /\ GoesTo(c, "done")
  /\ UNCHANGED <<files, daemons, seen, parent, requests, crashes>>

(* No answer within five seconds, or the daemon is gone.                   *)
AnswerLost(c) ==
  /\ cpc[c] = "asked"
  /\ GoesTo(c, "done")
  /\ UNCHANGED <<files, daemons, seen, parent, requests, crashes>>

(* _wait_for_managed_shutdown: until the record is not alive.              *)
StopWaited(c) ==
  /\ cpc[c] = "wait" /\ ~RecordAlive(record)
  /\ GoesTo(c, "done")
  /\ UNCHANGED <<files, daemons, seen, parent, requests, crashes>>

StopWaitsTooLong(c) ==
  /\ cpc[c] = "wait" /\ RecordAlive(record)
  /\ GoesTo(c, "done")
  /\ UNCHANGED <<files, daemons, seen, parent, requests, crashes>>

-----------------------------------------------------------------------------
(* The thread that serves one stop request.                                *)
Handling(c) == asked[c] # Nil

HandlerMarks(c) ==
  /\ Handling(c) /\ hpc[c] = "read"
  /\ record' = IF record = Nil THEN Nil ELSE [record EXCEPT !.status = "stopping"]
  /\ hpc' = [hpc EXCEPT ![c] = "event"]
  /\ UNCHANGED <<sock, lease, managed, gen, widget, daemons, clients, asked, crashes>>

(* It sets the event and answers a client that is still there.             *)
HandlerAnswers(c) ==
  /\ Handling(c) /\ hpc[c] = "event"
  /\ stopEvent' = [stopEvent EXCEPT ![asked[c]] = TRUE]
  /\ hpc' = [hpc EXCEPT ![c] = "none"]
  /\ asked' = [asked EXCEPT ![c] = Nil]
  /\ cpc' = IF cpc[c] = "asked"
              THEN [cpc EXCEPT ![c] = IF managed THEN "wait" ELSE "done"]
              ELSE cpc
  /\ UNCHANGED <<files, dpc, serving, started, child, seen, parent, crashes>>

(* The config or the state cannot be read: the request is refused, and the *)
(* event set all the same.  Or the record cannot be written: no answer.    *)
HandlerRefuses(c) ==
  /\ Handling(c) /\ hpc[c] = "read"
  /\ \E set \in {stopEvent[asked[c]], TRUE} : stopEvent' = [stopEvent EXCEPT ![asked[c]] = set]
  /\ hpc' = [hpc EXCEPT ![c] = "none"]
  /\ asked' = [asked EXCEPT ![c] = Nil]
  /\ cpc' = IF cpc[c] = "asked" THEN [cpc EXCEPT ![c] = "done"] ELSE cpc
  /\ UNCHANGED <<files, dpc, serving, started, child, seen, parent, crashes>>

-----------------------------------------------------------------------------
(* The daemon process.  Its request threads and what it remembers of its   *)
(* widget process end with it.                                             *)
Forgets(p) ==
  /\ asked' = [c \in Clients |-> IF asked[c] = p THEN Nil ELSE asked[c]]
  /\ hpc' = [c \in Clients |-> IF asked[c] = p THEN "none" ELSE hpc[c]]
  /\ child' = [child EXCEPT ![p] = Nil]

Acquires_Steals(p) ==
  /\ dpc[p] = "new"
  /\ lease' = p
  /\ At(p, "record")
  /\ UNCHANGED <<record, sock, managed, gen, widget, serving, stopEvent, started, child, clients, requests, crashes>>

Acquires(p) ==
  /\ dpc[p] = "new" /\ lease = Nil
  /\ lease' = p
  /\ At(p, "record")
  /\ UNCHANGED <<record, sock, managed, gen, widget, serving, stopEvent, started, child, clients, requests, crashes>>

LeaseRefused(p) ==
  /\ dpc[p] = "new" /\ lease # Nil
  /\ At(p, "exited")
  /\ UNCHANGED <<files, serving, stopEvent, started, child, clients, requests, crashes>>

WritesRecord(p) ==
  /\ dpc[p] = "record"
  /\ record' = Entry(p, "running")
  /\ At(p, "unlink")
  /\ UNCHANGED <<sock, lease, managed, gen, widget, serving, stopEvent, started, child, clients, requests, crashes>>

UnlinksOldSocket(p) ==
  /\ dpc[p] = "unlink"
  /\ sock' = Nil
  /\ At(p, IF managed THEN "widget" ELSE "bind")
  /\ UNCHANGED <<record, lease, managed, gen, widget, serving, stopEvent, started, child, clients, requests, crashes>>

(* ManagedRuntime.start: the provider session or a factory may fail, and   *)
(* the daemon cleans up and ends.                                          *)
RuntimeFails(p) ==
  /\ dpc[p] \in {"widget", "widgetRecord", "watcher"}
  /\ child' = [child EXCEPT ![p] = Nil]
  /\ At(p, "teardown")
  /\ UNCHANGED <<files, serving, stopEvent, started, clients, requests, crashes>>

(* is_healthy: the recorded process lives and carries the recorded token.  *)
WidgetHealthy == widget # Nil /\ cpc[widget] # "done"

(* ensure_widget: none wanted, or a healthy one to reuse.                  *)
KeepsWidget(p) ==
  /\ dpc[p] = "widget"
  /\ At(p, "watcher")
  /\ UNCHANGED <<files, serving, stopEvent, started, child, clients, requests, crashes>>

(* A new widget is recorded only after it was spawned.                     *)
SpawnsWidget(p) ==
  /\ dpc[p] = "widget" /\ ~WidgetHealthy
  /\ \E c \in Clients :
       /\ IsNext(c)
       /\ GoesTo(c, "widget")
       /\ parent' = [parent EXCEPT ![c] = p]
       /\ child' = [child EXCEPT ![p] = c]
  /\ At(p, "widgetRecord")
  /\ UNCHANGED <<files, serving, stopEvent, started, seen, requests, crashes>>

RecordsWidget(p) ==
  /\ dpc[p] = "widgetRecord"
  /\ widget' = child[p]
  /\ At(p, "watcher")
  /\ UNCHANGED <<record, sock, lease, managed, gen, serving, stopEvent, started, child, clients, requests, crashes>>

(* The watcher thread runs and the generation is recorded.                 *)
StartsWatcher(p) ==
  /\ dpc[p] = "watcher"
  /\ gen' = Entry(p, "running")
  /\ started' = [started EXCEPT ![p] = TRUE]
  /\ At(p, "bind")
  /\ UNCHANGED <<record, sock, lease, managed, widget, serving, stopEvent, child, clients, requests, crashes>>

(* The thread runs but the generation cannot be written: the runtime       *)
(* forgets its widget process, and counts as started.                      *)
GenerationFails(p) ==
  /\ dpc[p] = "watcher"
  /\ started' = [started EXCEPT ![p] = TRUE]
  /\ child' = [child EXCEPT ![p] = Nil]
  /\ At(p, "teardown")
  /\ UNCHANGED <<files, serving, stopEvent, clients, requests, crashes>>

Binds(p) ==
  /\ dpc[p] = "bind"
  /\ sock' = p
  /\ serving' = [serving EXCEPT ![p] = TRUE]
  /\ At(p, "loop")
  /\ UNCHANGED <<record, lease, managed, gen, widget, stopEvent, started, child, clients, requests, crashes>>

(* The socket cannot be bound, with everything else running.               *)
BindFails(p) ==
  /\ dpc[p] = "bind"
  /\ At(p, "teardown")
  /\ UNCHANGED <<files, serving, stopEvent, started, child, clients, requests, crashes>>

(* The loop's look at the event and the record.  The scheduling cycle that *)
(* it runs otherwise, when nothing is managed, is module Runner's.         *)
SeesStop_RecordOnly(p) ==
  /\ dpc[p] = "loop"
  /\ record # Nil /\ record.status = "stopping"
  /\ stopEvent' = [stopEvent EXCEPT ![p] = TRUE]
  /\ At(p, "teardown")
  /\ UNCHANGED <<files, serving, started, child, clients, requests, crashes>>

SeesStop(p) ==
  /\ dpc[p] = "loop"
  /\ stopEvent[p] \/ (record # Nil /\ record.status = "stopping")
  /\ stopEvent' = [stopEvent EXCEPT ![p] = TRUE]
  /\ At(p, "teardown")
  /\ UNCHANGED <<files, serving, started, child, clients, requests, crashes>>

(* The accepting thread closes the server once the event is set.           *)
ServerCloses(p) ==
  /\ Lives(p) /\ stopEvent[p] /\ serving[p]
  /\ serving' = [serving EXCEPT ![p] = FALSE]
  /\ UNCHANGED <<files, dpc, stopEvent, started, child, clients, requests, crashes>>

(* mark_generation_stopped: whichever generation is recorded.              *)
MarkStopped == IF gen = Nil THEN Nil ELSE [gen EXCEPT !.status = "stopped"]

(* terminate_owned, which has nothing to do without a record.              *)
Ends(c) == IF c = Nil THEN cpc ELSE [cpc EXCEPT ![c] = "done"]

TearsDown_KeepsWidget(p) ==
  /\ dpc[p] = "teardown" /\ ~serving[p]
  /\ IF started[p]
       THEN gen' = MarkStopped
       ELSE UNCHANGED gen
  /\ started' = [started EXCEPT ![p] = FALSE]
  /\ At(p, "close")
  /\ UNCHANGED <<record, sock, lease, managed, widget, serving, stopEvent, child, clients, requests, crashes>>

(* The accepting thread is joined.  ManagedRuntime.stop ends the watcher,  *)
(* the provider and the widget: its own process, or the recorded one when  *)
(* it has none.                                                            *)
TearsDown_KeepsGeneration(p) ==
  /\ dpc[p] = "teardown" /\ ~serving[p]
  /\ IF started[p]
       THEN IF child[p] # Nil
              THEN cpc' = Ends(child[p]) /\ UNCHANGED widget
              ELSE cpc' = Ends(widget) /\ widget' = Nil
       ELSE UNCHANGED <<cpc, widget>>
  /\ started' = [started EXCEPT ![p] = FALSE]
  /\ At(p, "close")
  /\ UNCHANGED <<record, sock, lease, managed, gen, serving, stopEvent, child, seen, parent, requests, crashes>>

TearsDown(p) ==
  /\ dpc[p] = "teardown" /\ ~serving[p]
  /\ IF started[p]
       THEN /\ gen' = MarkStopped
            /\ IF child[p] # Nil
                 THEN cpc' = Ends(child[p]) /\ UNCHANGED widget
                 ELSE cpc' = Ends(widget) /\ widget' = Nil
       ELSE UNCHANGED <<gen, cpc, widget>>
  /\ started' = [started EXCEPT ![p] = FALSE]
  /\ At(p, "close")
  /\ UNCHANGED <<record, sock, lease, managed, serving, stopEvent, child, seen, parent, requests, crashes>>

ClosesSocket(p) ==
  /\ dpc[p] = "close"
  /\ sock' = Nil
  /\ serving' = [serving EXCEPT ![p] = FALSE]
  /\ At(p, "final")
  /\ UNCHANGED <<record, lease, managed, gen, widget, stopEvent, started, child, clients, requests, crashes>>

WritesStopped(p) ==
  /\ dpc[p] = "final"
  /\ record' = IF record # Nil /\ record.pid = p THEN Entry(p, "stopped") ELSE record
  /\ At(p, "release")
  /\ UNCHANGED <<sock, lease, managed, gen, widget, serving, stopEvent, started, child, clients, requests, crashes>>

Releases(p) ==
  /\ dpc[p] = "release"
  /\ lease' = IF lease = p THEN Nil ELSE lease
  /\ At(p, "exited")
  /\ Forgets(p)
  /\ UNCHANGED <<record, sock, managed, gen, widget, serving, stopEvent, started, clients, crashes>>

(* The process dies anywhere; its files stay.                              *)
Dies(p) ==
  /\ Lives(p) /\ crashes < MaxCrashes
  /\ crashes' = crashes + 1
  /\ At(p, "crashed")
  /\ serving' = [serving EXCEPT ![p] = FALSE]
  /\ stopEvent' = [stopEvent EXCEPT ![p] = FALSE]
  /\ started' = [started EXCEPT ![p] = FALSE]
  /\ Forgets(p)
  /\ UNCHANGED <<files, clients>>

-----------------------------------------------------------------------------
Command(c) ==
  \/ StartBegins(c) \/ WidgetBegins(c) \/ WidgetLooks(c)
  \/ StarterReads(c) \/ StarterRefused(c) \/ StarterRecovers(c) \/ StarterCleans(c)
  \/ StarterSpawns(c) \/ StarterReady(c) \/ StarterGivesUp(c) \/ Leaves(c)
  \/ StopBegins(c) \/ StopWritesStale(c) \/ StopUnlinks(c)
  \/ SendStop(c) \/ SendFails(c) \/ AnswerLost(c) \/ StopWaited(c) \/ StopWaitsTooLong(c)

Handler(c) == HandlerMarks(c) \/ HandlerAnswers(c) \/ HandlerRefuses(c)

Startup(p) ==
  \/ Acquires(p) \/ LeaseRefused(p) \/ WritesRecord(p) \/ UnlinksOldSocket(p)
  \/ KeepsWidget(p) \/ SpawnsWidget(p) \/ RecordsWidget(p) \/ StartsWatcher(p) \/ Binds(p)

Shutdown(p) ==
  \/ SeesStop(p) \/ ServerCloses(p) \/ TearsDown(p) \/ ClosesSocket(p)
  \/ WritesStopped(p) \/ Releases(p)

DaemonStep(p) == Startup(p) \/ Shutdown(p)

Fault(p) == RuntimeFails(p) \/ GenerationFails(p) \/ BindFails(p) \/ Dies(p)

DaemonNext ==
  \/ \E c \in Clients : Command(c) \/ Handler(c)
  \/ \E p \in Pids : DaemonStep(p) \/ Fault(p)

(* A daemon that was told to stop, or is ending, goes on.                  *)
DaemonSpec ==
  DaemonInit /\ [][DaemonNext]_daemonVars /\ \A p \in Pids : WF_daemonVars(Shutdown(p))

-----------------------------------------------------------------------------
Owning == {"record", "unlink", "widget", "widgetRecord", "watcher", "bind", "loop", "teardown", "close", "final", "release"}

Statuses == {"running", "stopping", "stopped"}

Records == [pid : Pids, status : Statuses] \cup {Nil}

CommandLabels ==
  {"idle", "widget", "reread", "diagnose", "clean", "spawn", "ready",
   "attached", "stale", "unlink", "send", "asked", "wait", "done"}

(* Every variable has the values the code writes.                          *)
DaemonTypeOK ==
  /\ record \in Records /\ gen \in Records
  /\ sock \in Pids \cup {Nil} /\ lease \in Pids \cup {Nil}
  /\ managed \in BOOLEAN /\ widget \in Clients \cup {Nil}
  /\ dpc \in [Pids -> Owning \cup {"unborn", "new", "exited", "crashed"}]
  /\ serving \in [Pids -> BOOLEAN] /\ stopEvent \in [Pids -> BOOLEAN]
  /\ started \in [Pids -> BOOLEAN] /\ child \in [Pids -> Clients \cup {Nil}]
  /\ cpc \in [Clients -> CommandLabels]
  /\ seen \in [Clients -> Records]
  /\ parent \in [Clients -> Pids \cup {Nil}]
  /\ asked \in [Clients -> Pids \cup {Nil}] /\ hpc \in [Clients -> {"none", "read", "event"}]
  /\ crashes \in 0..MaxCrashes

(* "use the project ownership lease to prevent concurrent daemons"         *)
(* (openspec/specs/daemon-runtime): of any number of starts, widgets and   *)
(* restarts after crashes, one daemon at a time is past acquire.           *)
OneDaemon == \A p, q \in Pids : dpc[p] \in Owning /\ dpc[q] \in Owning => p = q

(* A control request is answered by the daemon that owns the project, and  *)
(* never by one that is gone or about to be replaced, whoever unlinks and  *)
(* binds the socket in between.                                            *)
AnswersAreTheOwners == Reachable => lease = sock /\ dpc[sock] \in Owning

(* A start that reports a started daemon saw one that owns the project.    *)
ReadyMeansOwned ==
  [][\A c \in Clients :
       cpc[c] = "ready" /\ cpc'[c] = "attached" => record.pid = lease]_daemonVars

(* A daemon that ended by itself left no generation of its own running,    *)
(* failed starts and a failed write of the generation included.            *)
GenerationEnds ==
  gen # Nil /\ gen.status = "running" => dpc[gen.pid] # "exited"

(* The widget process can start a daemon of its own when it finds none.    *)
(* After a stop it must not: it is ended before the lease is free.         *)
WidgetRevivesNothing ==
  [][\A c \in Clients :
       cpc[c] = "spawn" /\ cpc'[c] = "ready" /\ parent[c] # Nil
         => ~(dpc[parent[c]] = "exited" /\ stopEvent[parent[c]])]_daemonVars

(* A daemon that was told to stop ends, whatever is written to its record  *)
(* meanwhile, unless it dies first.                                        *)
StopEnds == \A p \in Pids : stopEvent[p] ~> dpc[p] \in {"exited", "crashed"}
=============================================================================
