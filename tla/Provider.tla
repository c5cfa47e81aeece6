------------------------------ MODULE Provider ------------------------------
(***************************************************************************)
(* The OpenCode backend of a project: providers.py decides on each start   *)
(* whether to attach to a backend that survived its terminal, to replace   *)
(* it, or to refuse; provider_runtime.py keeps the record that names the   *)
(* backend by process identity.  The terminal is the tmux driver.          *)
(* Backends are numbered in the order they are launched.  All of them, and *)
(* possibly somebody else's server, want the one port that is hashed from  *)
(* the project's path.                                                     *)
(***************************************************************************)
EXTENDS Naturals, FiniteSets

CONSTANTS MaxBackends,  \* bound: backends ever launched
          Models,       \* models the operator may switch to
          Strangers,    \* TRUE: another program may take the port
          LostRecords   \* TRUE: the caller may die between launch and record

ASSUME ProviderAssumption ==
  /\ MaxBackends \in Nat \ {0} /\ "default" \notin Models
  /\ Strangers \in BOOLEAN /\ LostRecords \in BOOLEAN

VARIABLES backend,    \* [number -> [up, model]]
          port,       \* who answers the endpoint: 0, a backend, or Stranger
          pane,       \* the process in the tmux session: 0, a backend, or Attached
          runtime,    \* the process provider.json names, 0 for no record
          override,   \* model_override
          call        \* the adapter call under way

providerVars == <<backend, port, pane, runtime, override, call>>

Backends == 1 .. MaxBackends
Stranger == MaxBackends + 1
Attached == MaxBackends + 2   \* the attach client in the session
Gone == MaxBackends + 3      \* a recorded attach client whose session is gone
NoModel == "default"
NoCall == [op |-> "none", pc |-> "idle", rec |-> 0, found |-> 0, answers |-> 0, attach |-> FALSE]

ProviderInit ==
  /\ backend = [b \in Backends |-> [up |-> "none", model |-> NoModel]]
  /\ port = 0 /\ pane = 0 /\ runtime = 0 /\ override = NoModel
  /\ call = NoCall

BackendAlive(b) == b \in Backends /\ backend[b].up = "alive"

\* The recorded pid exists and was created when the record says: a pid that
\* went to another process is not the recorded one.
SameProcess(p) == BackendAlive(p) \/ (p = Attached /\ runtime = Attached)

\* find_process: some process of this project and port.
FoundProcesses == LET own == {b \in Backends : BackendAlive(b)} IN IF own = {} THEN {0} ELSE own

\* is_reusable: the recorded process runs, and anybody answers.
Reusable(c) == SameProcess(c.rec) /\ c.answers # 0

Proceeds(pc) == call' = [call EXCEPT !.pc = pc]
Finishes == call' = NoCall

\* A dead backend answers nothing; the terminal of what ends closes.
ProcessEnds(p) ==
  /\ backend' = IF p \in Backends THEN [backend EXCEPT ![p].up = "dead"] ELSE backend
  /\ port' = IF port = p THEN 0 ELSE port
  /\ pane' = IF pane = p THEN 0 ELSE pane

\* The record is cleared before it is known that the process has ended.
TerminatesOwned_Nothing(p) ==
  /\ UNCHANGED <<backend, port, pane>>
  /\ runtime' = 0

\* terminate_owned and clear_record.
TerminatesOwned(p) ==
  /\ IF SameProcess(p) THEN ProcessEnds(p) ELSE UNCHANGED <<backend, port, pane>>
  /\ runtime' = 0

\* An attach client ends with its session; the record still names it.
SessionEnds ==
  /\ pane' = 0
  /\ runtime' = IF runtime = Attached THEN Gone ELSE runtime

----------------------------------------------------------------------------

Starts ==
  /\ call.pc = "idle"
  /\ call' = [NoCall EXCEPT !.op = "start", !.pc = "probe"]
  /\ UNCHANGED <<backend, port, pane, runtime, override>>

Terminates ==
  /\ call.pc = "idle"
  /\ call' = [NoCall EXCEPT !.op = "terminate", !.pc = "kill", !.rec = runtime]
  /\ UNCHANGED <<backend, port, pane, runtime, override>>

\* The override is set first, and stays when the restart fails.
Switches ==
  /\ call.pc = "idle"
  /\ \E m \in Models : override' = m
  /\ call' = [NoCall EXCEPT !.op = "switch", !.pc = "kill", !.rec = runtime]
  /\ UNCHANGED <<backend, port, pane, runtime>>

\* start: the record, the process table and the endpoint are read.
Probes ==
  /\ call.pc = "probe"
  /\ \E f \in FoundProcesses :
       call' = [call EXCEPT !.pc = "decide", !.rec = runtime, !.found = f, !.answers = port]
  /\ UNCHANGED <<backend, port, pane, runtime, override>>

ShouldAttach(c) == Reusable(c) \/ (c.found # 0 /\ c.answers # 0)

Attaches ==
  /\ call.pc = "decide" /\ ShouldAttach(call)
  /\ runtime' = IF ~Reusable(call) /\ call.rec = 0 THEN call.found ELSE runtime
  /\ call' = [call EXCEPT !.pc = "create", !.attach = TRUE]
  /\ UNCHANGED <<backend, port, pane, override>>

\* A record that cannot be used is cleared, and its process terminated.
Replaces ==
  /\ call.pc = "decide" /\ ~ShouldAttach(call) /\ call.rec # 0
  /\ TerminatesOwned(call.rec)
  /\ Proceeds("create")
  /\ UNCHANGED override

\* Somebody answers, and no record or process explains it.
Refuses ==
  /\ call.pc = "decide" /\ ~ShouldAttach(call) /\ call.rec = 0 /\ call.answers # 0
  /\ Finishes
  /\ UNCHANGED <<backend, port, pane, runtime, override>>

LaunchesFresh ==
  /\ call.pc = "decide" /\ ~ShouldAttach(call) /\ call.rec = 0 /\ call.answers = 0
  /\ Proceeds("create")
  /\ UNCHANGED <<backend, port, pane, runtime, override>>

\* create_or_connect: a session that exists is connected to, whatever runs in it.
Connects ==
  /\ call.pc = "create" /\ pane # 0
  /\ IF call.attach THEN Finishes ELSE Proceeds("record")
  /\ UNCHANGED <<backend, port, pane, runtime, override>>

CreatesAttached ==
  /\ call.pc = "create" /\ pane = 0 /\ call.attach
  /\ pane' = Attached
  /\ Finishes
  /\ UNCHANGED <<backend, port, runtime, override>>

Creates ==
  /\ call.pc = "create" /\ pane = 0 /\ ~call.attach
  /\ \E b \in Backends :
       /\ backend[b].up = "none" /\ \A o \in 1 .. (b - 1) : backend[o].up # "none"
       /\ backend' = [backend EXCEPT ![b] = [up |-> "alive", model |-> override]]
       /\ pane' = b
  /\ Proceeds("record")
  /\ UNCHANGED <<port, runtime, override>>

CreateFails ==
  /\ call.pc = "create"
  /\ Finishes
  /\ UNCHANGED <<backend, port, pane, runtime, override>>

\* The record names the process found for the port, else the one in the pane,
\* whatever it is, if it can still be identified.
RecordsBackend ==
  /\ call.pc = "record"
  /\ \E f \in FoundProcesses :
       runtime' \in IF f # 0 THEN {f} ELSE IF pane # 0 THEN {pane, runtime} ELSE {runtime}
  /\ Finishes
  /\ UNCHANGED <<backend, port, pane, override>>

\* terminate: the session is killed; what ran in it hangs up, or survives.
KillsSession ==
  /\ call.pc = "kill"
  /\ SessionEnds
  /\ \/ pane \in Backends /\ BackendAlive(pane)
        /\ backend' = [backend EXCEPT ![pane].up = "dead"]
        /\ port' = IF port = pane THEN 0 ELSE port
     \/ UNCHANGED <<backend, port>>
  /\ Proceeds("own")
  /\ UNCHANGED override

\* tmux refuses: nothing else is terminated or cleared.
KillFails ==
  /\ call.pc = "kill" /\ pane # 0
  /\ Finishes
  /\ UNCHANGED <<backend, port, pane, runtime, override>>

\* A switch goes on without terminating the recorded backend.
KillsOwned_Skipped ==
  /\ call.pc = "own"
  /\ UNCHANGED <<backend, port, pane, runtime>>
  /\ IF call.op = "switch" THEN Proceeds("probe") ELSE Finishes
  /\ UNCHANGED override

KillsOwned ==
  /\ call.pc = "own"
  /\ IF call.rec # 0 THEN TerminatesOwned(call.rec)
                     ELSE UNCHANGED <<backend, port, pane, runtime>>
  /\ IF call.op = "switch" THEN Proceeds("probe") ELSE Finishes
  /\ UNCHANGED override

----------------------------------------------------------------------------
(* What happens outside.                                                    *)

Serves(b) ==
  /\ BackendAlive(b) /\ port = 0
  /\ port' = b
  /\ UNCHANGED <<backend, pane, runtime, override, call>>

Hangs ==
  /\ port # 0
  /\ port' = 0
  /\ UNCHANGED <<backend, pane, runtime, override, call>>

StrangerServes ==
  /\ Strangers /\ port = 0
  /\ port' = Stranger
  /\ UNCHANGED <<backend, pane, runtime, override, call>>

BackendDies(b) ==
  /\ BackendAlive(b) /\ ProcessEnds(b)
  /\ UNCHANGED <<runtime, override, call>>

TerminalCloses ==
  /\ pane # 0
  /\ SessionEnds
  /\ UNCHANGED <<backend, port, override, call>>

CallerDies ==
  /\ call.pc # "idle"
  /\ LostRecords \/ call.pc # "record"
  /\ Finishes
  /\ override' = NoModel
  /\ UNCHANGED <<backend, port, pane, runtime>>

----------------------------------------------------------------------------

ProviderNext ==
  \/ Starts \/ Terminates \/ Switches
  \/ Probes \/ Attaches \/ Replaces \/ Refuses \/ LaunchesFresh
  \/ Connects \/ CreatesAttached \/ Creates \/ CreateFails \/ RecordsBackend
  \/ KillsSession \/ KillFails \/ KillsOwned
  \/ \E b \in Backends : Serves(b) \/ BackendDies(b)
  \/ Hangs \/ StrangerServes \/ TerminalCloses \/ CallerDies

ProviderSpec == ProviderInit /\ [][ProviderNext]_providerVars

----------------------------------------------------------------------------

\* A project has one backend, so that two never work on the same files: a
\* start attaches, or ends the recorded one before it launches another, after
\* hangs, lost terminals and refused kills (providers.py:178-240).
OneBackend == Cardinality({b \in Backends : BackendAlive(b)}) <= 1

\* When a model switch returns, whoever answers was launched with that model.
SwitchedModelRuns ==
  [][(Connects \/ CreatesAttached \/ RecordsBackend) /\ call.op = "switch"
       => \A b \in Backends : BackendAlive(b) => backend[b].model = override]_providerVars
=============================================================================
