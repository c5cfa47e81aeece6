# Ariadex in TLA+

Ariadex keeps an AI provider working through a queue of OpenSpec changes: it
sends a prompt, waits, verifies, records the outcome in a handoff file, and
goes on, while an operator may pause, take over, edit the queue, stop the
daemon or kill it. This directory holds a TLA+ model of that supervision, of
the processes and windows around it, the TLC configurations that check it, and
TLAPS proofs about it.

All source paths are relative to `src/src/ariadex/` unless said otherwise.

## 1. The system

### Components, state, operations

| Component | Source | State | Operations |
|---|---|---|---|
| Scheduling lease | `concurrency.py` | `runner.lock` (pid, heartbeat), `cycle.json` (phase) | `acquire`, `heartbeat`, `release`, `write_cycle`, `clear_cycle`, `recover_project` |
| Runner | `runner.py` | the handoff in memory, `self.cycles` | `run`, `run_once`, `_cycle`, `_execute`, `_retry_or_persist`, `_complete`, `_save`, both cancellations |
| Operator control | `control.py`, `resync.py`, `state.py`, `operator.py`, `cli.py` | `state.json` (mode), `cancel.json` | `pause`, `takeover`, `resume`, `auto`, `resolve`, `defer`, `reopen`, resynchronization |
| Handoff | `handoff.py` | items, completed work, current and next spec | `add_item`, `set_item_status`, parse, render |
| Daemon | `daemon.py` | `daemon.json`, `daemon.sock`, stop event | start, stop, scheduler poll, IPC handlers |
| Managed runtime | `managed_runtime.py`, `widget_runtime.py` | `managed-generation.json`, `widget.json`, threads | start, stop, `ensure_widget`, `terminate_owned` |
| Robot watcher | `robot.py` | per-session phase, stability counters, memories of what was asked | `poll`, boundary, continuation, confirmation, approval, manual actions |
| Permissions | `permissions.py` | none | decision on one permission dialog |
| Evidence | `openspec_evidence.py` | `conversation.json` | record, read, archive proof |
| Spec graph | `spec_graph.py` | none | cycles, eligibility, target validation |
| Adapters | `adapters.py`, `providers.py`, `provider_runtime.py` | `provider.json` (backend identity), model override | start, attach, replace, switch, terminate |
| Terminals | `terminal.py`, `pty_relay.py` | relay process, socket, record file | create, send, capture, terminate |
| Hub | `hub.py`, `companion.py` | `hub.sock`, registered projects, tabs | listen, register, unregister, pause, quit |
| Companion | `companion.py` | what is shown, the request in flight, `companion.json` | presses, polls, global keys |
| Notifications | `observability.py` | `events.jsonl`, `notify.json` | `announce`, `notify_event` |
| Deployment | `deploy.py` | launchers, unit, autostart file, ownership manifest | install, uninstall |

### How they interact

* Runner, commands and recovery share **files** and no lock: the mode
  (`state.json`), the handoff, the phase record and the cancellation signal.
  Most writers read a file, compute and replace it.
* The lease keeps a *second scheduler* away. It does not keep operator
  commands or `recover` away from the scheduler.
* The daemon owns an IPC socket. Its handler threads write the same files as
  the commands; in a managed project the watcher thread replaces the runner and
  reads the mode at every poll. Starts, stops and widgets find the daemon by its
  record and its socket, and act on what they read a moment ago.
* The watcher sees the provider only through a captured screen, and acts on it
  only through sends; the adapter may lose the transport at any call. Below it,
  a relay or tmux session is found by a record, a path and process identities.
* A window sends one request at a time and polls beside it; the hub is a server
  for `ariadex start` and a window at once; all windows share one settings file.

### What is hard

Interleavings between a command's read and write and the runner's; a crash
between a provider input and the record of it; a stale lease, socket or record
taken over while its recovery is under way; a pause racing a send; a screen that
looks finished and is not; confirmations, approvals and notifications that must
not be sent twice; answers that arrive late or in another order; retries and
counters at their limits. The list, line by line, with the properties that would
catch each one, is `hazards` in `PROJECT.json`.

## 2. Modules

| Module | Models | Kind |
|---|---|---|
| `ExclusiveLease` | what the lease promises | abstract specification |
| `Lease` | `concurrency.py`: one step per file operation, any number of schedulers and recoverers, crashes between any two steps | detailed specification |
| `Runner` | `runner.py` with the commands that run beside it | detailed specification |
| `Watcher` | `robot.py`: the poll loop with the operator, the provider, failures and restarts around it | detailed specification |
| `Approval` | `_handle_approval` of `robot.py`, with its counters | specification of any policy |
| `Permissions` | `permissions.py`: parse and evaluate, as operators | definitions |
| `PermissionDialog` | a poll at a dialog: settings, screen, policy and the steps of `Approval` | steps of `Approval` |
| `Daemon` | `daemon.py`, `managed_runtime.py`, `widget_runtime.py`, and start, stop and widget of `cli.py` | detailed specification |
| `Relay` | `pty_relay.py` and the `PtyDriver` of `terminal.py` | detailed specification |
| `Provider` | the OpenCode adapter of `providers.py` over `provider_runtime.py` | detailed specification |
| `SpecGraph` | `spec_graph.py`, with the runner's choice of a change and its reasons to stop | detailed specification |
| `Alerts` | `announce` and `notify_event` of `observability.py` | detailed specification |
| `Deploy` | `deploy.py` | detailed specification |
| `Hub` | `hub.py` with the hub window of `companion.py` | detailed specification |
| `Companion` | the project's window of `companion.py` and its daemon | detailed specification |
| `Keymap` | the settings and grabs of global keys in `companion.py` | detailed specification |
| `MCLease`, `MCRunner`, `MCWatcher` | instances of one module | model checking |
| `MCHost` | `Lease`, `Daemon`, `Relay`, `Provider`, `Deploy`, `SpecGraph`, `Alerts` | model checking |
| `MCPermissionDialog`, `MCDesktop` | an instance of `PermissionDialog`; that with `Companion`, `Hub`, `Keymap` | model checking |
| `LeaseProofs` | theorems about `Lease` | proofs |
| `RunnerProofs` | theorems about `Runner` | proofs |
| `WatcherProofs` | theorems about `Watcher` | proofs |
| `ApprovalProofs` | theorems about `Approval`, and about `PermissionDialog` over them | proofs |
| `DaemonProofs` | theorems about `Daemon` | proofs |
| `HostProofs` | theorems about `Provider`, `Relay`, `Deploy` and `Alerts` | proofs |
| `GraphProofs` | theorems about `SpecGraph` | proofs |
| `DesktopProofs` | theorems about `Companion`, `Hub` and `Keymap` | proofs |

The proof modules name no new step of a component. Definitions that only an
argument needs (parts of an inductive invariant, sets of program places) are in
them, next to the lemmas that use them.

`MCHost` and `MCDesktop` hold machines that share no variable. A variable `part`,
chosen at the start, says which of them runs: their state spaces add up instead
of multiplying, and each is checked in full within its bounds. Where two
components do share state they are in one module, or one refines the other.

Definitions named `X_Something` are variants of `X` that a plausible bug would
produce. No specification uses them; replacing `X` by one of them must break
the property that `mutants` in `PROJECT.json` pairs it with.

### Lease

`lock` is the lock file: who created it and which pid is in it. Creation
(`O_CREAT|O_EXCL`) and the write of the pid are two system calls, hence two
steps; in between, `read_lock` sees a file without an owner, the same as no
file. `pc[s]` is where scheduler `s` is. A refresh or a release is a read and a
write of the file. `rpc[r]`, `rowner[r]` and `rphase[r]` are the program counter
and the local variables of one `recover_project`. The phase record is `cycle`;
`blocked` is the set of uncertain-delivery BLOCKED items recovery writes.

`delivery` and `overlapped` are history variables. `delivery` is `unrecorded`
once the provider has an input nobody recorded, `recorded` once `sent` is on
disk, `none` once an outcome or a BLOCKED item took note of it. `overlapped`
becomes true when an operator starts a scheduler or a recovery, or resolves
BLOCKED items, while a recovery, respectively any scheduler, is under way.

### Runner

`pc` is the next step of the one scheduler that holds the lease, `h` the copy of
the handoff it loaded at the start of the cycle, `act` what it decided, `ret`
what it does after the save that is under way. Every save is three steps, as in
`_save`: write the handoff, read `state.json`, write it back. The operator is a
second process with its own program counter `opc` and its own copies (`om`,
`oh`); `pause`, `takeover`, `resume`, `auto` and the item edits are its steps, in
the order the code takes them (the cancellation before the mode, the resync
before the mode, the clearing of the cancellation last).

Data that no property tells apart is abstract: a spec is a model value, an item
is what it is about, its status and its attempts, and the provider's answers
are choices. `Deps`, `OnCycle` and `Malformed` stand for what the dependency
graph found; every result of `select_next_action` is derived from them.

Nothing keeps commands and the runner apart: a command may take any of its steps
between any two of the runner's, its read and its write of `state.json` included, and
the cancellation may be consumed before the mode is written. What holds all the same
is `OneSendPerPause`; what the texts promise beyond that and such interleavings break
(`AcknowledgedModeIsDurable`, `NoSendAfterPause`, `NothingDisappears`) is in section 5.
`late` is a history variable: the inputs that left while the mode on disk was not AUTO.

### Watcher

`pc` is the next step of the one watcher thread: the gates of `run` and `poll`, the
observation, the boundary, the gate before a prompt, the two writes of
`record_conversation`, a question and the wait for its answer, the fresh
conversation and the wait for its surface, the send. Every look at what others
write (mode, stop, files) and every input is a step; a boundary is one step,
because it reads one list of changes and then evidence about one of them.
`plan` holds the local variables between the decision and the send.

The provider is `ProviderWorks` (tasks, archive, or the loss of a change) and the choice
among the observations. The operator is `SetMode`, `RequestStop` and the manual sends,
which run on another thread and share the debounce count with the loop. A command that
resynchronizes (resume and auto) or edits an item reads the handoff (`ReadHandoff`),
writes its `copy` back (`WriteHandoff`), old `current_spec` included, and only then may
change the mode; the watcher runs between these steps, so that the two files
`record_conversation` writes may come to disagree. What survives is about
`conversation.json` (`PromptIsRecorded`); that the handoff names the change of a prompt
as well (`HandoffNamesPrompt`) does not hold (section 5). `TransportLost` and `Dies` may
happen at every call of the adapter and at every step. `Start` is a new daemon over the
same files.

`still` and `late` are history variables: equal finished captures in a row since
the last input, and automatic inputs since the mode was set to PAUSE or MANUAL.
A new conversation counts as an input.

Left out: phases that are only shown, block reasons, diagnostics, the count of
exhausted waits and the models tried (they choose between shown phases), the
`--finished-change` override, the poll budget, and the watcher that `cli.py`
runs without a daemon, whose pause is a callback.

`AdvanceNeedsProof` exempts a watcher's first prompt, because the code does: on a
restart `select_first_target` drops a recorded change that is not in the queue,
and does not ask for the archive proof that the boundary asks for.

### Approval, Permissions, PermissionDialog

One step of `Approval` is one poll, or one question of a poll; what the permission
policy says of the screen is a choice: allowed with a safe answer, unreadable,
or the human's. `key`, `sends`, `quiet`, `asks`, `askQuiet`, `rearm`, `escalated`
are the fields of the watcher; the last three of the variables are histories,
counted on the session's side. "At most three sends per distinct request" is
meant for a request that stays the last one answered: two requests that alternate
on the screen reset each other's count, in the code as in the model.

`Permissions` translates `parse_permission_request` and `evaluate`: a line is a
record of what the parser tells apart (an approval phrase, a privileged word,
operations, path tokens, directory access), a path is a value with the properties
that containment asks for (`Resolved`, `Anchored`, `WithParent`, ...).
`PermissionDialog` composes both: the settings may be edited between any two
polls, the screen is any of `Screens`, and the decision chooses which steps of
`Approval` a poll takes, so that the bounds proved of `Approval` are those of the whole.
The history `steady` says whether scrollback above the last dialog could have
changed what was decided about it. `Lines` are the lines a terminal can show;
the prose above a dialog is any of `Screens` whose lines neither ask for approval nor
name directory access: one or two lines in the run, and any number in the proof,
where `Screens` may be every sequence of lines. The lines of a dialog and what they
name are sets: nothing that the parser decides depends on their order, but for the
first line that names directory access and the canonical order of operations.

### Daemon

Every client is one command process, every pid one daemon process. `dpc[p]` walks
`run_daemon` from the lease to its release: record, old socket, widget, watcher and
generation, socket, loop, teardown, close, final record. `cpc[c]` walks `start`,
`widget` and `stop`; `asked` and `hpc` are the daemon's thread that serves a stop.
Each step is one access to a shared file; the lease is one step here, since what
lies inside is `Lease`'s. A daemon may die at every step, a part of its start may
fail, an answer may be lost, a wait may time out. `parent` marks widget processes
that a daemon spawned: such a process runs the same start code as a command and
would revive a daemon that was stopped (`WidgetRevivesNothing`).

### Relay and Provider

`Relay` has one session: relays in the order they were spawned, the socket path
(which belongs to whoever bound it last), the record, and the driver's calls as
chains of steps. A signal before the handlers are installed kills the relay, and
the terminal takes the provider along; later it ends `serve`. `SerialUse` is the
assumption that one process at a time uses the session, which the lease gives for
scheduling and nothing gives for commands; two creations at once can leave two
providers, which is why it is TRUE in the run.

`Provider` has the backends in the order of their launch, the endpoint's port, the tmux
pane and the runtime record; a call reads record, process table and endpoint, then
attaches, replaces, refuses or launches. A call that finds no process of a backend
records the process of the pane, the attach client too. `Strangers` lets another program
take the port. `LostRecords` lets the caller die between launch and record; the run has
it FALSE, since such a backend is in no record and a second one is launched.

### SpecGraph

`find_cycles` is the state machine, one action per step of its depth-first search,
from every graph over `Changes` (malformed metadata and predecessors that are not
active among them); then the runner completes eligible changes until it stops.
`BlockersAreNamed` says that what was reported explains every change that is left,
although the search skips nodes it has seen: what a set of changes needs to be
closed under is quantified over instead of a transitive closure, so that one
definition serves TLC and the proof.

### Alerts

An announcement is four steps: record and load, decide, deliver, write back. Time
is the number of decisions. `excused` notes what the code lets exceed the rate: a
process that dies after a delivery, an unreadable or unwritable file, evicted keys,
and two announcers at once, whose counts overwrite each other.

### Deploy

One action per file of install and uninstall, for each kind of platform; any of
them may be refused, fail or be the last before an interruption. `untracked` is a
history: what an interrupted install wrote and did not record, and what an uninstall
left behind.

### Companion, Hub, Keymap

`Companion` is a window, its request and its poll in flight, and a daemon whose
answers may be late, lost or refused; `late` is a request the window gave up on that
the daemon may still carry out. `Hub` has the process (bind, reclaim, rebind), the
server's registry and the window's lists, which live on one thread but are updated
by different paths. `Keymap` has the settings file that every window reads and
rewrites as a whole, the keys each window shows and the grabs of the X server, which
grants some of those asked for. Windows are of three kinds: a widget has one key, the
hub of a foreground watch asks for a key for each action, and the hub process that all
projects share has one adapter and asks for the hotkey it was opened with, whatever its
keymap says since (`Asked`). A save is the check, a second read of the map, a last read
of the file and its write, and saves of any windows overlap. `Legacy` is what an older
version may have stored as its one key.

`SerialHubs` is TRUE in the run: a hub that finds a live hub's address takes it for
stale, in the code as in the model.

## 3. Runs

| Run | Instance | Question |
|---|---|---|
| `runner_sequential` | two dependent specs, two runs, a pause, crash, recovery | verified and ordered completion, inputs recorded first, bounded attempts, at most one input while a pause is on disk, termination |
| `runner_gates` | the daemon without verification commands, missing predecessor, spec directory that comes and goes, two of all commands at any moment, a crash | an uncertain delivery keeps its phase record |
| `watcher` | two changes with OpenSpec evidence, debounce and attempts 2, every command | one input after a pause; prompts are recorded; the boundary sees a still screen; no advance without proof |
| `watcher_ends` | one change, with and without OpenSpec evidence, debounce 1 | stop, pause and resume are followed |
| `host` | 3 schedulers and a recovery; 2 commands, 2 daemons, a crash; 3 relays; 3 backends; 2 announcers; every platform; every graph of 4 changes | see below |
| `desktop` | a window with 2 presses and one event; 2 hubs, 3 projects; a widget and both kinds of hub, 3 keys, 2 saves; 10 paths, 342 screens | see below |
| `lease_race` | 3 schedulers, 2 recoverers | *violated*: recovery never unlinks a live owner's lock |
| `runner_doubt_erased` | two runs, pause, resume, crash | *violated*: an uncertain delivery always leaves a record |
| `runner_resume_stuck` | the daemon, pause, resume | *violated*: resume continues provider work |
| `runner_edit_lost` | one edit beside a run | *violated*: an operator's edit stays |
| `watcher_takeover` | one change | *violated*: MANUAL sends nothing |
| `host_uninstall` | deployment alone | *violated*: what could not be removed stays owned |

`host` asks, part by part:

* lease: the file protocol implements `ExclusiveLease`, no recorded delivery is
  repeated unnoticed, a recovery that began frees the lease;
* daemon: one daemon past `acquire`, control answers come from the owner, a start
  that reports success saw the owner, a widget revives nothing, generations end,
  a stop ends the daemon;
* relay: one provider per session, input reaches the recorded relay;
* provider: one backend, and after a switch the one with the chosen model;
* deploy: every file Ariadex wrote is in the manifest, but for interrupted installs;
* graph: blockers name every reason; alerts: the rate is the configured one.

`desktop` asks: the window ends up showing a daemon that is left alone and closes only
over one that stopped; the hub's server and tabs agree; a window holds no key but those
of its last request; approvals and questions are
bounded, approvals permitted by the settings of their poll, and independent of the
scrollback above the dialog that is last on the screen.

### Bounds and why they are enough

* Lease: a process acts once (pids are not reused). Three schedulers are a dead
  owner, its successor and a competitor; the exclusion argument is about pairs,
  and the theorems hold for any number.
* Runner: two specs with one dependency reach every branch of the selection;
  `RetryLimit = 1` gives a retry and an exhausted item; `MaxItems` bounds the
  items a run may create (a guard, `Room`, except at the missing directory,
  where the item is left out instead so that the loop stays); `MaxRuns`,
  `MaxCommands` and `MaxCrashes` bound how often the environment acts, and
  `MaxCycles` is the program's own `max_cycles`.
* Watcher: the operator, failures and restarts are not bounded at all. Two changes
  are the one left and the one entered; `Debounce = 2` distinguishes a first
  still capture from the last, `Attempts = 2` a wait that goes on from its end. Neither
  the second change nor the second capture decides whether a wait looks at the mode and
  the stop, which is why `watcher_ends` does without.
* Daemon: two commands (a widget process counts as one) and two daemons are a stop
  or start against a start, and a daemon against its successor; one crash makes the
  stale record. `OneDaemon` is proved for any number.
* Relay and provider: three relays or backends are an old one, its replacement and
  the next call's; calls are not bounded.
* SpecGraph: four changes hold two cycles that share a change, a cycle behind a
  cycle, and a chain behind a missing change; the search order is fixed by name.
* Alerts: `Limit = 2`, `Window = 2`, `MaxTime = 4` let stamps leave the window;
  `MaxKeys = 1` with two kinds evicts. Two announcers are a pair that overlaps.
* Dialog: one path for each property the policy asks for; screens of one and two
  lines are a dialog alone and one with a line above it; settings include each policy.
* Desktop: two presses are a request and the next; one event is what others do in
  between. Three projects make "every second tab" differ from "all".
* Keys: two saves are one that reads what the other is about to replace; three keys are
  the two defaults and one more. `NoStaleGrabs` is proved for any number.
* CHECK_DEADLOCK is FALSE where every process may end or every budget of the
  environment may be used up.

### Fairness

* `host`: `WF` of a recovery's steps (`GoesOn`): it is one sequential call that may
  stop with an error, which is a step of its own; and of `Shutdown(p)`: a daemon
  that saw its stop, or is ending, goes on. Its waits are bounded (joins and
  requests with timeouts). Schedulers, commands, start-up and deaths are not fair.
* `Runner!FairSpec`: the runner and a begun command keep executing. Their waits
  on provider and verifier end by timeouts (`adapters.py`, `verify.py`), which
  the model has as failing answers. No crash, command or operator choice is fair.
* `Watcher!FairSpec`: the thread takes its steps. Its sleeps are bounded by the
  configuration, its commands (`openspec`, `tmux`) have timeouts, which the model
  has as lost transport or unreadable evidence. The provider, the operator,
  failures and restarts are not fair.
* `desktop`: the Tk timers run (`PollBegins`, `PollFinishes`, `Finish`), and a request
  is answered or given up after its timeout (`Answer`, `PollAnswer`). The operator
  and everything that happens to the daemon are not fair.

## 4. Proofs

Each theorem holds for every value of the constants that the `ASSUME`s of the
module allow, and under the hypotheses it names; TLC evaluates those assumptions in
the runs.

### Lease

* `LeaseInvariant`: `LeaseInv` holds always. Mutual exclusion itself is not
  inductive: it needs that an owner is named by the file (`OwnerIsRecorded`),
  that the path still names a file whose creator is between `open` and `write`
  (`OpenedFileIsLinked`), that a process about to unlink on release still owns
  the file (`ReleaseOwnsFile`), and that what a recovery validated as stale
  stays in place and stale until its unlink (`ValidatedOwnerStaysStale`). The
  last one is the point of the argument: it is what two overlapping recoveries
  break.
* `MutualExclusion`, `LiveLockIsOwners`: corollaries, the second an action
  property.
* `LeaseRefinesExclusiveLease`: every step of the file protocol is a claim, a
  drop or a stutter of `ExclusiveLease`.
* `DeliveryInvariant`, `NoBlindResendHolds`: no recorded delivery is repeated
  before a BLOCKED item took note of it.

All of them assume `RecoveriesDoNotOverlap` (at most one recoverer): run
`lease_race` shows that it cannot be dropped. The delivery theorems
additionally speak only of behaviours in which no recovery overlapped a start or
an edit; `concurrency.py:575` shows why (below).

### Runner

Five theorems hold however commands and saves interleave, for every queue, dependency
graph, policy and limit:

* `SendRecordedFirst` (`SendIsRecordedFirst`): between `prepare` and `send` the phase
  record is before-send for the action under way; nobody else writes it then.
* `CompletedVerified` (`CompletedWasVerified`) and `PredecessorsComplete`
  (`PredecessorsFirst`) share one invariant, `CompletionInv`. Both must hold of every
  copy of the handoff that some process is about to write, not only of the file,
  since the copies overwrite one another: the runner's `h`, the command's `oh`. The
  rest ties an advance-spec cycle to the spec it completes: its target is the
  current spec of its copy, chosen when its predecessors were complete, and
  `complete` is reached only through `verify`. That all else changes only items
  is `Keeps`, proved once for each operator on handoffs.
* `TypeCorrect` (`TypeOK`), from the shape of every copy of the handoff
  (`HandoffShape`, proved for each operator on handoffs) and `CompletionInv`.
* `OneSend` (`OneSendPerPause`): from the mode guard to the send (`Cleared`) a cycle has
  found AUTO, so that nothing left since the mode was last AUTO (`LateInv`). The one
  input is that of a cycle that passed the guard before; the next guard stops, unless the
  mode has been AUTO again, by a save that brought it back or by the operator.

Three more hold under a hypothesis that says where the code keeps them:

* `DoubtRecorded` (`DoubtIsRecorded`) assumes `Uncancelled`: a daemon, or a run without
  pause and takeover. Run `runner_doubt_erased` shows what else happens. `DoubtKept`
  says that a cycle starts without doubt, and that a phase record is cleared only
  when the save before it settled the doubt. `NoneIsNoRecord` keeps an absent
  `cycle.json` apart from any record.
* `HandoffGrows` (`NothingDisappears`) assumes `Unedited`: no command writes the
  handoff. Run `runner_edit_lost` and the resync of section 5 show what else happens.
  `GrowthInv` says that what a cycle will save has grown from what it loaded, which
  nobody has changed since.

### Watcher, Approval, PermissionDialog

`WatcherProofs` proves, for every queue, debounce and length of the waits:

* `PauseStopsInput` (`OneInputAfterPause`): while the mode is PAUSE and one input has
  left, the watcher is in `AfterInput`, the places from which every path to an
  input first looks at the mode. That set is the argument: each wait and the top
  of the poll must be in it, each step of it under PAUSE must stay.
* `PromptsAreRecorded` (`PromptIsRecorded`): from its first write on conversation.json
  names the change of the plan, through questions and waits, whatever a resync writes to
  the handoff (`RecordInv`).
* `BoundaryIsQuiet` (`QuietBeforeBoundary`): the debounce count never exceeds the
  still captures, where it is still used; everywhere else it is reset, or the
  thread ends, before it is used.
* `AdvanceIsProved` (`AdvanceNeedsProof`): between decision and record a plan is for the
  recorded change, or that change is archived, and archived it stays. It rests on
  what `Boundary` returns (`BoundaryNames`).
* `WatcherTypeCorrect` (`TypeOK`), with the existence of a first active change in any
  queue.

`ApprovalProofs` proves type correctness and the three properties of `Approval` for
every limit: the code's counters equal the histories (`CountersAreHistory`), and a
round of asking sends at most two questions (`QuestionsOfRounds`). Each step of
`PermissionDialog` is one of these or leaves them alone (`PollIsApproval`), so that these
bounds hold with the real policy, for all screens and settings. The theorem about the
policy itself is that every typed answer is permitted by the settings of its poll
(`AnswersArePermitted`), a repetition too, from the outcome kept since the decision and
from what `Evaluate` can return (`AllowedDecision`). `SettingsAssumption` is what
`config.py:417` validates. The last one, `ScrollbackIgnored`
(`ScrollbackIsContext`), is about the parse alone: with prose above it, the
approval lines of a screen are the same (`SameScope`), and so is the first line that
names directory access (`SameAccess`), so that every decision is the same for any
number of lines above.

### Daemon

For any number of commands, daemons and crashes. `OwnerInv` says that the lock names
the daemon that is between `acquire` and release (`LeaseHeld`), that a socket is served
only in the loop and the teardown (`ServingInside`), that nobody tells a daemon to stop
before its socket is bound (`EarlyUntold`), and that a running record and a running
generation are of the owner, or of a daemon that crashed (`RecordOwned`,
`GenerationOwned`). From it follow `OneDaemonOwns`, `OnlyTheOwnerAnswers`,
`GenerationsEnd` and `ReadyIsOwned`. The last theorem, `StoppedWidgetsStay`
(`WidgetRevivesNothing`), adds `ChildInv`: a widget process that has not ended has a
daemon that will end it, that crashed, or that failed before anyone could tell it to
stop.

`DaemonRefinesExclusiveLease` joins the two components that meet at the lease.
`Daemon` takes the lease in one step, `Lease` in several; both implement the same
`ExclusiveLease`, the first with the daemons that are past `acquire` as its holders,
the second with the schedulers that hold the lock file. What `OwnerInv` uses of the
lease is what `LeaseProofs` proves of the file protocol, under the assumption named
there.

### Relay and Provider

Each theorem carries the assumption that its run makes of callers.

* `ProviderIsOne` (`NoDuplicateProvider`) and `InputIsForRecorded`
  (`InputReachesRecordedRelay`), under `SerialUse`: a relay that neither ended nor was
  told to is the one the record names, unless a call between spawn and record holds
  it (`WorksForOne`); one call runs at a time and what it read is the record, or the
  record is gone (`OneCall`); a provider lives inside its relay (`ChildInside`). Who
  answers at the path is such a relay, whichever sockets were unlinked since.
* `BackendIsOne` (`OneBackend`) and `SwitchIsDone` (`SwitchedModelRuns`), unless
  `LostRecords`: what runs is what the record, or the launch under way, names, and a
  switch reaches its connection only with a backend of the new model. Ending what the
  record names ends all there is (`OwnedEnds`), which is what a replacement relies on.

### Deploy and Alerts

* `NothingIsLost` (`OwnedIsRecorded`): a created file is in the manifest, in the list
  of the call under way, cut short or left behind (`Claimed`); the unit file is
  written one step before it is listed, and an uninstall is done with a file when it
  is gone or will be reported (`Handled`).
* `NothingWithheld` (`WithheldWasTold`): every stamp a process or the file counts was
  told (`CountedWasTold`), whatever crashes or overlaps.
* `AlertsRationed` (`AlertsAreRationed`): until something that the code lets cost the
  limit happens (`excused`), one process at a time announces and what it read is
  what the file holds (`Undisturbed`), and what was told in the window is in the
  file or about to be written there (`ToldIsCounted`). The count is of finite sets of
  past decisions, which is why the proof uses `FiniteSetTheorems`.

### SpecGraph

For every finite set of changes, every graph over it and every record of completed
ones.

* `LeftOverNamed` (`BlockersAreNamed`). The argument does not follow paths. Call a set
  of changes circular when each member depends on a member (`Circular`). The
  invariant says that a circular set of which the search has left a change holds a
  change of a reported cycle (`LeftIsReported`). Only `Backtracks` can break it: the
  change that is left has looked at a dependency inside the set, which was left
  earlier, or lies next on the stack, which it cannot since it is the top, or the
  change itself stands in a reported cycle (`LookedAtIsSettled`). When nothing is
  eligible, the changes that no blocker explains form such a set, all of them left
  by the search and none on a cycle; hence there are none. That the reported cycles
  are real needs the stack to be a path without repetition (`StackIsPath`), and that a
  rotation keeps followers (`RotatedKeeps`).
* `NobodyWaitsForNobody`: the last branch of `select_next_action`
  (`runner.py:201-208`) is never reached; it is the same argument with nothing to
  explain.
* `SearchUsesUp`: each step makes one of the finite sets of `UsesUp` smaller, in
  lexicographic order; with fairness of the one thread, search and scheduling end.

The least of a set of numbers exists by `WFMin`; nothing here is an induction over
data.

### Companion, Hub, Keymap

For any number of presses, messages, polls and events, of hubs and projects, of
windows, keys and saves.

* `WindowClosesLast` (`WindowOutlivesDaemon`) rests on what an answer proves about a
  daemon that may have been replaced since: a granted close took the generation it
  reached out of service, for good (`CloseWasGranted`); a granted send is among what was
  delivered (`SendWasGranted`); and nothing is granted before it is answered
  (`AnswerComesLater`).
* `RegistryIsKept` (`RegistryIsShown`): registry, tabs, models and the active tab of a
  process change by different paths, and agree after each (`ViewsAgree`), which
  includes the loop of `_on_quit_all` that passes every second tab (`SecondsFit`) and
  the clamp of the active tab after a removal. It needs no hypothesis on hubs:
  two hubs that take over each other's socket still agree with themselves.
* `GrabsAreCurrent` (`NoStaleGrabs`): no hypothesis either. What a request asks for is
  granted in part (`GrantedKeys`) and after the release of everything the window held
  (`ReboundAreAsked`), so that overlapping saves, a server that refuses and a write that
  fails leave no key of an earlier request.

### What is only model-checked

All liveness (`RunEnds`, `StopEnds`, `ModeIsFollowed`, `WindowCatchesUp`,
`RecoveryFreesStaleLease`): fairness and ENABLED are outside the prover. Every
invariant and every action property of a passing run is stated by a theorem.

Some invariants are proved and not run, because the run has a deeper property that
implies or uses them: `LeaseInv`, `OneOwner`, `LiveLockChangesByOwner`, `DeliveryInv`,
`RetriesAreSpaced`, `WithheldWasTold` and the type invariants. `NothingDisappears` of
`Runner` is proved (`HandoffGrows`) and not run: its hypothesis leaves the runner as the
only writer of the handoff, and without it TLC refutes it.

## 5. Where code and text disagree

Each is a `violation` run, listed under `findings`:

1. `lease_race`: `recover_project` checks the owner at its start and unlinks
   whatever lock is there at its end. Two overlapping recoveries can remove a
   live owner's lock although the docstring says it is refused.
2. `runner_doubt_erased`: a cancellation found between two cycles clears the
   phase record that an earlier, uncertain attempt left for `recover`.
3. `runner_resume_stuck`: after a pause in mid-delivery, resume leaves the
   daemon in AUTO before a phase record which it will not pass and which
   `recover` refuses to touch while the daemon lives.
4. `runner_edit_lost`: a cycle saves the handoff it loaded before the provider
   worked, and so undoes an edit made meanwhile.
5. `watcher_takeover`: the watcher follows PAUSE and nothing else; after a takeover
   beside a managed daemon it goes on asking, approving and prompting, although
   MANUAL is documented to send no input.
6. `host_uninstall`: after an uninstall that could not remove a file the manifest
   names nothing, because paths are compared with messages (`deploy.py:872`).

Stated in the modules as the texts state them, and refuted by TLC when the named run is
given the property in place of its own and the named values:

* `AcknowledgedModeIsDurable` (`runner_gates`): a save that read `state.json` before a pause
  writes it back after the pause was acknowledged (`runner.py:293`);
  `openspec/specs/human-control/spec.md:20` wants a transition persisted. The mode is AUTO
  again, and what is sent from then on is not late by `OneSendPerPause` either: that
  property is about the mode on disk.
* `NoSendAfterPause` (`runner_gates`): a cycle consumes the cancellation before the pause
  has written its mode (`daemon.py:663`), the next one passes the guard in AUTO, and its
  input leaves after the acknowledgement; `openspec/specs/takeover-cancellation/spec.md:8`
  forbids it. `OneSendPerPause` says that there is no second one.
* `NothingDisappears` (`runner_gates` with `Commands = {"resume"}`): resync writes back
  the handoff it read before asking git (`resync.py:57`); an item or a completion that a
  cycle saved meanwhile is gone. `handoff.py:8-10` says that items are never deleted.
* `AttemptsAreBounded` and `RunEnds` (`runner_sequential` with `StopOnBlocker = FALSE`, the
  second with `SpecDirMayMiss = TRUE`): an exhausted item is not actionable, so that its
  spec is selected again and its next failure counts on the same item (`runner.py:785`,
  against `openspec/specs/runner-verification/spec.md:16`); the result of a missing spec
  directory is not counted, so that `run` does not reach its limit (`runner.py:952`,
  against `openspec/specs/bounded-run-completion/spec.md:8`).
* `HandoffNamesPrompt` (`watcher`): a resync restores the old `current_spec` after
  `record_conversation` wrote the new one (`resync.py:104`), and the prompt leaves with two
  files that disagree, although it is recorded "before any provider input is sent"
  (`openspec_evidence.py:599`).
* `GrabsAreShown` (`desktop`): the hub process has one adapter, for the hotkey it was opened
  with; after a rebind it shows the new yield key and grabs the old one again
  (`companion.py:3762`, `companion.py:3951`, `hub.py:440`), against
  `openspec/specs/hub-controls/spec.md:31-32`.
* `KeysStayApart` (`desktop` with `Legacy = {Unset}`): two windows that save at once
  both pass the check before either writes (`companion.py:662`). With `Legacy = {"F1"}`
  and `MaxSaves = 1` one save is enough: the check takes it for the yield key
  (`companion.py:627`), and once a map is stored it is no longer read, so that yield
  falls back to a default which the map may have given away. The docstring says
  "Duplicates across actions are refused" (`companion.py:638`).
* `BoxKeepsUndelivered` (`desktop` with `Messages = {"m1", "m2"}`): a send that succeeds
  empties the box, text typed meanwhile included (`companion.py:2370`);
  `openspec/specs/companion/spec.md:209` says that Send delivers what is typed.

Met while modelling, without a property:

* A process that dies between creating and filling its lock file leaves a file
  without a pid: diagnosis calls the project free, recovery has nothing to do,
  and every acquire is refused (`concurrency.py:246`). `Lease` reaches the state.
* A crash between `adapter.send` and the write of `sent` (`runner.py:646`) leaves
  a before-send record, which recovery treats as safe to retry. `Lease` calls
  such a delivery `unrecorded`; no property claims anything of it.
* Recovery of an orphaned phase holds no lock and may clear the phase record of
  a scheduler that started meanwhile (`concurrency.py:575`); `overlapped` marks
  such behaviours.
* A recovery that cannot read the handoff stops, and reports the stale owner
  as recovered (`concurrency.py:508`).
* Outside an OpenSpec repository a finished change that stays in the handoff is
  itself recorded as the next conversation's change (`robot.py:1040`, `robot.py:2523`):
  the boundary then gates on the finished change again.
* BLOCKED ends the watcher's thread and the daemon goes on without it
  (`robot.py:3353`); a later resume changes the mode only.
* The poll loop does not take the lock of the manual actions (`robot.py:1163`): an
  operator's send and an automatic one may interleave, and one that leaves after the last
  capture does not keep the boundary from being evaluated. Of their effects the model
  has the reset of the debounce count.
* Resume clears the cancellation last and unconditionally (`daemon.py:702`), so that
  a newer pause's or stop's signal may be erased; the mode or the stopping record
  still stops the loop a poll later.
* A run that stops at an unlisted result is labelled "cycle limit reached" with
  budget left (`runner.py:954`).
* An `ariadex reopen` of an exhausted item (`cli.py`) keeps its count, so that it is
  attempted beyond its limit under stop-on-blocker too: TLC finds it against
  `AttemptsAreBounded`, which holds without edits (`RetriesAreBounded`).
* `ariadex stop` waits until the record is not alive, and a record marked `stopping`
  is not: it returns before the daemon has reconciled (`cli.py:2935`). A stop whose
  answer is an error stops the daemon all the same.
* Stop and start act on the record they read (`cli.py:2884`, `cli.py:2784`): a stop
  may write a new daemon's record back as stopped, a start unlink its socket. The
  properties of `Daemon` hold all the same: such a daemon stops or is unreachable,
  but never shares the project.
* Two processes that create one relay session at once spawn two providers
  (`SerialUse = FALSE`); a creator killed between spawn and record leaves one that
  no record names; a relay that ends late unlinks its successor's socket path.
* A stale runtime record with another program on the port launches over it instead
  of reporting the conflict (`providers.py:196`).
* A failed restart leaves the model override in place (`adapters.py:162`).
* `_on_quit_all` passes every second tab (`companion.py:4202`); a hub that ends unlinks
  the socket a newer hub may have bound; a live hub's address is taken for stale.
* A paused daemon that `takeover` moved to MANUAL cannot be resumed by the window,
  whose button is enabled; the window shows it unreachable until its next poll.
* The directory fallback looks for an access line in the whole tail, not only on
  the dialog's lines (`permissions.py:286`), and the approval lines of an older dialog that
  is still on screen are read with those of the present one (`permissions.py:162`).
* Two announcers at once, or a crash between delivery and write, exceed the rate of
  notifications (`observability.py:563`); `excused` marks such behaviours.
* An install that is interrupted between two saves of the manifest leaves unit or
  autostart file unrecorded; files of the same name are overwritten (`deploy.py:435`).

## 6. Not modelled, and why

* Parsing and rendering (handoff, TOML, spec metadata, pane text, key names): the
  models start from what the parse yields.
* Git, `openspec`, verification commands, package managers: their answers are choices.
* Status views, diagnostics, logging, the previews of `operator.py`: they read, or
  append to files no component reads.
* `live_evidence.py`, `preflight.py`, `prerequisites.py`: probes of the host without
  a protocol. `release.py`, `upgrade.py`, `dev_setup.py`, `tmux_setup.py`: scripts over
  the network and the package manager.
* Rendering and geometry of the windows; the wording of events and prompts.

## 7. Plan

Order of work; done parts are marked.

1. `Lease` with `ExclusiveLease` and `LeaseProofs` (done).
2. `Runner` with its commands and `RunnerProofs` (done).
3. `Watcher` with `WatcherProofs`, `Approval` with `ApprovalProofs` (done).
4. `Daemon` against its clients, with `DaemonProofs` (done).
5. `SpecGraph`, `Permissions` and their compositions, with their theorems in
   `ApprovalProofs` (done).
6. `Relay`, `Provider`, `Deploy`, `Alerts`, with `HostProofs` (done).
7. `Companion`, `Hub`, `Keymap`, with `DesktopProofs`; `GraphProofs` (done).
8. `Daemon` as an implementation of `ExclusiveLease` (done).
9. The bound on the attempts of an item under stop-on-blocker, as a theorem about
   `Runner` (done).
10. Left: a daemon that runs the `Watcher` in one module with `Daemon`, for the end of
    the watcher thread.
