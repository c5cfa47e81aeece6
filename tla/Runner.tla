------------------------------- MODULE Runner -------------------------------
(***************************************************************************)
(* The orchestration cycle of one scheduler (ariadex/runner.py) and the    *)
(* operator commands that run beside it (control.py, resync.py, the mode   *)
(* commands of cli.py and the IPC handlers of daemon.py).                  *)
(*                                                                         *)
(* They share four files: the mode in state.json, the handoff, the phase   *)
(* record cycle.json and the cancellation signal cancel.json.  A cycle     *)
(* loads the handoff once, works on its copy and saves it at the end;      *)
(* every save also reads and rewrites state.json.  Commands read and       *)
(* rewrite the same files.  Each read or write of a file another process   *)
(* may change is a step of its own.                                        *)
(*                                                                         *)
(* The lease that keeps a second scheduler away is module Lease; the order *)
(* of specs that are ready at the same time is module SpecGraph.           *)
(***************************************************************************)
EXTENDS Naturals, FiniteSets, Sequences

CONSTANTS
  Specs,         \* active spec changes
  Deps,          \* [Specs -> declared predecessors, active or not]
  OnCycle,       \* the specs find_cycles reports
  Malformed,     \* specs with malformed dependency metadata
  SpecDirMayMiss, \* the spec directory may be missing when a cycle looks
  Targets,       \* possible current_spec and next_spec of the first handoff
  None,
  StopOnBlocker, \* blocker_policy: stop-on-blocker, or record-and-continue
  RetryLimit,    \* retry_limit
  MaxCycles,     \* max_cycles of run()
  Verifies,      \* verification_commands are configured
  Resets,        \* context_strategy is per-spec or per-task
  Daemon,        \* the daemon polls run_once; otherwise `ariadex run` calls run()
  Commands,      \* the commands the operator uses
  MaxItems, MaxRuns, MaxCommands, MaxCrashes  \* bounds of the model

Names == Specs \cup UNION {Deps[s] : s \in Specs}

ASSUME SpecsAssumption ==
  /\ IsFiniteSet(Specs)
  /\ OnCycle \subseteq Specs /\ Malformed \subseteq Specs
  /\ Targets \subseteq Names \cup {None}
  /\ None \notin Names
ASSUME FlagsAssumption ==
  {SpecDirMayMiss, StopOnBlocker, Verifies, Resets, Daemon} \subseteq BOOLEAN
ASSUME BoundsAssumption ==
  {RetryLimit, MaxCycles, MaxItems, MaxRuns, MaxCommands, MaxCrashes} \subseteq Nat

AllCommands == {"pause", "takeover", "resume", "auto", "edit"}
ASSUME CommandsAssumption == Commands \subseteq AllCommands

Modes == {"AUTO", "MANUAL", "PAUSE"}
VIA_TARGETS == [pause |-> "PAUSE", takeover |-> "MANUAL", resume |-> "AUTO", auto |-> "AUTO"]

UncertainPhases == {"sent", "captured", "verifying", "completing"}

VARIABLES
  mode,      \* state.json: the durable mode
  handoff,   \* the handoff file
  cycle,     \* cycle.json: None or a phase
  cancel,    \* cancel.json is present
  pc,        \* the runner's next step
  h,         \* the handoff the runner holds in memory
  act,       \* the action of the cycle under way
  ret,       \* where the runner goes after a save
  saved,     \* the mode _save read from state.json
  ran,       \* len(self.cycles)
  opc,       \* the operator command's next step
  cmd,       \* the command under way
  om,        \* the mode it read
  oh,        \* the handoff it read
  acked,     \* history: the mode last acknowledged to the operator
  verified,  \* history: specs whose completion passed verification
  doubt,     \* history: a recorded delivery has neither outcome nor BLOCKED item
  used,      \* how many runs, commands and crashes there were
  late       \* history: sends since the mode on disk was last AUTO

files == <<mode, handoff, cycle, cancel>>
locals == <<h, act, ret, saved, ran>>
operator == <<opc, cmd, om, oh, acked>>
vars == <<files, pc, locals, operator, verified, doubt, used, late>>

-----------------------------------------------------------------------------
(* The handoff.  Items are never deleted; they are listed in the order     *)
(* they were added, and all that a runner adds have the same priority.     *)

Item(what, of) == [what |-> what, of |-> of, status |-> "OPEN", attempts |-> 0]

AddItem(hh, item) == [hh EXCEPT !.items = Append(@, item)]

SetStatus(hh, i, status) == [hh EXCEPT !.items[i].status = status]

ItemsOf(hh) == DOMAIN hh.items

Blocked(hh) == \E i \in ItemsOf(hh) : hh.items[i].status = "BLOCKED"

Room(hh) == Len(hh.items) < MaxItems

(* ensure_blocker_once: identical open or blocked work is not repeated.    *)
EnsureBlockerOnce(hh, of) ==
  IF \E i \in ItemsOf(hh) : /\ hh.items[i].what = "gate" /\ hh.items[i].of = of
                            /\ hh.items[i].status \in {"OPEN", "BLOCKED"}
  THEN hh
  ELSE AddItem(hh, Item("gate", of))

-----------------------------------------------------------------------------
(* select_next_action: what a cycle would do with this handoff.            *)

ActionOf(kind, target) == [kind |-> kind, target |-> target]

NoAction == ActionOf("none", None)

(* A local variable out of scope.                                          *)
NoHandoff == [current |-> None, next |-> None, completed |-> {}, items |-> << >>]

AttemptsLeft_OneMore(n) == n <= RetryLimit + 1

AttemptsLeft(n) == n <= RetryLimit

Actionable(hh) ==
  {i \in ItemsOf(hh) : hh.items[i].status = "OPEN" /\ AttemptsLeft(hh.items[i].attempts)}

ValidTarget_NoPredecessors(spec, completed) == spec \in Specs \ OnCycle

(* spec_graph.validate_target                                              *)
ValidTarget(spec, completed) ==
  spec \in Specs \ OnCycle /\ Deps[spec] \subseteq completed

(* spec_graph.eligible_specs, as a set                                     *)
Eligible(completed) == {s \in Specs \ completed : ValidTarget(s, completed)}

(* An explicit target is kept when it may run, and stops the queue if not. *)
Explicit(kind, spec, completed) ==
  {IF ValidTarget(spec, completed) THEN ActionOf(kind, spec) ELSE ActionOf("stop", spec)}

NextActions(hh) ==
  CASE Actionable(hh) # {} ->
         {ActionOf("resolve-issue", CHOOSE i \in Actionable(hh) : \A j \in Actionable(hh) : i <= j)}
    [] Actionable(hh) = {} /\ Malformed # {} -> {ActionOf("stop", None)}
    [] Actionable(hh) = {} /\ Malformed = {} /\ Specs = {} -> {ActionOf("idle", None)}
    [] Actionable(hh) = {} /\ Malformed = {} /\ Specs # {} ->
         IF hh.current # None THEN Explicit("advance-spec", hh.current, hh.completed)
         ELSE IF hh.next # None THEN Explicit("start-spec", hh.next, hh.completed)
         ELSE IF Eligible(hh.completed) # {}
              THEN {ActionOf("start-spec", s) : s \in Eligible(hh.completed)}
         ELSE IF Specs \subseteq hh.completed THEN {ActionOf("idle", None)}
         ELSE {ActionOf("stop", None)}

(* _apply_completion                                                       *)
ApplyCompletion(hh, a) ==
  CASE a.kind = "resolve-issue" -> SetStatus(hh, a.target, "RESOLVED")
    [] a.kind = "advance-spec" ->
         [hh EXCEPT !.completed = @ \cup {hh.current}, !.current = hh.next, !.next = None]
    [] a.kind = "start-spec" -> [hh EXCEPT !.current = a.target, !.next = None]

(* _failure_item: the item itself for resolve-issue, else the OPEN item    *)
(* with the description of this action, else a new one; one more attempt.  *)
FailureMatches(hh, a) ==
  IF a.kind = "resolve-issue" THEN {a.target}
  ELSE {i \in ItemsOf(hh) : /\ hh.items[i].what = a.kind /\ hh.items[i].of = a.target
                            /\ hh.items[i].status = "OPEN"}

FailureIndex(hh, a) ==
  IF FailureMatches(hh, a) = {} THEN Len(hh.items) + 1
  ELSE CHOOSE i \in FailureMatches(hh, a) : \A j \in FailureMatches(hh, a) : i <= j

WithFailure(hh, a) ==
  LET i    == FailureIndex(hh, a)
      base == IF i \in ItemsOf(hh) THEN hh ELSE AddItem(hh, Item(a.kind, a.target))
  IN [base EXCEPT !.items[i].attempts = @ + 1]

-----------------------------------------------------------------------------
(* What the runner does once _save is through: clear the phase record,     *)
(* consume the cancellation, then return a result that stops the run or    *)
(* not and that run() lists in self.cycles or not.                         *)
Then(clearCycle, clearCancel, stop, listed, reason) ==
  [clearCycle |-> clearCycle, clearCancel |-> clearCancel, stop |-> stop,
   listed |-> listed, reason |-> reason]

NoThen == Then(FALSE, FALSE, FALSE, FALSE, "none")

Settles(t) == t.clearCycle /\ t.reason # "cancelled"

ForgetLocals == h' = NoHandoff /\ act' = NoAction /\ ret' = NoThen /\ saved' = "AUTO"

Init ==
  /\ mode = "AUTO"
  /\ handoff \in [current : Targets, next : Targets, completed : {{}}, items : {<< >>}]
  /\ cycle = None
  /\ cancel = FALSE
  /\ pc = "off"
  /\ h = NoHandoff /\ act = NoAction /\ ret = NoThen /\ saved = "AUTO"
  /\ ran = 0
  /\ opc = "idle"
  /\ cmd = None
  /\ om = "AUTO"
  /\ oh = NoHandoff
  /\ acked = "AUTO"
  /\ verified = {}
  /\ doubt = FALSE
  /\ used = [runs |-> 0, commands |-> 0, crashes |-> 0]
  /\ late = 0

(* The phase record of an attempt whose delivery cannot be proved.         *)
Interrupted == IF cycle = None THEN FALSE ELSE cycle.phase \in UncertainPhases

Unreconciled_Ignored == FALSE

(* _unreconciled_interruption                                              *)
Unreconciled == Interrupted

At(label) == pc = label

Goto(label) == pc' = label

Count(what) == used' = [used EXCEPT ![what] = @ + 1]

BeginSave(hh, t) == h' = hh /\ ret' = t /\ Goto("save")

(* _stop_for_blocker                                                       *)
BlockerSave(hh, clearCycle, listed) ==
  BeginSave(hh, Then(clearCycle, FALSE, StopOnBlocker, listed, "blocked"))

StopUnlisted_Continues == Goto("top")

(* Leave a cycle without a save, unlisted: mode guard and interruption.    *)
StopUnlisted == Goto(IF Daemon THEN "top" ELSE "exhaust")

-----------------------------------------------------------------------------
(* The loop: cmd_run and run(), or the daemon's _scheduler_poll.           *)

StartRun ==
  /\ pc = "off"
  /\ used.runs < MaxRuns
  /\ ~Daemon => mode = "AUTO"
  /\ Count("runs")
  /\ ran' = 0
  /\ Goto("top")
  /\ UNCHANGED <<files, h, act, ret, saved, operator, verified, doubt>>

DaemonPoll ==
  /\ Daemon /\ At("top")
  /\ mode = "AUTO"
  /\ Goto("guard")
  /\ UNCHANGED <<files, locals, operator, verified, doubt, used>>

(* A cancellation between cycles ends the run before any scheduling.       *)
LoopCancelled ==
  /\ ~Daemon /\ At("top")
  /\ ran < MaxCycles
  /\ cancel
  /\ BeginSave(handoff, Then(TRUE, TRUE, TRUE, TRUE, "cancelled"))
  /\ UNCHANGED <<files, act, saved, ran, operator, verified, doubt, used>>

LoopNext ==
  /\ ~Daemon /\ At("top")
  /\ ran < MaxCycles => ~cancel
  /\ Goto(IF ran < MaxCycles THEN "guard" ELSE "exhaust")
  /\ UNCHANGED <<files, locals, operator, verified, doubt, used>>

(* _cycle_limit_exhausted                                                  *)
CycleLimitExhausted ==
  /\ At("exhaust")
  /\ BeginSave(handoff, Then(FALSE, FALSE, TRUE, TRUE, "cycle-limit"))
  /\ UNCHANGED <<files, act, saved, ran, operator, verified, doubt, used>>

ModeGuardStops ==
  /\ At("guard")
  /\ mode # "AUTO"
  /\ StopUnlisted
  /\ UNCHANGED <<files, locals, operator, verified, doubt, used>>

ModeGuardPasses_Unchecked ==
  /\ At("guard")
  /\ Goto("load")
  /\ UNCHANGED <<files, locals, operator, verified, doubt, used>>

ModeGuardPasses ==
  /\ At("guard")
  /\ mode = "AUTO"
  /\ Goto("load")
  /\ UNCHANGED <<files, locals, operator, verified, doubt, used>>

(* An attempt that died mid-delivery is not followed by another.           *)
StopInterrupted ==
  /\ At("load")
  /\ Unreconciled
  /\ StopUnlisted
  /\ UNCHANGED <<files, locals, operator, verified, doubt, used>>

(* _cycle: load the handoff and decide.  Every look at a missing spec      *)
(* directory adds an item; beyond MaxItems the model stops counting them.  *)
Load ==
  /\ At("load")
  /\ ~Unreconciled
  /\ \/ /\ SpecDirMayMiss
        /\ BlockerSave(IF Room(handoff) THEN AddItem(handoff, Item("no-spec-dir", None)) ELSE handoff,
                       FALSE, FALSE)
        /\ act' = NoAction
     \/ /\ Blocked(handoff) /\ StopOnBlocker
        /\ BlockerSave(handoff, FALSE, FALSE)
        /\ act' = NoAction
     \/ /\ Blocked(handoff) => ~StopOnBlocker
        /\ act' \in NextActions(handoff)
        /\ CASE act'.kind = "idle" ->
                  BeginSave(handoff, Then(FALSE, FALSE, TRUE, TRUE, "idle"))
             [] act'.kind = "stop" ->
                  Room(handoff) /\ BlockerSave(EnsureBlockerOnce(handoff, act'.target), FALSE, TRUE)
             [] OTHER -> h' = handoff /\ Goto("prepare") /\ UNCHANGED ret
  /\ UNCHANGED <<files, saved, ran, operator, verified, doubt, used>>

-----------------------------------------------------------------------------
(* _execute                                                                *)

WriteCycle(phase) == cycle' = [phase |-> phase, action |-> act]

fixed == <<mode, handoff, cancel, saved, ran, operator, verified, used>>

PrepareCancelled ==
  /\ At("prepare")
  /\ cancel
  /\ WriteCycle("before-send")
  /\ BeginSave(h, Then(TRUE, TRUE, TRUE, FALSE, "cancelled"))
  /\ UNCHANGED <<fixed, act, doubt>>

Prepare_Unrecorded ==
  /\ At("prepare")
  /\ ~cancel
  /\ Goto("start")
  /\ UNCHANGED <<fixed, cycle, h, ret, act, doubt>>

Prepare ==
  /\ At("prepare")
  /\ ~cancel
  /\ WriteCycle("before-send")
  /\ Goto("start")
  /\ UNCHANGED <<fixed, h, ret, act, doubt>>

StartProvider ==
  /\ At("start")
  /\ \/ Goto("send") /\ UNCHANGED <<h, ret>>
     \/ Room(h) /\ BlockerSave(AddItem(h, Item("startup", act)), TRUE, TRUE)
  /\ UNCHANGED <<fixed, cycle, act, doubt>>

Send ==
  /\ At("send")
  /\ \/ Goto("record") /\ UNCHANGED <<h, ret>>
     \/ Room(h) /\ BlockerSave(AddItem(h, Item("adapter", act)), TRUE, TRUE)
  /\ UNCHANGED <<fixed, cycle, act, doubt>>

RecordSent ==
  /\ At("record")
  /\ WriteCycle("sent")
  /\ doubt' = TRUE
  /\ Goto("capture")
  /\ UNCHANGED <<fixed, h, ret, act>>

Capture ==
  /\ At("capture")
  /\ \/ WriteCycle("captured") /\ Goto("check") /\ UNCHANGED <<h, ret>>
     \/ /\ Room(h) /\ BlockerSave(AddItem(h, Item("adapter", act)), TRUE, TRUE)
        /\ UNCHANGED cycle
  /\ UNCHANGED <<fixed, act, doubt>>

(* _cancel_uncertain: the phase record stays for recovery.                 *)
CancelUncertain ==
  /\ At("check") \/ At("complete")
  /\ cancel
  /\ BeginSave(h, Then(FALSE, TRUE, TRUE, FALSE, "cancelled"))
  /\ UNCHANGED <<fixed, cycle, act, doubt>>

CheckPasses ==
  /\ At("check")
  /\ ~cancel
  /\ WriteCycle("verifying")
  /\ Goto("verify")
  /\ UNCHANGED <<fixed, h, ret, act, doubt>>

VerifyPasses ==
  /\ Verifies /\ At("verify")
  /\ WriteCycle("completing")
  /\ Goto("complete")
  /\ verified' = IF act.kind = "advance-spec" THEN verified \cup {act.target} ELSE verified
  /\ UNCHANGED <<mode, handoff, cancel, locals, operator, doubt, used>>

VerifyUnavailable ==
  /\ ~Verifies /\ At("verify")
  /\ BeginSave(h, Then(TRUE, FALSE, TRUE, TRUE, "verification-unavailable"))
  /\ UNCHANGED <<fixed, cycle, act, doubt>>

VerifyFails_Completes ==
  /\ Verifies /\ At("verify")
  /\ WriteCycle("completing")
  /\ Goto("complete")
  /\ UNCHANGED <<fixed, h, ret, act, doubt>>

(* _retry_or_persist: a bounded retry, then BLOCKED or the next item.      *)
VerifyFails ==
  /\ Verifies /\ At("verify")
  /\ Room(h)
  /\ LET failed   == WithFailure(h, act)
         i        == FailureIndex(h, act)
         again    == Then(TRUE, FALSE, FALSE, TRUE, "verification-failed")
     IN IF AttemptsLeft(failed.items[i].attempts) \/ ~StopOnBlocker
        THEN BeginSave(failed, again)
        ELSE BlockerSave(SetStatus(failed, i, "BLOCKED"), TRUE, TRUE)
  /\ UNCHANGED <<fixed, cycle, act, doubt>>

Complete ==
  /\ At("complete")
  /\ ~cancel
  /\ ret' = Then(TRUE, FALSE, FALSE, TRUE, "completed")
  /\ h' = ApplyCompletion(h, act)
  /\ Goto(IF Resets THEN "reset" ELSE "save")
  /\ UNCHANGED <<files, act, saved, ran, operator, verified, doubt, used>>

(* The verified completion stands, the reset is skipped.                   *)
ResetCancelled ==
  /\ At("reset")
  /\ cancel
  /\ cancel' = FALSE
  /\ Goto("save")
  /\ UNCHANGED <<mode, handoff, cycle, locals, operator, verified, doubt, used>>

Reset ==
  /\ At("reset")
  /\ ~cancel
  /\ \/ Goto("save") /\ UNCHANGED <<h, ret>>
     \/ Room(h) /\ BlockerSave(AddItem(h, Item("reset", act)), TRUE, TRUE)
  /\ UNCHANGED <<fixed, cycle, act, doubt>>

-----------------------------------------------------------------------------
(* _save, then what the caller of _save does.                              *)

SaveHandoff ==
  /\ At("save")
  /\ handoff' = h
  /\ doubt' = (doubt /\ ~Settles(ret))
  /\ Goto("saveRead")
  /\ UNCHANGED <<mode, cycle, cancel, locals, operator, verified, used>>

SaveRead ==
  /\ At("saveRead")
  /\ saved' = mode
  /\ Goto("saveWrite")
  /\ UNCHANGED <<files, h, act, ret, ran, operator, verified, doubt, used>>

SaveWrite ==
  /\ At("saveWrite")
  /\ mode' = saved
  /\ Goto(IF ret.clearCycle THEN "clearCycle"
          ELSE IF ret.clearCancel THEN "clearCancel" ELSE "return")
  /\ UNCHANGED <<handoff, cycle, cancel, locals, operator, verified, doubt, used>>

ClearCycle ==
  /\ At("clearCycle")
  /\ cycle' = None
  /\ Goto(IF ret.clearCancel THEN "clearCancel" ELSE "return")
  /\ UNCHANGED <<mode, handoff, cancel, locals, operator, verified, doubt, used>>

ClearCancel ==
  /\ At("clearCancel")
  /\ cancel' = FALSE
  /\ Goto("return")
  /\ UNCHANGED <<mode, handoff, cycle, locals, operator, verified, doubt, used>>

(* An unlisted stop leaves run() with nothing listed as stopped.           *)
Return ==
  /\ At("return")
  /\ ForgetLocals
  /\ IF Daemon THEN Goto("top") /\ UNCHANGED ran
     ELSE /\ ran' = IF ret.listed /\ ret.reason # "cycle-limit" THEN ran + 1 ELSE ran
          /\ Goto(CASE ret.stop /\ ret.listed  -> "off"
                    [] ret.stop /\ ~ret.listed -> "exhaust"
                    [] OTHER                   -> "top")
  /\ UNCHANGED <<files, operator, verified, doubt, used>>

-----------------------------------------------------------------------------
(* The process ends: SIGTERM releases the lease (_release_on_term), a      *)
(* crash leaves it stale.                                                  *)

Ends(label) ==
  /\ pc \notin {"off", "crashed"}
  /\ used.crashes < MaxCrashes
  /\ Count("crashes")
  /\ Goto(label)
  /\ ForgetLocals
  /\ ran' = 0
  /\ UNCHANGED <<files, operator, verified, doubt>>

Terminated == ~Daemon /\ Ends("off")
Crash == Ends("crashed")

(* recover_project, when no scheduler runs (its races are in Lease).       *)
Recover ==
  /\ pc = "crashed" \/ (pc = "off" /\ cycle # None)
  /\ LET item      == [Item("uncertain", cycle) EXCEPT !.status = "BLOCKED"]
         known     == \E i \in ItemsOf(handoff) :
                        /\ handoff.items[i].what = "uncertain" /\ handoff.items[i].of = cycle
                        /\ handoff.items[i].status = "BLOCKED"
     IN IF Interrupted /\ ~known
        THEN Room(handoff) /\ handoff' = AddItem(handoff, item)
        ELSE UNCHANGED handoff
  /\ doubt' = (doubt /\ ~Interrupted)
  /\ cycle' = None
  /\ Goto("off")
  /\ UNCHANGED <<mode, cancel, locals, operator, verified, used>>

RunnerStep ==
  \/ DaemonPoll \/ LoopCancelled \/ LoopNext \/ CycleLimitExhausted
  \/ ModeGuardStops \/ ModeGuardPasses \/ StopInterrupted \/ Load
  \/ PrepareCancelled \/ Prepare \/ StartProvider \/ Send \/ RecordSent \/ Capture
  \/ CancelUncertain \/ CheckPasses
  \/ VerifyPasses \/ VerifyUnavailable \/ VerifyFails
  \/ Complete \/ ResetCancelled \/ Reset
  \/ SaveHandoff \/ SaveRead \/ SaveWrite \/ ClearCycle \/ ClearCancel \/ Return

-----------------------------------------------------------------------------
(* Operator commands: `ariadex pause|takeover|resume|auto` and the item    *)
(* edits resolve, defer and reopen.  A live daemon answers pause and       *)
(* resume over IPC, and its resume resynchronizes first; without one the   *)
(* commands change the files themselves.                                   *)

runnerVars == <<pc, locals, verified, doubt>>

OGoto(label) == opc' = label

OAt(label) == opc = label

Finish == OGoto("idle") /\ cmd' = None /\ om' = "AUTO" /\ oh' = NoHandoff

Acknowledge(m) == Finish /\ acked' = m

Proceed(label) == OGoto(label) /\ UNCHANGED <<acked, cmd, om, oh>>

(* control.transition: resume is valid only from PAUSE; from AUTO it is    *)
(* answered without a transition.                                          *)
Begin(c) ==
  /\ c \in Commands /\ opc = "idle"
  /\ used.commands < MaxCommands
  /\ Count("commands")
  /\ cmd' = c

BeginPause ==
  /\ \E c \in {"pause", "takeover"} : Begin(c)
  /\ om' = mode
  /\ OGoto("cancel")
  /\ UNCHANGED <<files, oh, acked, runnerVars>>

BeginResume ==
  /\ Begin("resume")
  /\ mode \in IF Daemon THEN {"PAUSE", "AUTO"} ELSE {"PAUSE"}
  /\ om' = mode
  /\ OGoto(IF Daemon THEN "resync" ELSE "mode")
  /\ UNCHANGED <<files, oh, acked, runnerVars>>

BeginAuto ==
  /\ ~Daemon /\ Begin("auto")
  /\ om' = mode
  /\ OGoto("resync")
  /\ UNCHANGED <<files, oh, acked, runnerVars>>

RequestCancellation ==
  /\ OAt("cancel")
  /\ cancel' = TRUE
  /\ IF om = VIA_TARGETS[cmd] THEN Acknowledge(om) ELSE Proceed("mode")
  /\ UNCHANGED <<mode, handoff, cycle, runnerVars, used>>

(* resync reads the handoff, asks git and the spec directory, and writes   *)
(* the handoff back with the next action recomputed.                       *)
ResyncRead ==
  /\ OAt("resync")
  /\ oh' = handoff
  /\ OGoto("resyncWrite")
  /\ UNCHANGED <<files, cmd, om, acked, runnerVars, used>>

ResyncWrite ==
  /\ OAt("resyncWrite")
  /\ handoff' = oh
  /\ oh' = NoHandoff
  /\ OGoto(IF om = "AUTO" THEN "clear" ELSE "mode")
  /\ UNCHANGED <<mode, cycle, cancel, cmd, om, acked, runnerVars, used>>

WriteMode ==
  /\ OAt("mode")
  /\ mode' = VIA_TARGETS[cmd]
  /\ IF cmd = "auto" \/ (cmd = "resume" /\ Daemon)
     THEN Proceed("clear")
     ELSE Acknowledge(VIA_TARGETS[cmd])
  /\ UNCHANGED <<handoff, cycle, cancel, runnerVars, used>>

ClearCancellation ==
  /\ OAt("clear")
  /\ cancel' = FALSE
  /\ Acknowledge("AUTO")
  /\ UNCHANGED <<mode, handoff, cycle, runnerVars, used>>

(* _cmd_mutate: read the handoff, change one item, write it back, then     *)
(* persist the count through a read and a write of state.json.             *)
BeginEdit ==
  /\ Begin("edit")
  /\ oh' = handoff
  /\ OGoto("edit")
  /\ UNCHANGED <<files, om, acked, runnerVars>>

EditsOf(status) ==
  CASE status = "RESOLVED" -> {"OPEN", "BLOCKED", "DEFERRED"}
    [] status = "DEFERRED" -> {"OPEN", "BLOCKED"}
    [] status = "OPEN"     -> {"RESOLVED", "DEFERRED", "BLOCKED"}

Edit ==
  /\ OAt("edit")
  /\ \E i \in ItemsOf(oh), status \in {"RESOLVED", "DEFERRED", "OPEN"} :
       /\ oh.items[i].status \in EditsOf(status)
       /\ handoff' = SetStatus(oh, i, status)
  /\ oh' = NoHandoff
  /\ OGoto("countRead")
  /\ UNCHANGED <<mode, cycle, cancel, cmd, om, acked, runnerVars, used>>

EditRefused ==
  /\ OAt("edit")
  /\ Finish
  /\ UNCHANGED <<files, acked, runnerVars, used>>

CountRead ==
  /\ OAt("countRead")
  /\ om' = mode
  /\ OGoto("countWrite")
  /\ UNCHANGED <<files, cmd, oh, acked, runnerVars, used>>

CountWrite ==
  /\ OAt("countWrite")
  /\ mode' = om
  /\ Finish
  /\ UNCHANGED <<handoff, cycle, cancel, acked, runnerVars, used>>

OperatorStep ==
  \/ RequestCancellation \/ ResyncRead \/ ResyncWrite \/ WriteMode \/ ClearCancellation
  \/ Edit \/ EditRefused \/ CountRead \/ CountWrite

OperatorBegins == BeginPause \/ BeginResume \/ BeginAuto \/ BeginEdit

Steps ==
  \/ StartRun \/ RunnerStep \/ Terminated \/ Crash \/ Recover
  \/ OperatorBegins \/ OperatorStep

(* An input, or an attempt at one, leaves in the step Send.                *)
CountLate ==
  late' = IF mode' = "AUTO" THEN 0
          ELSE IF pc = "send" /\ pc' \in {"record", "save"} THEN late + 1
          ELSE late

Next == Steps /\ CountLate

Spec == Init /\ [][Next]_vars

(* A runner that is not killed keeps executing, and a command that was     *)
(* begun runs to its end: both are sequential code without waits of their  *)
(* own beyond the provider's and the verifier's, which are bounded by      *)
(* timeouts.                                                               *)
FairSpec ==
  Spec /\ WF_vars(RunnerStep /\ CountLate) /\ WF_vars(OperatorStep /\ CountLate)

-----------------------------------------------------------------------------
HandoffOK(hh) ==
  /\ hh.current \in Names \cup {None}
  /\ hh.next \in Names \cup {None}
  /\ hh.completed \subseteq Specs
  /\ \A i \in ItemsOf(hh) :
       /\ hh.items[i].status \in {"OPEN", "BLOCKED", "RESOLVED", "DEFERRED"}
       /\ hh.items[i].attempts \in Nat

(* Every variable has the values the code writes.                          *)
TypeOK ==
  /\ mode \in Modes /\ saved \in Modes /\ om \in Modes /\ acked \in Modes
  /\ HandoffOK(handoff) /\ HandoffOK(h) /\ HandoffOK(oh)
  /\ cycle # None => cycle.phase \in UncertainPhases \cup {"before-send"}
  /\ cancel \in BOOLEAN /\ doubt \in BOOLEAN
  /\ ran \in Nat
  /\ verified \subseteq Specs

(* Verification gates completion: a spec is listed as completed, on disk   *)
(* or in any copy about to be written, only after its own advance-spec     *)
(* cycle passed verification, whatever was cancelled, retried or killed.   *)
CompletedWasVerified ==
  handoff.completed \cup h.completed \cup oh.completed \subseteq verified

(* No spec is completed before all its declared predecessors are.          *)
PredecessorsFirst == \A s \in handoff.completed : Deps[s] \subseteq handoff.completed

(* Provider input leaves only under a before-send record that names the    *)
(* action being sent, so that a crash can be told from an idle scheduler.  *)
SendIsRecordedFirst ==
  [][(pc = "send" /\ pc' # pc /\ pc' \notin {"off", "crashed"})
        => cycle = [phase |-> "before-send", action |-> act]]_vars

(* An input whose outcome is unknown leaves a trace: an uncertain phase    *)
(* record until the outcome or a BLOCKED item is in the handoff.           *)
DoubtIsRecorded == doubt => Interrupted

(* Durable progress: items and verified completions never disappear from   *)
(* the handoff, whoever writes it.                                         *)
NothingDisappears ==
  [][/\ Len(handoff'.items) >= Len(handoff.items)
     /\ handoff.completed \subseteq handoff'.completed]_vars

(* No item of the handoff counts more failed attempts than the first and   *)
(* the retry_limit ones after it, whatever is cancelled, killed, recovered *)
(* or resumed between them.                                                *)
AttemptsAreBounded ==
  \A i \in ItemsOf(handoff) : handoff.items[i].attempts <= RetryLimit + 1

(* While a pause or takeover is on disk at most the one input leaves whose *)
(* cycle had passed the mode guard before: whoever consumes the signal,    *)
(* saves over the mode, is killed or starts again meanwhile.               *)
OneSendPerPause == late <= 1

(* run() ends: it stops, or its cycle budget does.                         *)
RunEnds == (pc = "top") ~> (pc \in {"off", "crashed"})

-----------------------------------------------------------------------------
(* Claims of the source's text that its code does not keep.                *)

(* openspec/specs/human-control/spec.md:20, "Successful mode transitions   *)
(* MUST be persisted": a mode acknowledged to the operator is the one on   *)
(* disk, unless another command is under way.                              *)
AcknowledgedModeIsDurable == opc = "idle" => mode = acked

(* openspec/specs/takeover-cancellation/spec.md:8, "After takeover or      *)
(* pause is accepted, the runner MUST send no new provider input": once    *)
(* one is acknowledged no cycle goes past the check before its send.       *)
NoSendAfterPause == [][(pc = "prepare" /\ pc' = "start") => acked = "AUTO"]_vars

(* handoff.py:8, "nothing disappears silently": a status the operator set  *)
(* stays until the operator changes it.                                    *)
OperatorEditsStay ==
  [][\A i \in ItemsOf(handoff) :
       handoff.items[i].status = "DEFERRED" /\ i \in ItemsOf(handoff')
         => handoff'.items[i].status = "DEFERRED" \/ opc = "edit"]_vars

(* README.md:281, resume "returns to `AUTO`, and continues provider work": *)
(* a daemon in AUTO does not stay stopped before an interrupted phase.     *)
ResumeContinues ==
  (pc = "top" /\ mode = "AUTO" /\ Interrupted)
    ~> (pc = "prepare" \/ mode # "AUTO" \/ pc = "crashed")
=============================================================================
