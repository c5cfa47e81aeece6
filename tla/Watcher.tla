------------------------------ MODULE Watcher ------------------------------
(***************************************************************************)
(* The robot's session watcher (ariadex/robot.py, class RobotWatcher): one *)
(* thread that polls a provider session, waits until it looks finished and *)
(* still, decides from durable evidence what comes next, and sends         *)
(* prompts, questions and approvals.                                       *)
(*                                                                         *)
(* Beside it run the provider, which works through the changes and shows   *)
(* whatever it likes; the operator, who changes the mode in state.json,    *)
(* stops the daemon or sends by hand; and failures of the transport.  A    *)
(* poll is one step per look at what others may change and one per input.  *)
(*                                                                         *)
(* Phases that are only shown, block reasons, diagnostics and the counters *)
(* that only choose between shown phases (exhausted waits, models tried)   *)
(* are left out: phase is WATCHING for all that the loop goes on from.     *)
(***************************************************************************)
EXTENDS Naturals, Sequences

CONSTANTS
  Queue,         \* the changes in the order OpenSpec lists them
  None,
  Repos,         \* kinds of repository: "openspec" has its evidence, "legacy" has not
  HasInitial,    \* an initial prompt is configured
  Debounce,      \* debounce_polls
  Attempts       \* fresh_ready_attempts

Changes == {Queue[i] : i \in DOMAIN Queue}

ASSUME QueueAssumption == Queue \in Seq(Changes)
ASSUME NoneAssumption == None \notin Changes
ASSUME ReposAssumption == Repos \subseteq {"openspec", "legacy"}
ASSUME HasInitialAssumption == HasInitial \in BOOLEAN
ASSUME NumbersAssumption ==
  /\ Debounce \in Nat \ {0} /\ Attempts \in Nat \ {0}

(* A change is open with tasks left, complete, archived with proof, or     *)
(* gone without: renamed or deleted, or its canonical specs are missing.   *)
Works == {"open", "half", "complete", "archived", "gone"}
ActiveWorks == {"open", "half", "complete"}

VARIABLES
  mode,      \* state.json
  stopping,  \* the daemon record says stopping, or the thread was told to quit
  repo,      \* the kind of repository
  work,      \* the state of each change on disk
  command,   \* how far an operator's command is that rewrites the handoff
  copy,      \* current_spec of the handoff it read
  record,    \* conversation.json: the recorded change
  hspec,     \* current_spec of the handoff
  pc,        \* the watcher's next step
  phase,     \* DONE and BLOCKED end the loop
  paused, sent, asked,   \* _paused, initial_sent, _readiness_asked
  stable,    \* stable_polls
  tail,      \* a finished screen was seen and remembered (_last_finished_tail)
  plan,      \* what the boundary decided to do
  tries, ready,   \* iterations of a bounded wait, and ready ones in a row
  still,     \* history: equal finished captures in a row since an input
  late       \* history: automatic inputs since the mode was set to PAUSE or MANUAL

world == <<mode, stopping, repo, work, command, copy>>
durable == <<record, hspec>>
memory == <<paused, sent, asked>>
waiting == <<tries, ready>>
vars == <<world, durable, pc, phase, memory, stable, tail, plan, waiting,
          still, late>>

-----------------------------------------------------------------------------
(* Durable evidence                                                        *)

Active(c) == work[c] \in ActiveWorks
ActiveChanges == {c \in Changes : Active(c)}

(* The first change of the listed order that is still active.              *)
FirstActive ==
  LET places == {i \in DOMAIN Queue : Active(Queue[i])}
  IN Queue[CHOOSE i \in places : \A j \in places : i <= j]

Plan(role, target, ask, seen) == [role |-> role, target |-> target, ask |-> ask, seen |-> seen]
NoPlan == Plan("none", None, "none", "gone")

(* _recorded_target                                                        *)
RecordedTarget == IF record # None THEN record ELSE hspec

(* select_first_target, _legacy_first_target                               *)
FirstTarget ==
  LET preferred == IF repo = "openspec" THEN RecordedTarget ELSE hspec
  IN IF preferred \in ActiveChanges THEN preferred ELSE FirstActive

Verdict(decision, target) == [decision |-> decision, target |-> target]

OpenSpecBoundary_NoProof ==
  LET target == RecordedTarget
  IN CASE target = None -> Verdict(IF ActiveChanges = {} THEN "empty" ELSE "complete", None)
       [] target # None /\ target \notin ActiveChanges ->
            Verdict(IF ActiveChanges = {} THEN "empty" ELSE "complete", None)
       [] OTHER -> Verdict(IF work[target] = "complete" THEN "ready-to-archive" ELSE "unfinished",
                           target)

(* _openspec_boundary: a recorded change that left the queue needs its     *)
(* archive proof before anything follows it.                               *)
OpenSpecBoundary ==
  LET target == RecordedTarget
  IN CASE target = None -> Verdict(IF ActiveChanges = {} THEN "empty" ELSE "complete", None)
       [] target # None /\ target \notin ActiveChanges ->
            IF work[target] = "gone" THEN Verdict("blocked", target)
            ELSE Verdict(IF ActiveChanges = {} THEN "empty" ELSE "complete", None)
       [] OTHER -> Verdict(IF work[target] = "complete" THEN "ready-to-archive" ELSE "unfinished",
                           target)

(* check_boundary outside an OpenSpec repository: only the tasks decide.   *)
LegacyBoundary ==
  IF ActiveChanges = {} THEN Verdict("empty", None)
  ELSE Verdict(IF hspec # None /\ work[hspec] \in {"open", "half"} THEN "unfinished" ELSE "complete",
               hspec)

Boundary == IF repo = "openspec" THEN OpenSpecBoundary ELSE LegacyBoundary

-----------------------------------------------------------------------------
Init ==
  /\ mode = "AUTO"
  /\ stopping = FALSE
  /\ repo \in Repos
  /\ work \in [Changes -> {"open"}]
  /\ command = "none" /\ copy = None
  /\ record = None
  /\ hspec \in Changes \cup {None}
  /\ pc = "run" /\ phase = "WATCHING"
  /\ paused = FALSE /\ sent = ~HasInitial /\ asked = NoPlan
  /\ stable = 0 /\ tail = FALSE
  /\ plan = NoPlan
  /\ tries = 0 /\ ready = 0
  /\ still = 0 /\ late = 0

Goto(label) == pc' = label

AtMost(bound, n) == IF n < bound THEN n ELSE bound

(* An automatic input leaves.  The histories count up to a cap.            *)
Input == late' = (IF mode = "AUTO" THEN 0 ELSE AtMost(2, late + 1)) /\ still' = 0

(* The poll ends, with the debounce count restarted or as it is.           *)
ForgetPlan == plan' = NoPlan /\ tries' = 0 /\ ready' = 0
Return(ph) == Goto("run") /\ phase' = ph /\ ForgetPlan
Park == Return("WATCHING") /\ stable' = 0
Block == Return("BLOCKED") /\ UNCHANGED stable

-----------------------------------------------------------------------------
(* run(), and the gates at the top of poll().                              *)

RunStops_OnlyOutcome ==
  /\ pc = "run"
  /\ phase \in {"DONE", "BLOCKED"}
  /\ Goto("off")
  /\ UNCHANGED <<world, durable, phase, memory, stable, tail, plan, waiting, still, late>>

RunStops ==
  /\ pc = "run"
  /\ stopping \/ phase \in {"DONE", "BLOCKED"}
  /\ Goto("off")
  /\ UNCHANGED <<world, durable, phase, memory, stable, tail, plan, waiting, still, late>>

RunPolls ==
  /\ pc = "run"
  /\ ~stopping /\ phase = "WATCHING"
  /\ Goto("poll")
  /\ UNCHANGED <<world, durable, phase, memory, stable, tail, plan, waiting, still, late>>

PollQuits ==
  /\ pc = "poll" /\ stopping
  /\ Goto("run")
  /\ UNCHANGED <<world, durable, phase, memory, stable, tail, plan, waiting, still, late>>

PollPaused_Forgets ==
  /\ pc = "poll"
  /\ mode = "PAUSE" \/ (paused /\ mode = "MANUAL")
  /\ stable' = IF mode = "PAUSE" THEN 0 ELSE stable
  /\ Goto("run")
  /\ UNCHANGED <<world, durable, phase, memory, tail, plan, waiting, still, late>>

(* request_pause, and a pause that is held while the mode is MANUAL.       *)
PollPaused ==
  /\ pc = "poll"
  /\ mode = "PAUSE" \/ (paused /\ mode = "MANUAL")
  /\ paused' = TRUE
  /\ stable' = IF mode = "PAUSE" THEN 0 ELSE stable
  /\ Goto("run")
  /\ UNCHANGED <<world, durable, phase, sent, asked, tail, plan, waiting, still, late>>

(* request_resume restarts the debounce count.                             *)
PollObserves ==
  /\ pc = "poll"
  /\ mode # "PAUSE" /\ (paused => mode = "AUTO")
  /\ paused' = FALSE
  /\ stable' = IF paused THEN 0 ELSE stable
  /\ Goto("observe")
  /\ UNCHANGED <<world, durable, phase, sent, asked, tail, plan, waiting, still, late>>

-----------------------------------------------------------------------------
(* _poll_observed: capture the screen and classify it.                     *)

(* Working or unknown, or a quota, with or without another model to use.   *)
ObserveBusy ==
  /\ pc = "observe"
  /\ Park
  /\ still' = 0
  /\ UNCHANGED <<world, durable, memory, tail, late>>

ObserveError ==
  /\ pc = "observe"
  /\ Return("BLOCKED")
  /\ stable' = 0
  /\ still' = 0
  /\ UNCHANGED <<world, durable, memory, tail, late>>

ObserveApproval ==
  /\ pc = "observe"
  /\ Goto("approve")
  /\ still' = 0
  /\ UNCHANGED <<world, durable, phase, memory, stable, tail, plan, waiting, late>>

Candidate(count, changed) ==
  /\ stable' = count
  /\ tail' = TRUE
  /\ still' = IF changed THEN 1 ELSE AtMost(Debounce, still + 1)
  /\ Goto(IF count >= Debounce THEN "boundary" ELSE "run")

ObserveFinished_IgnoresChange ==
  /\ pc = "observe"
  /\ \E changed \in BOOLEAN : Candidate(AtMost(Debounce, stable + 1), changed)
  /\ UNCHANGED <<world, durable, phase, memory, plan, waiting, late>>

(* Finished, at the step limit or after a recoverable error: _quiescent    *)
(* restarts the count when the end of the screen changed since the last    *)
(* finished poll.                                                          *)
ObserveFinished ==
  /\ pc = "observe"
  /\ \/ Candidate(AtMost(Debounce, stable + 1), FALSE)
     \/ tail /\ Candidate(0, TRUE)
  /\ UNCHANGED <<world, durable, phase, memory, plan, waiting, late>>

-----------------------------------------------------------------------------
(* _on_stable_finished                                                     *)

Decide(role, target, ask) ==
  /\ plan' = Plan(role, target, ask, work[target])
  /\ Goto(IF role = "first" THEN "record" ELSE "gate")
  /\ UNCHANGED <<phase, waiting, stable>>

(* Evidence that is unreadable, malformed or contradictory.                *)
BoundaryUnreadable ==
  /\ pc = "boundary"
  /\ Block
  /\ UNCHANGED <<world, durable, memory, tail, still, late>>

(* _send_initial: what a watcher with an initial prompt starts with.       *)
BoundaryFirst ==
  /\ pc = "boundary" /\ ~sent
  /\ IF ActiveChanges = {} THEN Return("DONE") /\ UNCHANGED stable
     ELSE Decide("first", FirstTarget, "none")
  /\ UNCHANGED <<world, durable, memory, tail, still, late>>

BoundaryDecides ==
  /\ pc = "boundary" /\ sent
  /\ LET verdict == Boundary
     IN \/ verdict.decision = "blocked" /\ Block
        \/ verdict.decision = "empty" /\ Return("DONE") /\ UNCHANGED stable
        \/ verdict.decision = "unfinished" /\ Decide("confirmation", verdict.target, "tasks")
        \/ verdict.decision = "ready-to-archive" /\ Decide("confirmation", verdict.target, "archive")
        \/ /\ verdict.decision = "complete"
           /\ IF verdict.target # None THEN Decide("continuation", verdict.target, "veto")
              ELSE Decide("continuation", FirstActive, "none")
  /\ UNCHANGED <<world, durable, memory, tail, still, late>>

(* A draft in the composer, or the mode is PAUSE.                          *)
GateDefers ==
  /\ pc = "gate"
  /\ Park
  /\ UNCHANGED <<world, durable, memory, tail, still, late>>

(* The composer is empty, and the mode is not PAUSE.                       *)
GatePasses ==
  /\ pc = "gate"
  /\ mode # "PAUSE"
  /\ Goto("record")
  /\ UNCHANGED <<world, durable, phase, memory, stable, tail, plan, waiting, still, late>>

(* record_conversation: the record first, then the handoff; either may     *)
(* fail, and then nothing is sent.                                         *)
RecordConversation ==
  /\ pc = "record"
  /\ record' = plan.target
  /\ Goto("recordHandoff")
  /\ UNCHANGED <<world, hspec, phase, memory, stable, tail, plan, waiting, still, late>>

RecordHandoff ==
  /\ pc = "recordHandoff"
  /\ hspec' = plan.target
  /\ Goto(CASE plan.role = "first" -> "send"
            [] plan.role # "first" /\ plan.ask # "none" -> "ask"
            [] OTHER -> "fresh")
  /\ UNCHANGED <<world, record, phase, memory, stable, tail, plan, waiting, still, late>>

RecordFails_GoesOn ==
  /\ pc \in {"record", "recordHandoff"}
  /\ Goto(IF plan.role = "first" THEN "send" ELSE "fresh")
  /\ UNCHANGED <<world, durable, phase, memory, stable, tail, plan, waiting, still, late>>

RecordFails ==
  /\ pc \in {"record", "recordHandoff"}
  /\ Block
  /\ UNCHANGED <<world, durable, memory, tail, still, late>>

-----------------------------------------------------------------------------
(* _ask_readiness and _ask_confirm: one question, a bounded wait for the   *)
(* answer, and a stricter question when a confirmation stays unclear.      *)

AskTwice(ask) == ask \in {"archive", "veto", "approval"}

BeginWait == tries' = 0 /\ ready' = 0

(* The same question about the same open tasks is not asked twice in a     *)
(* row; the memory is set before the send.                                 *)
AskSkipped ==
  /\ pc = "ask" /\ plan.ask = "tasks" /\ asked = plan
  /\ Goto("fresh")
  /\ UNCHANGED <<world, durable, phase, memory, stable, tail, plan, waiting, still, late>>

Ask ==
  /\ pc = "ask" /\ (plan.ask = "tasks" => asked # plan)
  /\ asked' = IF plan.ask = "tasks" THEN plan ELSE asked
  /\ BeginWait
  /\ Input
  /\ Goto("reply")
  /\ UNCHANGED <<world, durable, phase, paused, sent, stable, tail, plan>>

AskBackup ==
  /\ pc = "backup"
  /\ BeginWait
  /\ Input
  /\ Goto("replyBackup")
  /\ UNCHANGED <<world, durable, phase, memory, stable, tail, plan>>

Replying == pc \in {"reply", "replyBackup"}

PauseSeen_Ignored == FALSE

(* The waits read the mode anew at every iteration.                        *)
PauseSeen == mode = "PAUSE"

NoAbort == ~stopping /\ ~PauseSeen

ReplyAborted ==
  /\ Replying
  /\ stopping \/ PauseSeen
  /\ IF stopping /\ plan.ask # "approval" THEN Block ELSE Park
  /\ UNCHANGED <<world, durable, memory, tail, still, late>>

(* One more look at the screen; the loop makes at least two.               *)
ReplyWaits ==
  /\ Replying /\ NoAbort
  /\ tries + 1 < (IF Attempts < 2 THEN 2 ELSE Attempts)
  /\ tries' = tries + 1
  /\ UNCHANGED <<world, durable, pc, phase, memory, stable, tail, plan, ready, still, late>>

ReplyUnclear ==
  /\ Replying /\ NoAbort
  /\ tries > 0
  /\ CASE AskTwice(plan.ask) /\ pc = "reply" -> Goto("backup") /\ UNCHANGED <<phase, stable, plan, waiting>>
       [] plan.ask = "approval" /\ pc = "replyBackup" -> Park
       [] OTHER -> Goto("fresh") /\ UNCHANGED <<phase, stable, plan, waiting>>
  /\ UNCHANGED <<world, durable, memory, tail, still, late>>

(* An approval question never leaves WAITING, whatever the answer.         *)
ReplyDone ==
  /\ Replying /\ NoAbort
  /\ tries > 0
  /\ IF plan.ask = "approval" THEN Park
     ELSE Goto("fresh") /\ UNCHANGED <<phase, stable, plan, waiting>>
  /\ UNCHANGED <<world, durable, memory, tail, still, late>>

(* WORKING keeps the conversation; NOT DONE before an archival confirms    *)
(* anyway, and as a veto turns the continuation into a confirmation.       *)
ReplyNotDone ==
  /\ Replying /\ NoAbort
  /\ tries > 0
  /\ \/ plan.ask \in {"approval", "tasks"} /\ Park
     \/ /\ plan.ask = "archive"
        /\ Goto("fresh") /\ UNCHANGED <<phase, stable, plan, waiting>>
     \/ /\ plan.ask = "veto"
        /\ plan' = [plan EXCEPT !.role = "confirmation", !.ask = "none"]
        /\ Goto("gate")
        /\ UNCHANGED <<phase, stable, waiting>>
  /\ UNCHANGED <<world, durable, memory, tail, still, late>>

-----------------------------------------------------------------------------
(* A fresh conversation, a bounded wait for its input surface, the prompt. *)

(* The provider cannot open one, or fails to.                              *)
FreshUnavailable == Block /\ UNCHANGED <<late, still>>

NewConversation ==
  /\ pc = "fresh"
  /\ \/ Goto("await") /\ BeginWait /\ Input /\ UNCHANGED <<phase, stable, plan>>
     \/ FreshUnavailable
  /\ UNCHANGED <<world, durable, memory, tail>>

AwaitAborted ==
  /\ pc = "await"
  /\ stopping \/ PauseSeen
  /\ IF stopping THEN Block ELSE Park
  /\ UNCHANGED <<world, durable, memory, tail, still, late>>

AwaitReady ==
  /\ pc = "await" /\ NoAbort
  /\ ready + 1 >= Debounce
  /\ Goto("send")
  /\ UNCHANGED <<world, durable, phase, memory, stable, tail, plan, waiting, still, late>>

(* Not ready, or not for long enough; the last attempt ends the wait.      *)
AwaitGoesOn ==
  /\ pc = "await" /\ NoAbort
  /\ \E r \in {0, ready + 1} :
       /\ r < Debounce
       /\ IF tries + 1 < Attempts
          THEN tries' = tries + 1 /\ ready' = r /\ UNCHANGED <<pc, phase, stable, plan>>
          ELSE Park
  /\ UNCHANGED <<world, durable, memory, tail, still, late>>

SendPrompt ==
  /\ pc = "send"
  /\ sent' = TRUE
  /\ Input
  /\ Park
  /\ UNCHANGED <<world, durable, paused, asked, tail>>

-----------------------------------------------------------------------------
(* _handle_approval, up to its counters, which are module Approval: wait   *)
(* for the human, answer the request, or ask about it.                     *)

ApprovalWaits ==
  /\ pc = "approve"
  /\ Park
  /\ UNCHANGED <<world, durable, memory, tail, still, late>>

ApprovalSends ==
  /\ pc = "approve"
  /\ Input
  /\ Park
  /\ UNCHANGED <<world, durable, memory, tail>>

ApprovalQuestion ==
  /\ pc = "approve"
  /\ plan' = Plan("none", None, "approval", "gone")
  /\ Goto("ask")
  /\ UNCHANGED <<world, durable, phase, memory, stable, tail, waiting, still, late>>

-----------------------------------------------------------------------------
(* Failures                                                                *)

UsesTransport == {"observe", "gate", "ask", "reply", "backup", "replyBackup", "await", "send"}

(* The session is gone: wait for it, the thread lives on.                  *)
TransportLost ==
  /\ pc \in UsesTransport
  /\ Park
  /\ UNCHANGED <<world, durable, memory, tail, still, late>>

(* Any other error ends the thread (_run_watcher), as does the death of    *)
(* the daemon at any moment.                                               *)
Dies ==
  /\ pc # "off"
  /\ Goto("off")
  /\ ForgetPlan
  /\ UNCHANGED <<world, durable, phase, memory, stable, tail, still, late>>

-----------------------------------------------------------------------------
(* The world around the watcher                                            *)

thread == <<pc, phase, memory, tail, plan, waiting, still>>
watcher == <<durable, thread>>

(* The provider checks off tasks, archives a change, or loses it.          *)
ProviderWorks ==
  /\ \E c \in Changes : \E w \in Works :
       /\ <<work[c], w>> \in {<<"open", "half">>, <<"half", "complete">>, <<"complete", "archived">>}
                               \cup ({"open", "half", "complete"} \X {"gone"})
       /\ work' = [work EXCEPT ![c] = w]
  /\ UNCHANGED <<mode, stopping, repo, command, copy, watcher, stable, late>>

(* resume and auto resynchronize first: resync reads the whole handoff,    *)
(* asks git and writes it back, current_spec included; resolve, defer and  *)
(* reopen read and write it back too.  One such command at a time.         *)
ReadHandoff ==
  /\ command = "none"
  /\ command' = "read" /\ copy' = hspec
  /\ UNCHANGED <<mode, stopping, repo, work, watcher, stable, late>>

WriteHandoff ==
  /\ command = "read"
  /\ hspec' = copy
  /\ command' = "written" /\ copy' = None
  /\ UNCHANGED <<mode, stopping, repo, work, record, thread, stable, late>>

(* It fails, or has no mode to change: AUTO holds already, a resume is     *)
(* refused in MANUAL, an item was edited.                                  *)
CommandEnds ==
  /\ command # "none"
  /\ command' = "none" /\ copy' = None
  /\ UNCHANGED <<mode, stopping, repo, work, watcher, stable, late>>

(* pause and takeover change the mode at once, resume and auto after the   *)
(* resync.                                                                 *)
SetMode ==
  /\ \/ mode' \in {"PAUSE", "MANUAL"} /\ UNCHANGED command
     \/ command = "written" /\ mode' = "AUTO" /\ command' = "none"
  /\ mode' # mode
  /\ late' = 0
  /\ UNCHANGED <<stopping, repo, work, copy, watcher, stable>>

RequestStop ==
  /\ ~stopping /\ pc # "off"
  /\ stopping' = TRUE
  /\ UNCHANGED <<mode, repo, work, command, copy, watcher, stable, late>>

(* request_retry, request_send and request_switch_model, on the IPC        *)
(* thread beside the watcher's own steps: all they share with its loop is  *)
(* the debounce count.                                                     *)
ManualSend ==
  /\ ~paused /\ mode # "PAUSE"
  /\ stable' = 0
  /\ UNCHANGED <<world, watcher, late>>

ManualSwitch ==
  /\ stable' = 0
  /\ UNCHANGED <<world, watcher, late>>

(* A new daemon starts a new watcher over what the files say.              *)
Start ==
  /\ pc = "off"
  /\ pc' = "run" /\ phase' = "WATCHING" /\ stopping' = FALSE
  /\ paused' = FALSE /\ sent' = ~HasInitial /\ asked' = NoPlan
  /\ stable' = 0 /\ tail' = FALSE /\ still' = 0
  /\ UNCHANGED <<mode, repo, work, command, copy, durable, plan, waiting, late>>

WatcherStep ==
  \/ RunStops \/ RunPolls \/ PollQuits \/ PollPaused \/ PollObserves
  \/ ObserveBusy \/ ObserveError \/ ObserveApproval \/ ObserveFinished
  \/ BoundaryUnreadable \/ BoundaryFirst \/ BoundaryDecides
  \/ GateDefers \/ GatePasses \/ RecordConversation \/ RecordHandoff \/ RecordFails
  \/ AskSkipped \/ Ask \/ AskBackup
  \/ ReplyAborted \/ ReplyWaits \/ ReplyUnclear \/ ReplyDone \/ ReplyNotDone
  \/ NewConversation \/ AwaitAborted \/ AwaitReady \/ AwaitGoesOn \/ SendPrompt
  \/ ApprovalWaits \/ ApprovalSends \/ ApprovalQuestion
  \/ TransportLost

RewriteStep == ReadHandoff \/ WriteHandoff \/ CommandEnds

OperatorStep == RewriteStep \/ SetMode \/ RequestStop \/ ManualSend \/ ManualSwitch

Next == WatcherStep \/ Dies \/ ProviderWorks \/ OperatorStep \/ Start

Spec == Init /\ [][Next]_vars

(* The thread goes on: its sleeps are bounded, and the commands it runs    *)
(* (openspec, tmux) have timeouts.                                         *)
FairSpec == Spec /\ WF_vars(WatcherStep)

-----------------------------------------------------------------------------
Labels == {"run", "poll", "observe", "boundary", "gate", "record", "recordHandoff", "ask",
           "reply", "backup", "replyBackup", "fresh", "await", "send", "approve", "off"}

Plans == [role : {"none", "first", "continuation", "confirmation"},
          target : Changes \cup {None},
          ask : {"none", "tasks", "archive", "veto", "approval"},
          seen : Works]

(* Every variable has the values the code writes.                          *)
TypeOK ==
  /\ mode \in {"AUTO", "PAUSE", "MANUAL"} /\ stopping \in BOOLEAN
  /\ repo \in Repos /\ work \in [Changes -> Works]
  /\ command \in {"none", "read", "written"} /\ copy \in Changes \cup {None}
  /\ record \in Changes \cup {None} /\ hspec \in Changes \cup {None}
  /\ pc \in Labels /\ phase \in {"WATCHING", "DONE", "BLOCKED"}
  /\ paused \in BOOLEAN /\ sent \in BOOLEAN
  /\ asked \in Plans /\ plan \in Plans
  /\ stable \in 0..Debounce /\ still \in 0..Debounce
  /\ tail \in BOOLEAN
  /\ tries \in Nat /\ ready \in 0..(Debounce - 1)
  /\ late \in 0..2

(* The boundary is evaluated only after Debounce polls in a row saw the    *)
(* same finished screen, with no input in between: whatever paused,        *)
(* resumed, failed, asked or waited since, the provider is at rest.        *)
QuietBeforeBoundary == pc = "boundary" => still = Debounce

(* After a pause is written, at most the one input that was on its way     *)
(* still leaves: every path from one input to the next looks at the mode.  *)
OneInputAfterPause == mode = "PAUSE" => late <= 1

(* The places where an input about the plan's change is on its way.        *)
Prompting == {"ask", "reply", "backup", "replyBackup", "fresh", "await", "send"}

(* Questions and prompts follow the record: whenever one is on its way     *)
(* conversation.json names its change, so that a restart gates on the      *)
(* change the provider was given, whatever fails or is written meanwhile.  *)
PromptIsRecorded ==
  pc \in Prompting /\ plan.ask # "approval" => record = plan.target

(* In an OpenSpec repository the recorded change is left for another only  *)
(* when it was archived with proof.  The exception is a watcher's first    *)
(* prompt: select_first_target (robot.py:801) drops a recorded change that *)
(* left the queue without asking for proof.                                *)
AdvanceNeedsProof ==
  [][repo = "openspec" /\ record' # record /\ record # None
       => work[record] = "archived" \/ plan.role = "first"]_vars

(* A stop is followed: the thread ends, out of every wait.                 *)
StopEnds == stopping ~> pc = "off"

(* A pause is followed, and so is the return to AUTO.                      *)
ModeIsFollowed ==
  /\ (mode = "PAUSE") ~> (mode # "PAUSE" \/ paused \/ stopping \/ pc = "off")
  /\ (mode = "AUTO" /\ paused) ~> (mode # "AUTO" \/ ~paused \/ stopping \/ pc = "off")

-----------------------------------------------------------------------------
(* Claims of the source's text that its code does not keep.                *)

(* openspec_evidence.py:599, "Record the conversation target before any    *)
(* provider input is sent", and the handoff with it (:602): a prompt       *)
(* leaves with the handoff naming its change.                              *)
HandoffNamesPrompt ==
  pc \in Prompting /\ plan.ask # "approval" => hspec = plan.target

(* openspec/specs/human-control/spec.md:12, "In `MANUAL`, Ariadex MUST     *)
(* send no input": at most the input that was on its way leaves after a    *)
(* takeover.                                                               *)
ManualSendsNothing == mode = "MANUAL" => late <= 1
=============================================================================
