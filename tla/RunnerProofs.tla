---------------------------- MODULE RunnerProofs ----------------------------
(***************************************************************************)
(* Theorems about Runner, for every set of specs, every dependency graph,  *)
(* every policy, every mix of commands and every interleaving of their     *)
(* reads and writes with those of a cycle.                                 *)
(***************************************************************************)
EXTENDS Runner, WellFoundedInduction, TLAPS

(* The labels of a cycle between its decision and its first save.          *)
Executing ==
  {"prepare", "start", "send", "record", "capture", "check", "verify", "complete"}

(* From prepare to send the phase record on disk is that of this action.   *)
SendRecorded ==
  pc \in {"start", "send"} => cycle = [phase |-> "before-send", action |-> act]

(* A handoff is a record of its four fields, so that a change of the items *)
(* is known to leave the completions alone.                                *)
IsHandoff(hh) ==
  DOMAIN hh = {"current", "next", "completed", "items"}

Keeps(hh, new) ==
  IsHandoff(new) /\ new.completed = hh.completed /\ new.current = hh.current

Handoffs == IsHandoff(handoff) /\ IsHandoff(h) /\ IsHandoff(oh)

(* Completions are closed under predecessors in every copy.                *)
Closed(hh) == \A s \in hh.completed : Deps[s] \subseteq hh.completed

Ordered == Closed(handoff) /\ Closed(h) /\ Closed(oh)

(* The spec an advance-spec cycle will complete is the one it works on,    *)
(* and its predecessors are complete.                                      *)
AdvancesCurrent ==
  pc \in Executing /\ act.kind = "advance-spec"
    => act.target = h.current /\ Deps[h.current] \subseteq h.completed

(* It reaches its completion only through its verification.                *)
VerifiedBeforeComplete ==
  pc = "complete" /\ act.kind = "advance-spec" => act.target \in verified

Kinds == pc \in Executing => act.kind \in {"resolve-issue", "advance-spec", "start-spec"}

CompletionInv ==
  Handoffs /\ Ordered /\ AdvancesCurrent /\ VerifiedBeforeComplete /\ Kinds /\ CompletedWasVerified

-----------------------------------------------------------------------------
(* A cycle changes its record, its action and its place only in the steps  *)
(* of _execute; operator commands touch none of the three.                 *)
LEMMA InitSendRecorded == Init => SendRecorded
BY Zenon DEF Init, SendRecorded

LEMMA SendRecordedStep ==
  ASSUME SendRecorded, [Next]_vars
  PROVE  SendRecorded'
<1> USE DEF SendRecorded
<1>1. CASE Prepare
  BY <1>1, Zenon DEF Prepare, WriteCycle, Goto
<1>2. CASE StartProvider
  BY <1>2, Zenon DEF StartProvider, At, Goto, BlockerSave, BeginSave
<1>3. CASE pc' \notin {"start", "send"}
  BY <1>3, Zenon
<1>4. CASE UNCHANGED <<pc, cycle, act>>
  BY <1>4, Zenon
<1>5. RunnerStep => \/ Prepare \/ StartProvider \/ pc' \notin {"start", "send"}
                    \/ UNCHANGED <<pc, cycle, act>>
  <2>1. DaemonPoll \/ LoopCancelled \/ LoopNext \/ CycleLimitExhausted
          \/ ModeGuardStops \/ ModeGuardPasses \/ StopInterrupted
          => pc' \notin {"start", "send"}
    BY DEF DaemonPoll, LoopCancelled, LoopNext, CycleLimitExhausted, ModeGuardStops,
           ModeGuardPasses, StopInterrupted, StopUnlisted, BeginSave, Goto
  <2>2. Load => pc' \notin {"start", "send"}
    BY DEF Load, BlockerSave, BeginSave, Goto
  <2>3. PrepareCancelled \/ Send \/ RecordSent \/ Capture \/ CancelUncertain \/ CheckPasses
          => pc' \notin {"start", "send"}
    BY DEF PrepareCancelled, Send, RecordSent, Capture, CancelUncertain, CheckPasses,
           BlockerSave, BeginSave, Goto
  <2>4. VerifyPasses \/ VerifyUnavailable \/ Complete \/ ResetCancelled \/ Reset
          => pc' \notin {"start", "send"}
    BY DEF VerifyPasses, VerifyUnavailable, Complete, ResetCancelled, Reset,
           BlockerSave, BeginSave, Goto
  <2>5. VerifyFails => pc' \notin {"start", "send"}
    BY DEF VerifyFails, BlockerSave, BeginSave, Goto
  <2>6. SaveHandoff \/ SaveRead \/ SaveWrite \/ ClearCycle \/ ClearCancel \/ Return
          => pc' \notin {"start", "send"}
    BY DEF SaveHandoff, SaveRead, SaveWrite, ClearCycle, ClearCancel, Return, Goto
  <2>7. QED
    BY <2>1, <2>2, <2>3, <2>4, <2>5, <2>6, Zenon DEF RunnerStep
<1>6. StartRun \/ Terminated \/ Crash \/ Recover => pc' \notin {"start", "send"}
  BY DEF StartRun, Terminated, Crash, Ends, Recover, Goto
<1>7. OperatorBegins \/ OperatorStep => UNCHANGED <<pc, cycle, act>>
  BY Zenon DEF OperatorBegins, OperatorStep, BeginPause, BeginResume, BeginAuto, BeginEdit,
         RequestCancellation, ResyncRead, ResyncWrite, WriteMode, ClearCancellation,
         Edit, EditRefused, CountRead, CountWrite, runnerVars, files, locals
<1>8. UNCHANGED vars => UNCHANGED <<pc, cycle, act>>
  BY Zenon DEF vars, files, locals
<1>9. QED
  BY <1>1, <1>2, <1>3, <1>4, <1>5, <1>6, <1>7, <1>8, Zenon DEF Next, Steps

(* Provider input leaves only under a before-send record on disk that      *)
(* names the action being sent: recovery can tell what was in flight.      *)
THEOREM SendRecordedFirst == Spec => SendIsRecordedFirst
<1>1. SendRecorded /\ [Next]_vars
        => [(pc = "send" /\ pc' # pc /\ pc' \notin {"off", "crashed"})
              => cycle = [phase |-> "before-send", action |-> act]]_vars
  BY Zenon DEF SendRecorded
<1>2. QED
  BY <1>1, InitSendRecorded, SendRecordedStep, PTL DEF Spec, SendIsRecordedFirst

-----------------------------------------------------------------------------
(* Changes of the items leave the current spec and the completions alone.  *)
LEMMA ItemsKeep ==
  ASSUME NEW hh, IsHandoff(hh), NEW t
  PROVE  Keeps(hh, [hh EXCEPT !.items = t])
BY DEF IsHandoff, Keeps

LEMMA AddItemKeeps ==
  ASSUME NEW hh, IsHandoff(hh), NEW item
  PROVE  Keeps(hh, AddItem(hh, item))
BY ItemsKeep DEF AddItem

LEMMA SetStatusKeeps ==
  ASSUME NEW hh, IsHandoff(hh), NEW i, NEW status
  PROVE  Keeps(hh, SetStatus(hh, i, status))
BY ItemsKeep DEF SetStatus

LEMMA EnsureKeeps ==
  ASSUME NEW hh, IsHandoff(hh), NEW of
  PROVE  Keeps(hh, EnsureBlockerOnce(hh, of))
<1>1. Keeps(hh, hh)
  BY Zenon DEF Keeps
<1>2. QED
  BY <1>1, AddItemKeeps, Zenon DEF EnsureBlockerOnce

LEMMA KeepsTwice ==
  ASSUME NEW a, NEW b, NEW c, Keeps(a, b), Keeps(b, c)
  PROVE  Keeps(a, c)
BY Zenon DEF Keeps

LEMMA WithFailureKeeps ==
  ASSUME NEW hh, IsHandoff(hh), NEW a
  PROVE  Keeps(hh, WithFailure(hh, a))
<1> DEFINE i    == FailureIndex(hh, a)
           base == IF i \in ItemsOf(hh) THEN hh ELSE AddItem(hh, Item(a.kind, a.target))
           last == [base EXCEPT !.items[i].attempts = @ + 1]
<1>1. Keeps(hh, hh)
  BY Zenon DEF Keeps
<1>2. Keeps(hh, base)
  BY <1>1, AddItemKeeps, Zenon
<1>3. Keeps(base, last)
  BY <1>2, ItemsKeep DEF Keeps
<1>4. QED
  BY <1>2, <1>3, KeepsTwice, Zenon DEF WithFailure
-----------------------------------------------------------------------------
(* The steps of the runner, by what they do to the completions.            *)

(* It goes on with the same action and the same handoff.                   *)
Moves ==
  /\ UNCHANGED <<handoff, h, oh, act, verified>>
  /\ pc' \in Executing => pc \in Executing
  /\ pc' = "complete" => pc = "complete"

(* It is about to save the handoff it holds or found, but for its items.   *)
Saves ==
  /\ UNCHANGED <<handoff, oh, verified>>
  /\ Keeps(h, h') \/ Keeps(handoff, h')
  /\ pc' \notin Executing

(* It drops its copy.                                                      *)
Forgets ==
  /\ UNCHANGED <<handoff, oh, verified>>
  /\ h' = NoHandoff
  /\ pc' \notin Executing

LEMMA InitCompletion == Init => CompletionInv
<1> SUFFICES ASSUME Init PROVE CompletionInv
  OBVIOUS
<1>1. Handoffs /\ Ordered /\ CompletedWasVerified
  BY DEF Init, Handoffs, Ordered, Closed, IsHandoff, NoHandoff, CompletedWasVerified
<1>2. AdvancesCurrent /\ VerifiedBeforeComplete /\ Kinds
  BY DEF Init, AdvancesCurrent, VerifiedBeforeComplete, Kinds, Executing
<1>3. QED
  BY <1>1, <1>2, Zenon DEF CompletionInv

(* What preserves the invariant whatever code does it.                     *)
LEMMA MovesPreserve == CompletionInv /\ Moves => CompletionInv'
BY DEF Moves, CompletionInv, Handoffs, Ordered, Closed, AdvancesCurrent, VerifiedBeforeComplete, Kinds,
       CompletedWasVerified, Executing

LEMMA SavesPreserve == CompletionInv /\ Saves => CompletionInv'
BY DEF Saves, Keeps, CompletionInv, Handoffs, Ordered, Closed, IsHandoff, AdvancesCurrent,
       VerifiedBeforeComplete, Kinds, CompletedWasVerified, Executing

LEMMA ForgetsPreserve == CompletionInv /\ Forgets => CompletionInv'
BY DEF Forgets, NoHandoff, CompletionInv, Handoffs, Ordered, Closed, IsHandoff, AdvancesCurrent,
       VerifiedBeforeComplete, Kinds, CompletedWasVerified, Executing

(* The action of an advance-spec cycle is about the current spec.          *)
LEMMA NextActionsKinds ==
  ASSUME NEW hh, NEW a \in NextActions(hh)
  PROVE  /\ a.kind \in {"resolve-issue", "advance-spec", "start-spec", "idle", "stop"}
         /\ a.kind = "advance-spec"
              => a.target = hh.current /\ Deps[hh.current] \subseteq hh.completed
<1> USE DEF ActionOf
<1>1. CASE Actionable(hh) # {}
  BY <1>1 DEF NextActions
<1>2. CASE Actionable(hh) = {} /\ Malformed # {}
  BY <1>2 DEF NextActions
<1>3. CASE Actionable(hh) = {} /\ Malformed = {} /\ Specs = {}
  BY <1>3 DEF NextActions
<1>4. CASE Actionable(hh) = {} /\ Malformed = {} /\ Specs # {}
  BY <1>4 DEF NextActions, Explicit, ValidTarget
<1>5. QED
  BY <1>1, <1>2, <1>3, <1>4

LEMMA LoadStep ==
  ASSUME CompletionInv, Load
  PROVE  CompletionInv'
<1>1. IsHandoff(handoff) /\ UNCHANGED <<handoff, oh, verified>>
  BY Zenon DEF CompletionInv, Handoffs, Load, files, operator
<1>2. Keeps(handoff, handoff)
  BY <1>1, Zenon DEF Keeps
<1>3. \/ pc' = "save" /\ Keeps(handoff, h')
      \/ /\ act' \in NextActions(handoff) /\ act'.kind # "idle" /\ act'.kind # "stop"
         /\ h' = handoff /\ pc' = "prepare"
  BY <1>1, <1>2, AddItemKeeps, EnsureKeeps, Zenon DEF Load, BlockerSave, BeginSave, Goto
<1>4. CASE pc' = "save" /\ Keeps(handoff, h')
  BY <1>1, <1>4, SavesPreserve, Zenon DEF Saves, Executing
<1>5. CASE /\ act' \in NextActions(handoff) /\ act'.kind # "idle" /\ act'.kind # "stop"
           /\ h' = handoff /\ pc' = "prepare"
  <2>1. /\ act'.kind \in {"resolve-issue", "advance-spec", "start-spec"}
        /\ act'.kind = "advance-spec"
             => act'.target = handoff.current /\ Deps[handoff.current] \subseteq handoff.completed
    BY <1>5, NextActionsKinds
  <2>2. Handoffs' /\ Ordered' /\ CompletedWasVerified'
    BY <1>1, <1>5 DEF CompletionInv, Handoffs, Ordered, Closed, CompletedWasVerified, IsHandoff
  <2>3. QED
    BY <1>5, <2>1, <2>2 DEF CompletionInv, AdvancesCurrent, VerifiedBeforeComplete, Kinds
<1>6. QED
  BY <1>3, <1>4, <1>5
(* Completing adds the current spec, which the cycle has verified.         *)
LEMMA CompleteStep ==
  ASSUME CompletionInv, Complete
  PROVE  CompletionInv'
<1>1. /\ IsHandoff(h) /\ Closed(h) /\ h.completed \subseteq verified
      /\ act.kind \in {"resolve-issue", "advance-spec", "start-spec"}
      /\ act.kind = "advance-spec"
           => h.current \in verified /\ Deps[h.current] \subseteq h.completed
  BY DEF Complete, At, Executing, CompletionInv, Handoffs, Ordered, Closed, CompletedWasVerified, Kinds,
         AdvancesCurrent, VerifiedBeforeComplete
<1>2. /\ h' = ApplyCompletion(h, act) /\ pc' \in {"reset", "save"}
      /\ UNCHANGED <<handoff, oh, act, verified>>
  BY DEF Complete, files, operator, Goto
<1>3. IsHandoff(h') /\ Closed(h') /\ h'.completed \subseteq verified
  <2>1. CASE act.kind = "resolve-issue"
    BY <1>1, <1>2, <2>1, SetStatusKeeps DEF ApplyCompletion, Keeps, Closed
  <2>2. CASE act.kind = "advance-spec"
    BY <1>1, <1>2, <2>2 DEF ApplyCompletion, IsHandoff, Closed
  <2>3. CASE act.kind = "start-spec"
    BY <1>1, <1>2, <2>3 DEF ApplyCompletion, IsHandoff, Closed
  <2>4. QED
    BY <1>1, <2>1, <2>2, <2>3
<1>4. QED
  BY <1>2, <1>3 DEF CompletionInv, Handoffs, Ordered, Closed, CompletedWasVerified, Kinds, AdvancesCurrent,
                    VerifiedBeforeComplete, Executing, IsHandoff

LEMMA VerifyPassesStep ==
  ASSUME CompletionInv, VerifyPasses
  PROVE  CompletionInv'
<1>1. /\ UNCHANGED <<handoff, h, oh, act>>
      /\ verified' = IF act.kind = "advance-spec" THEN verified \cup {act.target} ELSE verified
      /\ pc = "verify" /\ pc' = "complete"
  BY DEF VerifyPasses, At, Goto, locals, operator
<1>2. QED
  BY <1>1 DEF CompletionInv, Handoffs, Ordered, Closed, IsHandoff, AdvancesCurrent, VerifiedBeforeComplete,
              Kinds, CompletedWasVerified, Executing

(* Each remaining step of the runner moves on, saves or forgets.           *)
LEMMA RunnerCompletion ==
  ASSUME CompletionInv, StartRun \/ RunnerStep \/ Terminated \/ Crash
  PROVE  CompletionInv'
<1>1. IsHandoff(h) /\ IsHandoff(handoff)
  BY Zenon DEF CompletionInv, Handoffs
<1>2. Keeps(h, h) /\ Keeps(handoff, handoff)
  BY <1>1, Zenon DEF Keeps
<1>3. StartRun \/ DaemonPoll \/ LoopNext \/ ModeGuardStops \/ ModeGuardPasses \/ StopInterrupted
        => Moves
  BY DEF StartRun, DaemonPoll, LoopNext, ModeGuardStops, ModeGuardPasses, StopInterrupted,
         StopUnlisted, Goto, Moves, Executing, files, locals, operator
<1>4. Prepare \/ RecordSent \/ CheckPasses => Moves
  BY DEF Prepare, RecordSent, CheckPasses, At, Goto, fixed, operator, Moves, Executing
<1>5. ResetCancelled \/ SaveRead \/ SaveWrite \/ ClearCycle \/ ClearCancel => Moves
  BY DEF ResetCancelled, SaveRead, SaveWrite, ClearCycle, ClearCancel, Goto,
         files, locals, operator, Moves, Executing
<1>6. LoopCancelled \/ CycleLimitExhausted => Saves
  BY <1>2 DEF LoopCancelled, CycleLimitExhausted, BeginSave, Goto, files, operator, Saves, Executing
<1>7. PrepareCancelled \/ CancelUncertain \/ VerifyUnavailable => Saves
  BY <1>2 DEF PrepareCancelled, CancelUncertain, VerifyUnavailable, BeginSave, Goto,
              fixed, operator, Saves, Executing
<1>8. StartProvider \/ Send \/ Capture \/ Reset => Moves \/ Saves
  <2>1. StartProvider => Moves \/ Saves
    BY <1>1, AddItemKeeps DEF StartProvider, At, BlockerSave, BeginSave, Goto,
       fixed, operator, Moves, Saves, Executing
  <2>2. Send => Moves \/ Saves
    BY <1>1, AddItemKeeps DEF Send, At, BlockerSave, BeginSave, Goto,
       fixed, operator, Moves, Saves, Executing
  <2>3. Capture => Moves \/ Saves
    BY <1>1, AddItemKeeps DEF Capture, At, BlockerSave, BeginSave, Goto,
       fixed, operator, Moves, Saves, Executing
  <2>4. Reset => Moves \/ Saves
    BY <1>1, AddItemKeeps DEF Reset, At, BlockerSave, BeginSave, Goto,
       fixed, operator, Moves, Saves, Executing
  <2>5. QED
    BY <2>1, <2>2, <2>3, <2>4
<1>9. VerifyFails => Saves
  <2>1. SUFFICES ASSUME VerifyFails PROVE Saves
    OBVIOUS
  <2>2. Keeps(h, WithFailure(h, act))
    BY <1>1, WithFailureKeeps, Zenon
  <2>3. ASSUME NEW i PROVE Keeps(h, SetStatus(WithFailure(h, act), i, "BLOCKED"))
    <3>1. IsHandoff(WithFailure(h, act))
      BY <2>2, Zenon DEF Keeps
    <3>2. Keeps(WithFailure(h, act), SetStatus(WithFailure(h, act), i, "BLOCKED"))
      BY <3>1, SetStatusKeeps, Zenon
    <3>3. QED
      BY <2>2, <3>2, KeepsTwice, Zenon
  <2>4. /\ pc' = "save"
        /\ \/ h' = WithFailure(h, act)
           \/ h' = SetStatus(WithFailure(h, act), FailureIndex(h, act), "BLOCKED")
    BY <2>1, Zenon DEF VerifyFails, BlockerSave, BeginSave, Goto
  <2>5. UNCHANGED <<handoff, oh, verified>>
    BY <2>1, Zenon DEF VerifyFails, fixed, operator
  <2>6. QED
    BY <2>2, <2>3, <2>4, <2>5 DEF Saves, Executing
<1>10. Return \/ Terminated \/ Crash => Forgets
  <2>1. Return => Forgets
    BY Zenon DEF Return, ForgetLocals, Goto, files, operator, Forgets, Executing
  <2>2. Terminated \/ Crash => Forgets
    BY Zenon DEF Terminated, Crash, Ends, ForgetLocals, Goto, files, operator, Forgets, Executing
  <2>3. QED
    BY <2>1, <2>2
<1>11. CASE SaveHandoff
  <2>1. handoff' = h /\ pc' = "saveRead" /\ UNCHANGED <<h, oh, act, verified>>
    BY <1>11 DEF SaveHandoff, Goto, locals, operator
  <2>2. QED
    BY <2>1 DEF CompletionInv, Handoffs, Ordered, Closed, IsHandoff, AdvancesCurrent, VerifiedBeforeComplete,
                Kinds, CompletedWasVerified, Executing
<1>12. QED
  BY <1>3, <1>4, <1>5, <1>6, <1>7, <1>8, <1>9, <1>10, <1>11, LoadStep, CompleteStep,
     VerifyPassesStep, MovesPreserve, SavesPreserve, ForgetsPreserve, Zenon DEF RunnerStep

(* Recovery and the operator's edits only ever change items.               *)
LEMMA ItemsOnly ==
  ASSUME CompletionInv, UNCHANGED <<h, act, verified>>,
         pc' \in Executing => pc' = pc,
         Keeps(handoff, handoff') \/ Keeps(oh, handoff'),
         oh' \in {oh, handoff, NoHandoff}
  PROVE  CompletionInv'
BY DEF Keeps, NoHandoff, CompletionInv, Handoffs, Ordered, Closed, IsHandoff, AdvancesCurrent,
       VerifiedBeforeComplete, Kinds, CompletedWasVerified, Executing

LEMMA RecoverCompletion ==
  ASSUME CompletionInv, Recover
  PROVE  CompletionInv'
<1>1. IsHandoff(handoff) /\ Keeps(handoff, handoff)
  BY Zenon DEF CompletionInv, Handoffs, Keeps
<1>2. Keeps(handoff, handoff')
  BY <1>1, AddItemKeeps, Zenon DEF Recover
<1>3. pc' = "off" /\ UNCHANGED <<h, act, oh, verified>>
  BY Zenon DEF Recover, Goto, locals, operator
<1>4. QED
  BY <1>2, <1>3, ItemsOnly DEF Executing

LEMMA OperatorCompletion ==
  ASSUME CompletionInv, OperatorBegins \/ OperatorStep
  PROVE  CompletionInv'
<1>1. IsHandoff(handoff) /\ Keeps(handoff, handoff) /\ IsHandoff(oh) /\ Keeps(oh, oh)
  BY Zenon DEF CompletionInv, Handoffs, Keeps
<1>2. UNCHANGED <<pc, h, act, verified>>
  BY Zenon DEF OperatorBegins, OperatorStep, BeginPause, BeginResume, BeginAuto, BeginEdit,
         RequestCancellation, ResyncRead, ResyncWrite, WriteMode, ClearCancellation,
         Edit, EditRefused, CountRead, CountWrite, runnerVars, locals
<1>3. OperatorBegins => UNCHANGED handoff /\ oh' \in {oh, handoff}
  BY DEF OperatorBegins, BeginPause, BeginResume, BeginAuto, BeginEdit, files
<1>4. ResyncRead \/ ResyncWrite => handoff' \in {handoff, oh} /\ oh' \in {handoff, NoHandoff}
  BY DEF ResyncRead, ResyncWrite, files
<1>5. Edit => Keeps(oh, handoff') /\ oh' = NoHandoff
  BY <1>1, SetStatusKeeps, Zenon DEF Edit
<1>6. RequestCancellation \/ WriteMode \/ ClearCancellation \/ EditRefused \/ CountRead \/ CountWrite
        => UNCHANGED handoff /\ oh' \in {oh, NoHandoff}
  BY DEF RequestCancellation, WriteMode, ClearCancellation, EditRefused, CountRead, CountWrite,
         Acknowledge, Proceed, Finish, files
<1>7. /\ Keeps(handoff, handoff') \/ Keeps(oh, handoff')
      /\ oh' \in {oh, handoff, NoHandoff}
  BY <1>1, <1>3, <1>4, <1>5, <1>6 DEF OperatorStep
<1>8. QED
  BY <1>2, <1>7, ItemsOnly

LEMMA CompletionStep == CompletionInv /\ [Next]_vars => CompletionInv'
<1>1. CompletionInv /\ UNCHANGED vars => CompletionInv'
  BY MovesPreserve DEF Moves, vars, files, locals, operator
<1>2. QED
  BY <1>1, RunnerCompletion, RecoverCompletion, OperatorCompletion, Zenon DEF Next, Steps

(* Whatever is cancelled, retried, killed or edited, and however commands  *)
(* and saves interleave, only a spec whose own advance-spec cycle passed   *)
(* verification is ever listed as completed.                               *)
THEOREM CompletedVerified == Spec => []CompletedWasVerified
<1>1. CompletionInv => CompletedWasVerified
  BY Zenon DEF CompletionInv
<1>2. QED
  BY <1>1, InitCompletion, CompletionStep, PTL DEF Spec

(* No spec is listed as completed before all its declared predecessors,    *)
(* for every dependency graph, cycles and missing specs included.          *)
THEOREM PredecessorsComplete == Spec => []PredecessorsFirst
<1>1. CompletionInv => PredecessorsFirst
  BY Zenon DEF CompletionInv, Ordered, Closed, PredecessorsFirst
<1>2. QED
  BY <1>1, InitCompletion, CompletionStep, PTL DEF Spec

-----------------------------------------------------------------------------
(* A step of the runner leaves the operator's variables alone.             *)
LEMMA RunnerAlone ==
  ASSUME RunnerStep
  PROVE  UNCHANGED operator
BY Zenon DEF RunnerStep, DaemonPoll, LoopCancelled, LoopNext, CycleLimitExhausted, ModeGuardStops,
       ModeGuardPasses, StopInterrupted, Load, PrepareCancelled, Prepare, StartProvider, Send,
       RecordSent, Capture, CancelUncertain, CheckPasses, VerifyPasses, VerifyUnavailable,
       VerifyFails, Complete, ResetCancelled, Reset, SaveHandoff, SaveRead, SaveWrite,
       ClearCycle, ClearCancel, Return, fixed

(* From the mode guard to its send a cycle has seen AUTO, and nothing has  *)
(* left since the mode on disk was last AUTO.                              *)
Cleared == {"load", "prepare", "start", "send"}

LateInv ==
  /\ late \in {0, 1}
  /\ mode = "AUTO" => late = 0
  /\ pc \in Cleared => late = 0

LEMMA InitLate == Init => LateInv
BY DEF Init, LateInv, Cleared

(* A cycle comes before its send only through the mode guard.              *)
LEMMA ClearedByGuard ==
  ASSUME Steps, pc' \in Cleared
  PROVE  pc \in Cleared \/ mode = "AUTO"
<1> DEFINE P == pc' \in Cleared => pc \in Cleared \/ mode = "AUTO"
<1> USE DEF Cleared
<1>1. DaemonPoll \/ LoopCancelled \/ LoopNext \/ CycleLimitExhausted \/ ModeGuardStops
        \/ ModeGuardPasses \/ StopInterrupted => P
  BY DEF DaemonPoll, LoopCancelled, LoopNext, CycleLimitExhausted, ModeGuardStops,
         ModeGuardPasses, StopInterrupted, StopUnlisted, BeginSave, Goto
<1>2. Load \/ PrepareCancelled \/ Prepare \/ StartProvider \/ Send => P
  BY Zenon DEF Load, PrepareCancelled, Prepare, StartProvider, Send, At
<1>3. RecordSent \/ Capture \/ CancelUncertain \/ CheckPasses => P
  BY DEF RecordSent, Capture, CancelUncertain, CheckPasses, BlockerSave, BeginSave, Goto
<1>4. VerifyPasses \/ VerifyUnavailable \/ VerifyFails => P
  BY DEF VerifyPasses, VerifyUnavailable, VerifyFails, BlockerSave, BeginSave, Goto
<1>5. Complete \/ ResetCancelled \/ Reset => P
  BY DEF Complete, ResetCancelled, Reset, BlockerSave, BeginSave, Goto
<1>6. SaveHandoff \/ SaveRead \/ SaveWrite \/ ClearCycle \/ ClearCancel \/ Return => P
  BY DEF SaveHandoff, SaveRead, SaveWrite, ClearCycle, ClearCancel, Return, Goto
<1>7. StartRun \/ Terminated \/ Crash \/ Recover => P
  BY DEF StartRun, Terminated, Crash, Ends, Recover, Goto
<1>8. OperatorBegins \/ OperatorStep => P
  <2>1. OperatorBegins \/ OperatorStep => UNCHANGED pc
    BY Zenon DEF OperatorBegins, OperatorStep, BeginPause, BeginResume, BeginAuto, BeginEdit,
           RequestCancellation, ResyncRead, ResyncWrite, WriteMode, ClearCancellation,
           Edit, EditRefused, CountRead, CountWrite, runnerVars
  <2>2. QED
    BY <2>1
<1>9. QED
  BY <1>1, <1>2, <1>3, <1>4, <1>5, <1>6, <1>7, <1>8, Zenon DEF Steps, RunnerStep

LEMMA LateStep ==
  ASSUME LateInv, [Next]_vars
  PROVE  LateInv'
<1>1. CASE UNCHANGED vars
  BY <1>1 DEF vars, files, LateInv
<1>2. CASE Next
  <2>1. Steps /\ CountLate
    BY <1>2 DEF Next, Steps
  <2>2. CASE mode' = "AUTO"
    BY <2>1, <2>2 DEF CountLate, LateInv
  <2>3. CASE mode' # "AUTO" /\ pc = "send" /\ pc' \in {"record", "save"}
    BY <2>1, <2>3 DEF CountLate, LateInv, Cleared
  <2>4. CASE mode' # "AUTO" /\ ~(pc = "send" /\ pc' \in {"record", "save"})
    <3>1. late' = late
      BY <2>1, <2>4 DEF CountLate
    <3>2. pc' \in Cleared => late = 0
      BY <2>1, ClearedByGuard DEF LateInv
    <3>3. QED
      BY <2>4, <3>1, <3>2 DEF LateInv
  <2>5. QED
    BY <2>2, <2>3, <2>4
<1>3. QED
  BY <1>1, <1>2

(* Whatever consumes the cancellation, and whichever save brings an older  *)
(* mode back, at most one input leaves while a pause or takeover is on     *)
(* disk: for every interleaving of commands, saves, crashes and restarts.  *)
THEOREM OneSend == Spec => []OneSendPerPause
<1>1. LateInv => OneSendPerPause
  BY DEF LateInv, OneSendPerPause
<1>2. QED
  BY <1>1, InitLate, LateStep, PTL DEF Spec

-----------------------------------------------------------------------------
(* A phase record is not the value that stands for a missing cycle.json.   *)
NoneIsNoRecord == \A phase, action : [phase |-> phase, action |-> action] # None

(* The daemon's loop, or a run nobody cancels: `ariadex run` with a pending *)
(* cancellation clears the phase record before it looks at it.             *)
Uncancelled == Daemon \/ Commands \cap {"pause", "takeover"} = {}

NeverCancelled == Daemon \/ (~cancel /\ opc # "cancel")

(* An attempt starts without doubt about an earlier one, and the record of *)
(* a delivery is cleared only after its outcome is in the handoff.         *)
DoubtKept ==
  /\ DoubtIsRecorded
  /\ pc \in {"prepare", "start", "send", "record"} => ~doubt
  /\ pc = "reset" => ret.reason # "cancelled"
  /\ pc = "save" /\ ret.clearCycle /\ ret.reason = "cancelled" => ~doubt
  /\ pc \in {"saveRead", "saveWrite", "clearCycle"} /\ ret.clearCycle => ~doubt
  /\ pc = "clearCycle" => ret.clearCycle

DoubtInv == NeverCancelled /\ DoubtKept

LEMMA InitDoubt == Init => DoubtInv
BY DEF Init, DoubtInv, NeverCancelled, DoubtKept, DoubtIsRecorded

LEMMA NeverCancelledStep ==
  ASSUME Uncancelled, NeverCancelled, [Next]_vars
  PROVE  NeverCancelled'
<1> SUFFICES ASSUME ~Daemon, Commands \cap {"pause", "takeover"} = {}
             PROVE  ~cancel' /\ opc' # "cancel"
  BY DEF Uncancelled, NeverCancelled
<1> USE DEF NeverCancelled
<1>1. BeginPause => FALSE
  BY DEF BeginPause, Begin
<1>2. BeginResume \/ BeginAuto \/ BeginEdit
        => UNCHANGED cancel /\ opc' \in {"mode", "resync", "edit"}
  BY DEF BeginResume, BeginAuto, BeginEdit, OGoto, files
<1>3. RequestCancellation => FALSE
  BY DEF RequestCancellation, OAt
<1>4. ResyncRead \/ ResyncWrite \/ WriteMode \/ Edit \/ EditRefused \/ CountRead \/ CountWrite
        => UNCHANGED cancel /\ opc' # "cancel"
  BY DEF ResyncRead, ResyncWrite, WriteMode, Edit, EditRefused, CountRead, CountWrite,
         Acknowledge, Proceed, Finish, OGoto, OAt, files
<1>5. ClearCancellation => ~cancel' /\ opc' = "idle"
  BY DEF ClearCancellation, Acknowledge, Finish, OGoto
<1>6. OperatorStep \/ OperatorBegins => NeverCancelled'
  BY <1>1, <1>2, <1>3, <1>4, <1>5 DEF OperatorStep, OperatorBegins
<1>7. RunnerStep => (~cancel => ~cancel') /\ UNCHANGED operator
  <2>1. RunnerStep => (~cancel => ~cancel')
    BY Zenon DEF RunnerStep, DaemonPoll, LoopCancelled, LoopNext, CycleLimitExhausted, ModeGuardStops,
       ModeGuardPasses, StopInterrupted, Load, PrepareCancelled, Prepare, StartProvider, Send,
       RecordSent, Capture, CancelUncertain, CheckPasses, VerifyPasses, VerifyUnavailable,
       VerifyFails, Complete, ResetCancelled, Reset, SaveHandoff, SaveRead, SaveWrite,
       ClearCycle, ClearCancel, Return, fixed, files
  <2>2. QED
    BY <2>1, RunnerAlone
<1>8. StartRun \/ Terminated \/ Crash \/ Recover => UNCHANGED <<cancel, opc, cmd>>
  BY Zenon DEF StartRun, Terminated, Crash, Ends, Recover, files, operator
<1>9. QED
  BY <1>6, <1>7, <1>8 DEF Next, Steps, vars, files, operator

LEMMA LoadDoubt ==
  ASSUME DoubtKept, Load
  PROVE  DoubtKept'
<1>1. ~doubt /\ ~doubt' /\ ~Interrupted /\ UNCHANGED cycle
  BY Zenon DEF Load, Unreconciled, DoubtKept, DoubtIsRecorded, files
<1>2. pc' \in {"save", "prepare"}
  BY DEF Load, BlockerSave, BeginSave, Goto
<1>3. QED
  BY <1>1, <1>2 DEF DoubtKept, DoubtIsRecorded

LEMMA RecordsDoubt ==
  ASSUME NoneIsNoRecord, DoubtKept,
         PrepareCancelled \/ Prepare \/ RecordSent \/ Capture \/ CheckPasses \/ VerifyPasses
  PROVE  DoubtKept'
<1> USE DEF DoubtKept, DoubtIsRecorded, Interrupted, UncertainPhases, WriteCycle, Goto
<1>1. CASE PrepareCancelled
  BY <1>1 DEF PrepareCancelled, BeginSave, At
<1>2. CASE Prepare
  BY <1>2 DEF Prepare, At
<1>3. CASE RecordSent
  <2>1. cycle' # None /\ cycle'.phase = "sent" /\ pc' = "capture"
    BY <1>3 DEF RecordSent, NoneIsNoRecord
  <2>2. QED
    BY <2>1
<1>4. CASE Capture
  <2>1. CASE WriteCycle("captured") /\ Goto("check")
    <3>1. cycle' # None /\ cycle'.phase = "captured" /\ pc' = "check"
      BY <2>1 DEF NoneIsNoRecord
    <3>2. QED
      BY <3>1
  <2>2. CASE /\ BlockerSave(AddItem(h, Item("adapter", act)), TRUE, TRUE)
             /\ UNCHANGED cycle
    BY <1>4, <2>2 DEF Capture, BlockerSave, BeginSave, Then, fixed
  <2>3. QED
    BY <1>4, <2>1, <2>2 DEF Capture
<1>5. CASE CheckPasses
  <2>1. cycle' # None /\ cycle'.phase = "verifying" /\ pc' = "verify"
    BY <1>5 DEF CheckPasses, NoneIsNoRecord
  <2>2. QED
    BY <2>1
<1>6. CASE VerifyPasses
  <2>1. cycle' # None /\ cycle'.phase = "completing" /\ pc' = "complete"
    BY <1>6 DEF VerifyPasses, NoneIsNoRecord
  <2>2. QED
    BY <2>1
<1>7. QED
  BY <1>1, <1>2, <1>3, <1>4, <1>5, <1>6

LEMMA SavesDoubt ==
  ASSUME DoubtKept,
         SaveHandoff \/ SaveRead \/ SaveWrite \/ ClearCycle \/ ClearCancel \/ Return
  PROVE  DoubtKept'
<1> USE DEF DoubtKept, DoubtIsRecorded, Interrupted, Goto, At
<1>1. CASE SaveHandoff
  <2>1. pc = "save" /\ pc' = "saveRead" /\ UNCHANGED <<cycle, ret>> /\ (doubt' = (doubt /\ ~Settles(ret)))
    BY <1>1 DEF SaveHandoff, locals
  <2>2. ret.clearCycle => ~doubt'
    BY <2>1 DEF Settles
  <2>3. doubt' => doubt
    BY <2>1
  <2>4. QED
    BY <2>1, <2>2, <2>3
<1>2. CASE SaveRead
  BY <1>2 DEF SaveRead, files
<1>3. CASE SaveWrite
  BY <1>3 DEF SaveWrite, locals
<1>4. CASE ClearCycle
  BY <1>4 DEF ClearCycle, locals
<1>5. CASE ClearCancel
  BY <1>5 DEF ClearCancel, locals
<1>6. CASE Return
  BY <1>6 DEF Return, files
<1>7. QED
  BY <1>1, <1>2, <1>3, <1>4, <1>5, <1>6

LEMMA RunnerDoubt ==
  ASSUME NoneIsNoRecord, DoubtInv, RunnerStep
  PROVE  DoubtKept'
<1> USE DEF DoubtKept, DoubtIsRecorded, Interrupted, Goto, At
<1>1. CASE LoopCancelled
  BY <1>1 DEF LoopCancelled, DoubtInv, NeverCancelled
<1>2. CASE DaemonPoll \/ LoopNext \/ CycleLimitExhausted \/ ModeGuardStops
        \/ ModeGuardPasses \/ StopInterrupted
  BY <1>2 DEF DoubtInv, DaemonPoll, LoopNext, CycleLimitExhausted, ModeGuardStops,
              ModeGuardPasses, StopInterrupted, StopUnlisted, BeginSave, Then, files
<1>3. CASE StartProvider \/ Send \/ CancelUncertain \/ VerifyUnavailable \/ VerifyFails
  BY <1>3 DEF DoubtInv, StartProvider, Send, CancelUncertain, VerifyUnavailable, VerifyFails,
              BlockerSave, BeginSave, Then, fixed
<1>4. CASE Complete \/ ResetCancelled \/ Reset
  BY <1>4 DEF DoubtInv, Complete, ResetCancelled, Reset, BlockerSave, BeginSave, Then, fixed,
              files, locals
<1>5. QED
  BY <1>1, <1>2, <1>3, <1>4, LoadDoubt, RecordsDoubt, SavesDoubt, Zenon DEF DoubtInv, RunnerStep

LEMMA DoubtStep ==
  ASSUME NoneIsNoRecord, Uncancelled, DoubtInv, [Next]_vars
  PROVE  DoubtInv'
<1>1. StartRun \/ Terminated \/ Crash
        => pc' \in {"top", "off", "crashed"} /\ UNCHANGED <<cycle, doubt>>
  BY DEF StartRun, Terminated, Crash, Ends, Goto, files
<1>2. Recover => pc' = "off" /\ ~doubt'
  BY Zenon DEF Recover, Goto, DoubtInv, DoubtKept, DoubtIsRecorded
<1>3. OperatorBegins \/ OperatorStep => UNCHANGED <<pc, ret, cycle, doubt>>
  BY Zenon DEF OperatorBegins, OperatorStep, BeginPause, BeginResume, BeginAuto, BeginEdit,
         RequestCancellation, ResyncRead, ResyncWrite, WriteMode, ClearCancellation,
         Edit, EditRefused, CountRead, CountWrite, runnerVars, files, locals
<1>4. UNCHANGED vars => UNCHANGED <<pc, ret, cycle, doubt>>
  BY Zenon DEF vars, files, locals
<1>5. pc' \in {"top", "off", "crashed"} /\ (~doubt' \/ UNCHANGED <<cycle, doubt>>) => DoubtKept'
  BY DEF DoubtInv, DoubtKept, DoubtIsRecorded, Interrupted
<1>6. UNCHANGED <<pc, ret, cycle, doubt>> => DoubtKept'
  BY DEF DoubtInv, DoubtKept, DoubtIsRecorded, Interrupted
<1>7. DoubtKept'
  BY <1>1, <1>2, <1>3, <1>4, <1>5, <1>6, RunnerDoubt DEF Next, Steps
<1>8. QED
  BY <1>7, NeverCancelledStep DEF DoubtInv

(* An input whose outcome is unknown keeps its uncertain phase record,     *)
(* through crashes, recoveries and restarts, in a daemon and in any run no *)
(* command cancels.                                                        *)
THEOREM DoubtRecorded ==
  NoneIsNoRecord /\ Uncancelled => (Spec => []DoubtIsRecorded)
<1>1. DoubtInv => DoubtIsRecorded
  BY Zenon DEF DoubtInv, DoubtKept
<1>2. SUFFICES ASSUME NoneIsNoRecord, Uncancelled PROVE Spec => []DoubtIsRecorded
  OBVIOUS
<1>3. DoubtInv /\ [Next]_vars => DoubtInv'
  BY <1>2, DoubtStep
<1>4. QED
  BY <1>1, <1>3, InitDoubt, PTL DEF Spec

-----------------------------------------------------------------------------
(* The items are a list of records that have a status and a count of       *)
(* attempts, whatever else they say.                                       *)
Statuses == {"OPEN", "BLOCKED", "RESOLVED", "DEFERRED"}

IsItem(x) ==
  DOMAIN x = {"what", "of", "status", "attempts"} /\ x.status \in Statuses /\ x.attempts \in Nat

ItemList(t) == \E S : t \in Seq(S) /\ \A x \in S : IsItem(x)

HandoffShape(hh) ==
  /\ IsHandoff(hh)
  /\ hh.current \in Names \cup {None}
  /\ hh.next \in Names \cup {None}
  /\ hh.completed \subseteq Specs
  /\ ItemList(hh.items)

LEMMA AppendList ==
  ASSUME NEW t, ItemList(t), NEW x, IsItem(x)
  PROVE  ItemList(Append(t, x))
<1>1. PICK S : t \in Seq(S) /\ \A y \in S : IsItem(y)
  BY DEF ItemList
<1>2. Append(t, x) \in Seq(S \cup {x})
  <2>1. t \in Seq(S \cup {x})
    BY <1>1
  <2>2. QED
    BY <2>1
<1>3. \A y \in S \cup {x} : IsItem(y)
  BY <1>1
<1>4. QED
  BY <1>2, <1>3, Zenon DEF ItemList

LEMMA UpdateList ==
  ASSUME NEW t, ItemList(t), NEW i, NEW new, i \in DOMAIN t => IsItem(new)
  PROVE  ItemList([t EXCEPT ![i] = new])
<1>1. PICK S : t \in Seq(S) /\ \A y \in S : IsItem(y)
  BY DEF ItemList
<1>2. CASE i \in DOMAIN t
  <2>1. [t EXCEPT ![i] = new] \in Seq(S \cup {new})
    <3>1. t \in [1 .. Len(t) -> S \cup {new}] /\ Len(t) \in Nat
      BY <1>1
    <3>2. [t EXCEPT ![i] = new] \in [1 .. Len(t) -> S \cup {new}]
      BY <3>1
    <3>3. QED
      BY <3>1, <3>2
  <2>2. \A y \in S \cup {new} : IsItem(y)
    BY <1>1, <1>2
  <2>3. QED
    BY <2>1, <2>2, Zenon DEF ItemList
<1>3. CASE i \notin DOMAIN t
  <2>1. [t EXCEPT ![i] = new] = t
    <3>1. /\ DOMAIN t = 1 .. Len(t) /\ t = [j \in 1 .. Len(t) |-> t[j]]
      BY <1>1
    <3>2. [t EXCEPT ![i] = new] = [j \in DOMAIN t |-> IF j = i THEN new ELSE t[j]]
      BY <3>1
    <3>3. \A j \in DOMAIN t : j # i
      BY <1>3
    <3>4. [j \in DOMAIN t |-> IF j = i THEN new ELSE t[j]] = [j \in DOMAIN t |-> t[j]]
      BY <3>3, Zenon
    <3>5. QED
      BY <3>1, <3>2, <3>4
  <2>2. QED
    BY <2>1
<1>4. QED
  BY <1>2, <1>3

LEMMA ListElement ==
  ASSUME NEW t, ItemList(t), NEW i \in DOMAIN t
  PROVE  IsItem(t[i])
BY DEF ItemList

LEMMA ShapeItems ==
  ASSUME NEW hh, HandoffShape(hh), NEW t, ItemList(t)
  PROVE  HandoffShape([hh EXCEPT !.items = t])
BY DEF HandoffShape, IsHandoff

LEMMA ShapeAdd ==
  ASSUME NEW hh, HandoffShape(hh), NEW x, IsItem(x)
  PROVE  HandoffShape(AddItem(hh, x))
BY ShapeItems, AppendList DEF AddItem, HandoffShape

LEMMA NewItem == \A what, of : IsItem(Item(what, of))
BY DEF Item, IsItem, Statuses

LEMMA ShapeStatus ==
  ASSUME NEW hh, HandoffShape(hh), NEW i, NEW status \in Statuses
  PROVE  HandoffShape(SetStatus(hh, i, status))
<1> DEFINE new == [hh.items[i] EXCEPT !.status = status]
<1>1. ItemList(hh.items)
  BY DEF HandoffShape
<1>2. i \in DOMAIN hh.items => IsItem(new)
  BY <1>1, ListElement DEF IsItem
<1>3. ItemList([hh.items EXCEPT ![i] = new])
  BY <1>1, <1>2, UpdateList
<1>4. SetStatus(hh, i, status) = [hh EXCEPT !.items = [hh.items EXCEPT ![i] = new]]
  BY DEF SetStatus, HandoffShape, IsHandoff
<1>5. QED
  BY <1>3, <1>4, ShapeItems

LEMMA ShapeEnsure ==
  ASSUME NEW hh, HandoffShape(hh), NEW of
  PROVE  HandoffShape(EnsureBlockerOnce(hh, of))
BY ShapeAdd, NewItem DEF EnsureBlockerOnce

LEMMA ShapeFailure ==
  ASSUME NEW hh, HandoffShape(hh), NEW a
  PROVE  HandoffShape(WithFailure(hh, a))
<1> DEFINE i    == FailureIndex(hh, a)
           base == IF i \in ItemsOf(hh) THEN hh ELSE AddItem(hh, Item(a.kind, a.target))
           new  == [base.items[i] EXCEPT !.attempts = @ + 1]
           t    == [base.items EXCEPT ![i] = new]
<1>1. HandoffShape(base)
  BY ShapeAdd, NewItem
<1> HIDE DEF i, base
<1>2. ItemList(base.items)
  BY <1>1 DEF HandoffShape
<1>3. i \in DOMAIN base.items => IsItem(new)
  BY <1>2, ListElement DEF IsItem
<1>4. HandoffShape([base EXCEPT !.items = t])
  BY <1>1, <1>2, <1>3, UpdateList, ShapeItems
<1>5. [base EXCEPT !.items[i].attempts = @ + 1] = [base EXCEPT !.items = t]
  BY <1>1 DEF HandoffShape, IsHandoff
<1>6. QED
  BY <1>4, <1>5 DEF WithFailure, i, base

LEMMA ShapeFields ==
  ASSUME NEW hh, HandoffShape(hh)
  PROVE  /\ \A s \in Specs : HandoffShape([hh EXCEPT !.current = s, !.next = None])
         /\ hh.current \in Specs
              => HandoffShape([hh EXCEPT !.completed = @ \cup {hh.current}, !.current = hh.next, !.next = None])
BY DEF HandoffShape, IsHandoff, Names

LEMMA ShapeOK ==
  ASSUME NEW hh, HandoffShape(hh)
  PROVE  HandoffOK(hh)
<1>1. \A i \in ItemsOf(hh) : IsItem(hh.items[i])
  BY ListElement DEF HandoffShape, ItemsOf
<1>2. QED
  BY <1>1 DEF HandoffOK, HandoffShape, IsItem, Statuses

(* The action of a cycle that advances or starts a spec names an active    *)
(* one, so that what is verified and completed is active too.              *)
ActiveTarget ==
  pc \in Executing /\ act.kind \in {"advance-spec", "start-spec"} => act.target \in Specs

HandoffsInv ==
  /\ HandoffShape(handoff) /\ HandoffShape(h) /\ HandoffShape(oh)
  /\ ActiveTarget
  /\ verified \subseteq Specs

LEMMA ListOf ==
  ASSUME NEW S, NEW t \in Seq(S), \A x \in S : IsItem(x)
  PROVE  ItemList(t)
BY Zenon DEF ItemList

LEMMA EmptyList == ItemList(<< >>)
<1> DEFINE S == {Item(None, None)}
<1>1. << >> \in Seq(S)
  OBVIOUS
<1>2. \A x \in S : IsItem(x)
  BY NewItem
<1> HIDE DEF S
<1>3. QED
  BY <1>1, <1>2, ListOf, Zenon

LEMMA NoHandoffShape == HandoffShape(NoHandoff)
BY EmptyList DEF HandoffShape, NoHandoff, IsHandoff

LEMMA InitHandoffs == Init => HandoffsInv
<1>1. Init => HandoffShape(handoff)
  BY EmptyList, SpecsAssumption DEF Init, HandoffShape, IsHandoff
<1>2. QED
  BY <1>1, NoHandoffShape DEF Init, HandoffsInv, ActiveTarget, Executing

LEMMA NextActionsActive ==
  ASSUME NEW hh, NEW a \in NextActions(hh), a.kind \in {"advance-spec", "start-spec"}
  PROVE  a.target \in Specs
<1> USE DEF ActionOf
<1>1. CASE Actionable(hh) # {}
  BY <1>1 DEF NextActions
<1>2. CASE Actionable(hh) = {} /\ Malformed # {}
  BY <1>2 DEF NextActions
<1>3. CASE Actionable(hh) = {} /\ Malformed = {} /\ Specs = {}
  BY <1>3 DEF NextActions
<1>4. CASE Actionable(hh) = {} /\ Malformed = {} /\ Specs # {}
  BY <1>4 DEF NextActions, Explicit, ValidTarget, Eligible
<1>5. QED
  BY <1>1, <1>2, <1>3, <1>4

LEMMA LoadHandoffs ==
  ASSUME HandoffsInv, Load
  PROVE  HandoffsInv'
<1>1. HandoffShape(handoff) /\ UNCHANGED <<handoff, oh, verified>>
  BY Zenon DEF HandoffsInv, Load, files, operator
<1>2. \/ pc' = "save" /\ HandoffShape(h')
      \/ act' \in NextActions(handoff) /\ h' = handoff /\ pc' = "prepare"
  BY <1>1, ShapeAdd, ShapeEnsure, NewItem, Zenon DEF Load, BlockerSave, BeginSave, Goto
<1>3. HandoffShape(h') /\ ActiveTarget'
  BY <1>1, <1>2, NextActionsActive DEF ActiveTarget, Executing
<1>4. QED
  BY <1>1, <1>3 DEF HandoffsInv

LEMMA CompleteHandoffs ==
  ASSUME HandoffsInv, CompletionInv, Complete
  PROVE  HandoffsInv'
<1>1. /\ HandoffShape(h) /\ pc = "complete"
      /\ act.kind \in {"resolve-issue", "advance-spec", "start-spec"}
      /\ act.kind # "resolve-issue" => act.target \in Specs
      /\ act.kind = "advance-spec" => h.current \in Specs
  BY DEF Complete, At, Executing, HandoffsInv, ActiveTarget, CompletionInv, Kinds, AdvancesCurrent
<1>2. h' = ApplyCompletion(h, act) /\ pc' \in {"reset", "save"} /\ UNCHANGED <<handoff, oh, verified>>
  BY DEF Complete, files, operator, Goto
<1>3. HandoffShape(h')
  <2>1. CASE act.kind = "resolve-issue"
    BY <1>1, <1>2, <2>1, ShapeStatus DEF ApplyCompletion, Statuses
  <2>2. CASE act.kind = "advance-spec"
    BY <1>1, <1>2, <2>2, ShapeFields DEF ApplyCompletion
  <2>3. CASE act.kind = "start-spec"
    BY <1>1, <1>2, <2>3, ShapeFields DEF ApplyCompletion
  <2>4. QED
    BY <1>1, <2>1, <2>2, <2>3
<1>4. QED
  BY <1>2, <1>3 DEF HandoffsInv, ActiveTarget, Executing

LEMMA RunnerHandoffs ==
  ASSUME HandoffsInv, CompletionInv, RunnerStep
  PROVE  HandoffsInv'
<1>1. HandoffShape(handoff) /\ HandoffShape(h)
  BY DEF HandoffsInv
<1> DEFINE Keep == /\ UNCHANGED <<handoff, oh, act, verified>>
                   /\ UNCHANGED h /\ (pc' \in Executing => pc \in Executing)
           Leave == /\ UNCHANGED <<handoff, oh, verified>>
                    /\ HandoffShape(h') /\ pc' \notin Executing
<1>2. Keep \/ Leave => HandoffsInv'
  BY DEF HandoffsInv, ActiveTarget
<1>3. DaemonPoll \/ LoopNext \/ ModeGuardStops \/ ModeGuardPasses \/ StopInterrupted => Keep
  BY DEF DaemonPoll, LoopNext, ModeGuardStops, ModeGuardPasses, StopInterrupted, StopUnlisted,
         Goto, Executing, files, locals, operator
<1>4. LoopCancelled \/ CycleLimitExhausted => Leave
  BY <1>1 DEF LoopCancelled, CycleLimitExhausted, BeginSave, Goto, Executing, files, operator
<1>5. Prepare \/ RecordSent \/ CheckPasses => Keep
  BY DEF Prepare, RecordSent, CheckPasses, At, Goto, Executing, fixed, operator
<1>6. PrepareCancelled \/ CancelUncertain \/ VerifyUnavailable => Leave
  BY <1>1 DEF PrepareCancelled, CancelUncertain, VerifyUnavailable, BeginSave, Goto, Executing,
              fixed, operator
<1>7. StartProvider \/ Send \/ Capture \/ Reset => Keep \/ Leave
  BY <1>1, ShapeAdd, NewItem DEF StartProvider, Send, Capture, Reset, BlockerSave, BeginSave, At,
              Goto, Executing, fixed, operator
<1>8. VerifyFails => Leave
  BY <1>1, ShapeFailure, ShapeStatus DEF VerifyFails, BlockerSave, BeginSave, Goto, Executing,
              fixed, operator, Statuses
<1>9. ResetCancelled \/ SaveRead \/ SaveWrite \/ ClearCycle \/ ClearCancel => Keep
  BY DEF ResetCancelled, SaveRead, SaveWrite, ClearCycle, ClearCancel, Goto, Executing, files,
         locals, operator
<1>10. Return => Leave
  BY NoHandoffShape DEF Return, ForgetLocals, Goto, Executing, files, operator
<1>11. CASE VerifyPasses
  BY <1>11 DEF VerifyPasses, At, Goto, Executing, locals, operator, HandoffsInv, ActiveTarget
<1>12. CASE SaveHandoff
  BY <1>12 DEF SaveHandoff, At, Goto, Executing, locals, operator, HandoffsInv, ActiveTarget
<1>13. QED
  BY <1>2, <1>3, <1>4, <1>5, <1>6, <1>7, <1>8, <1>9, <1>10, <1>11, <1>12, LoadHandoffs,
     CompleteHandoffs, Zenon DEF RunnerStep

LEMMA OperatorHandoffs ==
  ASSUME HandoffsInv, OperatorBegins \/ OperatorStep
  PROVE  HandoffsInv'
<1>1. HandoffShape(handoff) /\ HandoffShape(oh)
  BY DEF HandoffsInv
<1>2. UNCHANGED <<pc, h, act, verified>>
  BY Zenon DEF OperatorBegins, OperatorStep, BeginPause, BeginResume, BeginAuto, BeginEdit,
         RequestCancellation, ResyncRead, ResyncWrite, WriteMode, ClearCancellation,
         Edit, EditRefused, CountRead, CountWrite, runnerVars, locals
<1>3. OperatorBegins => UNCHANGED handoff /\ oh' \in {oh, handoff}
  BY DEF OperatorBegins, BeginPause, BeginResume, BeginAuto, BeginEdit, files
<1>4. ResyncRead \/ ResyncWrite => handoff' \in {handoff, oh} /\ oh' \in {handoff, NoHandoff}
  BY DEF ResyncRead, ResyncWrite, files
<1>5. Edit => HandoffShape(handoff') /\ oh' = NoHandoff
  BY <1>1, ShapeStatus, Zenon DEF Edit, Statuses
<1>6. RequestCancellation \/ WriteMode \/ ClearCancellation \/ EditRefused \/ CountRead \/ CountWrite
        => UNCHANGED handoff /\ oh' \in {oh, NoHandoff}
  BY DEF RequestCancellation, WriteMode, ClearCancellation, EditRefused, CountRead, CountWrite,
         Acknowledge, Proceed, Finish, files
<1>7. HandoffShape(handoff') /\ HandoffShape(oh')
  BY <1>1, <1>3, <1>4, <1>5, <1>6, NoHandoffShape DEF OperatorStep
<1>8. QED
  BY <1>2, <1>7 DEF HandoffsInv, ActiveTarget

LEMMA HandoffsStep ==
  ASSUME HandoffsInv, CompletionInv, [Next]_vars
  PROVE  HandoffsInv'
<1>1. HandoffShape(handoff)
  BY DEF HandoffsInv
<1>2. StartRun \/ Terminated \/ Crash
        => pc' \notin Executing /\ UNCHANGED <<handoff, oh, verified>> /\ h' \in {h, NoHandoff}
  BY DEF StartRun, Terminated, Crash, Ends, ForgetLocals, Goto, Executing, files, operator
<1>3. Recover
        => /\ pc' \notin Executing /\ UNCHANGED <<oh, verified, h>>
           /\ HandoffShape(handoff')
  <2>1. \A what, of : IsItem([Item(what, of) EXCEPT !.status = "BLOCKED"])
    BY DEF Item, IsItem, Statuses
  <2>2. Recover => pc' = "off" /\ UNCHANGED <<oh, verified, h>>
    BY Zenon DEF Recover, Goto, locals, operator
  <2>3. Recover => HandoffShape(handoff')
    BY <1>1, <2>1, ShapeAdd, Zenon DEF Recover
  <2>4. QED
    BY <2>2, <2>3 DEF Executing
<1>4. UNCHANGED vars => HandoffsInv'
  BY DEF vars, files, locals, operator, HandoffsInv, ActiveTarget
<1>5. StartRun \/ Terminated \/ Crash \/ Recover => HandoffsInv'
  BY <1>1, <1>2, <1>3, NoHandoffShape DEF HandoffsInv, ActiveTarget
<1>6. QED
  BY <1>4, <1>5, RunnerHandoffs, OperatorHandoffs, Zenon DEF Next, Steps

(* What a command that got this far is.                                    *)
CommandKnown ==
  /\ opc = "cancel" => cmd \in {"pause", "takeover"}
  /\ opc \in {"resync", "resyncWrite"} => cmd \in {"resume", "auto"}
  /\ opc = "mode" => cmd \in {"pause", "takeover", "resume", "auto"}

-----------------------------------------------------------------------------
(* The values of the rest: modes, phases, flags and counts.                *)
ScalarsInv ==
  /\ mode \in Modes /\ saved \in Modes /\ om \in Modes /\ acked \in Modes
  /\ CommandKnown
  /\ cycle # None => cycle.phase \in UncertainPhases \cup {"before-send"}
  /\ cancel \in BOOLEAN /\ doubt \in BOOLEAN
  /\ ran \in Nat

LEMMA InitScalars == Init => ScalarsInv
<1>1. Init => cancel \in BOOLEAN /\ doubt \in BOOLEAN /\ cycle = None
  BY Zenon DEF Init
<1>2. Init => /\ mode \in Modes /\ saved \in Modes /\ om \in Modes /\ acked \in Modes
              /\ CommandKnown /\ ran \in Nat
  BY DEF Init, CommandKnown, Modes
<1>3. QED
  BY <1>1, <1>2, Zenon DEF ScalarsInv

LEMMA RunnerScalars ==
  ASSUME ScalarsInv, RunnerStep
  PROVE  ScalarsInv'
<1>1. UNCHANGED operator
  BY RunnerAlone
<1>2. om' \in Modes /\ acked' \in Modes /\ CommandKnown'
  BY <1>1 DEF operator, ScalarsInv, CommandKnown
<1>3. mode' \in {mode, saved} /\ saved' \in {saved, mode, "AUTO"}
  BY DEF RunnerStep, DaemonPoll, LoopCancelled, LoopNext, CycleLimitExhausted, ModeGuardStops,
       ModeGuardPasses, StopInterrupted, Load, PrepareCancelled, Prepare, StartProvider, Send,
       RecordSent, Capture, CancelUncertain, CheckPasses, VerifyPasses, VerifyUnavailable,
       VerifyFails, Complete, ResetCancelled, Reset, SaveHandoff, SaveRead, SaveWrite,
       ClearCycle, ClearCancel, Return, ForgetLocals, fixed, files, locals
<1>4. cancel' \in {cancel, FALSE} /\ ran' \in {ran, ran + 1}
  BY DEF RunnerStep, DaemonPoll, LoopCancelled, LoopNext, CycleLimitExhausted, ModeGuardStops,
       ModeGuardPasses, StopInterrupted, Load, PrepareCancelled, Prepare, StartProvider, Send,
       RecordSent, Capture, CancelUncertain, CheckPasses, VerifyPasses, VerifyUnavailable,
       VerifyFails, Complete, ResetCancelled, Reset, SaveHandoff, SaveRead, SaveWrite,
       ClearCycle, ClearCancel, Return, fixed, files, locals
<1>5. \/ cycle' \in {cycle, None}
      \/ \E phase \in UncertainPhases \cup {"before-send"} : WriteCycle(phase)
  <2>1. PrepareCancelled \/ Prepare => WriteCycle("before-send")
    BY Zenon DEF PrepareCancelled, Prepare
  <2>2. RecordSent => WriteCycle("sent")
    BY Zenon DEF RecordSent
  <2>3. Capture => WriteCycle("captured") \/ UNCHANGED cycle
    BY Zenon DEF Capture
  <2>4. CheckPasses => WriteCycle("verifying")
    BY Zenon DEF CheckPasses
  <2>5. VerifyPasses => WriteCycle("completing")
    BY Zenon DEF VerifyPasses
  <2>6. ClearCycle => cycle' = None
    BY Zenon DEF ClearCycle
  <2>7. \/ PrepareCancelled \/ Prepare \/ RecordSent \/ Capture \/ CheckPasses \/ VerifyPasses
        \/ ClearCycle \/ UNCHANGED cycle
    BY Zenon DEF RunnerStep, DaemonPoll, LoopCancelled, LoopNext, CycleLimitExhausted, ModeGuardStops,
       ModeGuardPasses, StopInterrupted, Load, StartProvider, Send,
       CancelUncertain, VerifyUnavailable,
       VerifyFails, Complete, ResetCancelled, Reset, SaveHandoff, SaveRead, SaveWrite,
       ClearCancel, Return, fixed, files
  <2>8. QED
    BY <2>1, <2>2, <2>3, <2>4, <2>5, <2>6, <2>7 DEF UncertainPhases
<1>6. doubt' \in {doubt, TRUE, FALSE}
  BY DEF RunnerStep, DaemonPoll, LoopCancelled, LoopNext, CycleLimitExhausted, ModeGuardStops,
       ModeGuardPasses, StopInterrupted, Load, PrepareCancelled, Prepare, StartProvider, Send,
       RecordSent, Capture, CancelUncertain, CheckPasses, VerifyPasses, VerifyUnavailable,
       VerifyFails, Complete, ResetCancelled, Reset, SaveHandoff, SaveRead, SaveWrite,
       ClearCycle, ClearCancel, Return
<1>7. cycle' # None => cycle'.phase \in UncertainPhases \cup {"before-send"}
  BY <1>5 DEF WriteCycle, ScalarsInv
<1>8. cancel' \in BOOLEAN /\ doubt' \in BOOLEAN
  BY <1>4, <1>6, Zenon DEF ScalarsInv
<1>9. mode' \in Modes /\ saved' \in Modes /\ ran' \in Nat
  BY <1>3, <1>4 DEF ScalarsInv, Modes
<1>10. QED
  BY <1>2, <1>7, <1>8, <1>9, Zenon DEF ScalarsInv

LEMMA OperatorScalars ==
  ASSUME ScalarsInv, OperatorBegins \/ OperatorStep
  PROVE  ScalarsInv'
<1>1. UNCHANGED <<cycle, doubt, ran, saved>>
  BY Zenon DEF OperatorBegins, OperatorStep, BeginPause, BeginResume, BeginAuto, BeginEdit,
         RequestCancellation, ResyncRead, ResyncWrite, WriteMode, ClearCancellation,
         Edit, EditRefused, CountRead, CountWrite, runnerVars, files, locals
<1> DEFINE P == /\ mode' \in Modes /\ om' \in Modes /\ acked' \in Modes
                /\ CommandKnown' /\ cancel' \in BOOLEAN
<1> USE DEF ScalarsInv, CommandKnown, Modes
<1>2. BeginPause => P
  BY DEF BeginPause, Begin, OGoto, files
<1>3. BeginResume \/ BeginAuto \/ BeginEdit => P
  BY DEF BeginResume, BeginAuto, BeginEdit, Begin, OGoto, files
<1>4. RequestCancellation \/ ClearCancellation => P
  BY DEF RequestCancellation, ClearCancellation, OAt, OGoto, Acknowledge, Finish, Proceed
<1>5. ResyncRead \/ ResyncWrite => P
  BY DEF ResyncRead, ResyncWrite, OAt, OGoto, files
<1>6. WriteMode => P
  BY DEF WriteMode, VIA_TARGETS, OAt, OGoto, Acknowledge, Finish, Proceed
<1>7. Edit => P
  <2>1. Edit => opc' = "countRead" /\ UNCHANGED <<mode, cancel, cmd, om, acked>>
    BY Zenon DEF Edit, OGoto
  <2>2. QED
    BY <2>1
<1>8. EditRefused \/ CountRead \/ CountWrite => P
  BY DEF EditRefused, CountRead, CountWrite, OAt, OGoto, Finish, files
<1>9. P
  BY <1>2, <1>3, <1>4, <1>5, <1>6, <1>7, <1>8, Zenon DEF OperatorBegins, OperatorStep
<1>10. QED
  BY <1>1, <1>9

LEMMA ScalarsStep ==
  ASSUME ScalarsInv, [Next]_vars
  PROVE  ScalarsInv'
<1>1. StartRun \/ Terminated \/ Crash
        => /\ UNCHANGED <<mode, cycle, cancel, opc, cmd, om, acked, doubt>>
           /\ saved' \in {saved, "AUTO"} /\ ran' = 0
  BY DEF StartRun, Terminated, Crash, Ends, ForgetLocals, files, operator
<1>2. Recover
        => /\ UNCHANGED <<mode, cancel, opc, cmd, om, acked, saved, ran>>
           /\ cycle' = None /\ doubt' \in BOOLEAN
  BY Zenon DEF Recover, locals, operator
<1>3. UNCHANGED vars => ScalarsInv'
  BY DEF vars, files, locals, operator, ScalarsInv, CommandKnown
<1>4. StartRun \/ Terminated \/ Crash \/ Recover => ScalarsInv'
  BY <1>1, <1>2 DEF ScalarsInv, CommandKnown, Modes
<1>5. QED
  BY <1>3, <1>4, RunnerScalars, OperatorScalars, Zenon DEF Next, Steps

(* Every variable keeps the values the code writes, for every mix of       *)
(* commands, crashes and recoveries.                                       *)
THEOREM TypeCorrect == Spec => []TypeOK
<1>1. HandoffsInv /\ ScalarsInv => TypeOK
  BY ShapeOK DEF HandoffsInv, ScalarsInv, TypeOK
<1>2. Init => HandoffsInv /\ ScalarsInv /\ CompletionInv
  BY InitHandoffs, InitScalars, InitCompletion
<1>3. HandoffsInv /\ ScalarsInv /\ CompletionInv /\ [Next]_vars
        => (HandoffsInv /\ ScalarsInv /\ CompletionInv)'
  BY HandoffsStep, ScalarsStep, CompletionStep
<1>4. QED
  BY <1>1, <1>2, <1>3, PTL DEF Spec

-----------------------------------------------------------------------------
(* Without the commands that write the handoff (item edits, and resumes    *)
(* that resynchronize) only the runner and recovery write it, and what the *)
(* runner is about to save has grown from what it loaded.                  *)
Unedited ==
  Commands \cap {"auto", "edit"} = {} /\ ("resume" \in Commands => ~Daemon)

Grows(old, new) ==
  Len(old.items) <= Len(new.items) /\ old.completed \subseteq new.completed

OnlyRunnerWrites == opc \notin {"resync", "resyncWrite", "edit"}

HeldHasGrown == pc \in Executing \cup {"reset", "save"} => Grows(handoff, h)

GrowthInv == OnlyRunnerWrites /\ HeldHasGrown

LEMMA ShapeLength ==
  ASSUME NEW hh, HandoffShape(hh)
  PROVE  Len(hh.items) \in Nat
BY DEF HandoffShape, ItemList

LEMMA GrowsSame ==
  ASSUME NEW hh, HandoffShape(hh)
  PROVE  Grows(hh, hh)
BY ShapeLength DEF Grows

LEMMA GrowsTwice ==
  ASSUME NEW a, NEW b, NEW c, HandoffShape(a), HandoffShape(b), HandoffShape(c),
         Grows(a, b), Grows(b, c)
  PROVE  Grows(a, c)
BY ShapeLength DEF Grows

LEMMA AddGrows ==
  ASSUME NEW hh, HandoffShape(hh), NEW x
  PROVE  Grows(hh, AddItem(hh, x))
<1>1. PICK S : hh.items \in Seq(S)
  BY DEF HandoffShape, ItemList
<1>2. Len(Append(hh.items, x)) = Len(hh.items) + 1 /\ Len(hh.items) \in Nat
  BY <1>1
<1>3. AddItem(hh, x).items = Append(hh.items, x) /\ AddItem(hh, x).completed = hh.completed
  BY DEF AddItem, HandoffShape, IsHandoff
<1>4. QED
  BY <1>2, <1>3 DEF Grows

LEMMA UpdateGrows ==
  ASSUME NEW hh, HandoffShape(hh), NEW i, NEW new
  PROVE  Grows(hh, [hh EXCEPT !.items = [hh.items EXCEPT ![i] = new]])
<1>1. PICK S : hh.items \in Seq(S)
  BY DEF HandoffShape, ItemList
<1>2. Len([hh.items EXCEPT ![i] = new]) = Len(hh.items)
  BY <1>1
<1>3. QED
  BY <1>2, ShapeLength DEF Grows, HandoffShape, IsHandoff

LEMMA StatusGrows ==
  ASSUME NEW hh, HandoffShape(hh), NEW i, NEW status
  PROVE  Grows(hh, SetStatus(hh, i, status))
<1>1. SetStatus(hh, i, status)
        = [hh EXCEPT !.items = [hh.items EXCEPT ![i] = [hh.items[i] EXCEPT !.status = status]]]
  BY DEF SetStatus, HandoffShape, IsHandoff
<1>2. QED
  BY <1>1, UpdateGrows

LEMMA EnsureGrows ==
  ASSUME NEW hh, HandoffShape(hh), NEW of
  PROVE  Grows(hh, EnsureBlockerOnce(hh, of))
BY AddGrows, GrowsSame DEF EnsureBlockerOnce

LEMMA FailureGrows ==
  ASSUME NEW hh, HandoffShape(hh), NEW a
  PROVE  Grows(hh, WithFailure(hh, a))
<1> DEFINE i    == FailureIndex(hh, a)
           base == IF i \in ItemsOf(hh) THEN hh ELSE AddItem(hh, Item(a.kind, a.target))
           new  == [base.items[i] EXCEPT !.attempts = @ + 1]
           last == [base EXCEPT !.items = [base.items EXCEPT ![i] = new]]
<1>1. HandoffShape(base) /\ Grows(hh, base)
  BY ShapeAdd, AddGrows, GrowsSame, NewItem
<1> HIDE DEF i, base
<1>2. WithFailure(hh, a) = last
  BY <1>1 DEF HandoffShape, IsHandoff, WithFailure, i, base
<1>3. Grows(base, last)
  BY <1>1, UpdateGrows
<1>4. QED
  BY <1>1, <1>2, <1>3, ShapeFailure, GrowsTwice

LEMMA CompletionGrows ==
  ASSUME NEW hh, HandoffShape(hh), NEW a, a.kind \in {"resolve-issue", "advance-spec", "start-spec"}
  PROVE  Grows(hh, ApplyCompletion(hh, a))
<1>1. CASE a.kind = "resolve-issue"
  BY <1>1, StatusGrows DEF ApplyCompletion
<1>2. CASE a.kind \in {"advance-spec", "start-spec"}
  <2>1. /\ ApplyCompletion(hh, a).items = hh.items
        /\ hh.completed \subseteq ApplyCompletion(hh, a).completed
    BY <1>2 DEF ApplyCompletion, HandoffShape, IsHandoff
  <2>2. QED
    BY <2>1, ShapeLength DEF Grows
<1>3. QED
  BY <1>1, <1>2

LEMMA InitGrowth == Init => GrowthInv
BY DEF Init, GrowthInv, OnlyRunnerWrites, HeldHasGrown, Executing

LEMMA OnlyRunnerWritesStep ==
  ASSUME Unedited, OnlyRunnerWrites, [Next]_vars
  PROVE  OnlyRunnerWrites'
<1> USE DEF OnlyRunnerWrites
<1>1. OperatorBegins => OnlyRunnerWrites'
  BY DEF Unedited, OperatorBegins, BeginPause, BeginResume, BeginAuto, BeginEdit, Begin, OGoto
<1>2. OperatorStep => OnlyRunnerWrites'
  BY DEF OperatorStep, RequestCancellation, ResyncRead, ResyncWrite, WriteMode, ClearCancellation,
         Edit, EditRefused, CountRead, CountWrite, Acknowledge, Proceed, Finish, OGoto, OAt
<1>3. StartRun \/ Terminated \/ Crash \/ Recover => UNCHANGED opc
  BY Zenon DEF StartRun, Terminated, Crash, Ends, Recover, operator
<1>4. UNCHANGED vars => UNCHANGED opc
  BY DEF vars, operator
<1>5. RunnerStep => UNCHANGED opc
  BY RunnerAlone DEF operator
<1>6. QED
  BY <1>1, <1>2, <1>3, <1>4, <1>5 DEF Next, Steps

LEMMA RunnerGrowth ==
  ASSUME HandoffsInv, CompletionInv, HeldHasGrown, RunnerStep
  PROVE  HeldHasGrown' /\ Grows(handoff, handoff')
<1>1. HandoffShape(handoff) /\ HandoffShape(h) /\ Grows(handoff, handoff)
  BY GrowsSame DEF HandoffsInv
<1> DEFINE Working == Executing \cup {"reset", "save"}
           Stays  == UNCHANGED <<handoff, h>> /\ (pc' \in Working => pc \in Working)
           Loads  == UNCHANGED handoff /\ Grows(handoff, h')
           Works  == UNCHANGED handoff /\ pc \in Working /\ HandoffShape(h') /\ Grows(h, h')
           Leaves == UNCHANGED handoff /\ pc' \notin Working
<1>2. Stays \/ Loads \/ Leaves => HeldHasGrown' /\ Grows(handoff, handoff')
  BY <1>1 DEF HeldHasGrown, Grows
<1>3. Works => HeldHasGrown' /\ Grows(handoff, handoff')
  <2>1. Works => Grows(handoff, h')
    BY <1>1, GrowsTwice DEF HeldHasGrown
  <2>2. QED
    BY <1>1, <2>1 DEF HeldHasGrown, Grows
<1>4. \A what : HandoffShape(AddItem(h, Item(what, act)))
  BY <1>1, ShapeAdd, NewItem
<1>5. DaemonPoll \/ LoopNext \/ ModeGuardStops \/ ModeGuardPasses \/ StopInterrupted => Leaves
  BY DEF DaemonPoll, LoopNext, ModeGuardStops, ModeGuardPasses, StopInterrupted, StopUnlisted,
         Goto, Executing, files
<1>6. LoopCancelled \/ CycleLimitExhausted => Loads
  BY <1>1 DEF LoopCancelled, CycleLimitExhausted, BeginSave, files
<1>7. Load => Loads
  BY <1>1, AddGrows, EnsureGrows, Zenon DEF Load, BlockerSave, BeginSave, files
<1>8. Prepare \/ RecordSent \/ CheckPasses \/ VerifyPasses => Stays
  BY DEF Prepare, RecordSent, CheckPasses, VerifyPasses, At, Goto, Executing, fixed, locals
<1>9. PrepareCancelled \/ CancelUncertain \/ VerifyUnavailable => Stays
  BY DEF PrepareCancelled, CancelUncertain, VerifyUnavailable, BeginSave, At, Goto, Executing, fixed
<1>10. StartProvider \/ Send \/ Capture \/ Reset => Stays \/ Works
  BY <1>1, <1>4, AddGrows DEF StartProvider, Send, Capture, Reset, BlockerSave, BeginSave, At,
         Goto, Executing, fixed
<1>11. VerifyFails => Works
  <2>1. VerifyFails => pc = "verify" /\ UNCHANGED handoff
    BY Zenon DEF VerifyFails, At, fixed
  <2>2. VerifyFails => h' = WithFailure(h, act)
                         \/ h' = SetStatus(WithFailure(h, act), FailureIndex(h, act), "BLOCKED")
    BY Zenon DEF VerifyFails, BlockerSave, BeginSave
  <2>3. HandoffShape(WithFailure(h, act)) /\ Grows(h, WithFailure(h, act))
    BY <1>1, ShapeFailure, FailureGrows
  <2>4. LET new == SetStatus(WithFailure(h, act), FailureIndex(h, act), "BLOCKED")
        IN  HandoffShape(new) /\ Grows(h, new)
    BY <1>1, <2>3, ShapeStatus, StatusGrows, GrowsTwice DEF Statuses
  <2>5. QED
    BY <2>1, <2>2, <2>3, <2>4 DEF Executing
<1>12. Complete => Works
  <2>1. Complete => pc = "complete" /\ UNCHANGED handoff /\ h' = ApplyCompletion(h, act)
    BY Zenon DEF Complete, At, files
  <2>2. Complete => HandoffShape(h')
    BY CompleteHandoffs DEF HandoffsInv
  <2>3. pc = "complete" => act.kind \in {"resolve-issue", "advance-spec", "start-spec"}
    BY DEF CompletionInv, Kinds, Executing
  <2>4. QED
    BY <1>1, <2>1, <2>2, <2>3, CompletionGrows DEF Executing
<1>13. ResetCancelled => Stays
  BY DEF ResetCancelled, At, Goto, Executing, locals
<1>14. SaveRead \/ SaveWrite \/ ClearCycle \/ ClearCancel \/ Return => Leaves
  BY DEF SaveRead, SaveWrite, ClearCycle, ClearCancel, Return, Goto, Executing, files
<1>15. CASE SaveHandoff
  <2>1. pc = "save" /\ pc' = "saveRead" /\ handoff' = h
    BY <1>15 DEF SaveHandoff, At, Goto
  <2>2. QED
    BY <2>1 DEF HeldHasGrown, Executing
<1>16. QED
  BY <1>2, <1>3, <1>5, <1>6, <1>7, <1>8, <1>9, <1>10, <1>11, <1>12, <1>13, <1>14, <1>15, Zenon
     DEF RunnerStep

LEMMA GrowthStep ==
  ASSUME Unedited, HandoffsInv, CompletionInv, GrowthInv, [Next]_vars
  PROVE  GrowthInv' /\ Grows(handoff, handoff')
<1>1. HandoffShape(handoff) /\ Grows(handoff, handoff)
  BY GrowsSame DEF HandoffsInv
<1>2. StartRun \/ Terminated \/ Crash
        => pc' \in {"top", "off", "crashed"} /\ UNCHANGED handoff
  BY DEF StartRun, Terminated, Crash, Ends, Goto, files
<1>3. Recover => pc' = "off" /\ Grows(handoff, handoff')
  BY <1>1, AddGrows, Zenon DEF Recover, Goto
<1>4. OperatorBegins \/ OperatorStep => UNCHANGED <<pc, h, handoff>>
  <2>1. OperatorBegins \/ OperatorStep => UNCHANGED <<pc, h>>
    BY Zenon DEF OperatorBegins, OperatorStep, BeginPause, BeginResume, BeginAuto, BeginEdit,
         RequestCancellation, ResyncRead, ResyncWrite, WriteMode, ClearCancellation,
         Edit, EditRefused, CountRead, CountWrite, runnerVars, locals
  <2>2. OperatorBegins => UNCHANGED handoff
    BY Zenon DEF OperatorBegins, BeginPause, BeginResume, BeginAuto, BeginEdit, files
  <2>3. ~ResyncWrite /\ ~Edit
    BY Zenon DEF GrowthInv, OnlyRunnerWrites, ResyncWrite, Edit, OAt
  <2>4. OperatorStep => UNCHANGED handoff
    BY <2>3, Zenon DEF OperatorStep, RequestCancellation, ResyncRead, WriteMode,
         ClearCancellation, EditRefused, CountRead, CountWrite, files
  <2>5. QED
    BY <2>1, <2>2, <2>4
<1>5. UNCHANGED vars => UNCHANGED <<pc, h, handoff>>
  BY Zenon DEF vars, files, locals
<1>6. HeldHasGrown' /\ Grows(handoff, handoff')
  <2>1. UNCHANGED <<pc, h, handoff>> => HeldHasGrown' /\ Grows(handoff, handoff')
    BY <1>1 DEF GrowthInv, HeldHasGrown, Grows
  <2>2. pc' \in {"top", "off", "crashed"} => HeldHasGrown'
    BY DEF HeldHasGrown, Executing
  <2>3. QED
    BY <1>1, <1>2, <1>3, <1>4, <1>5, <2>1, <2>2, RunnerGrowth DEF GrowthInv, Next, Steps
<1>7. QED
  BY <1>6, OnlyRunnerWritesStep DEF GrowthInv

(* Where no command writes the handoff, items and completions never        *)
(* disappear from it, through retries, blocks, crashes and recoveries.     *)
THEOREM HandoffGrows == Unedited => (Spec => NothingDisappears)
<1>1. SUFFICES ASSUME Unedited PROVE Spec => NothingDisappears
  OBVIOUS
<1> DEFINE Inv == GrowthInv /\ HandoffsInv /\ CompletionInv
<1>2. Init => Inv
  BY InitGrowth, InitHandoffs, InitCompletion
<1>3. Inv /\ [Next]_vars => Inv'
  BY <1>1, GrowthStep, HandoffsStep, CompletionStep
<1>4. Inv /\ [Next]_vars
        => [/\ Len(handoff'.items) >= Len(handoff.items)
            /\ handoff.completed \subseteq handoff'.completed]_vars
  <2>1. SUFFICES ASSUME Inv, [Next]_vars
                 PROVE  /\ Len(handoff'.items) >= Len(handoff.items)
                        /\ handoff.completed \subseteq handoff'.completed
    OBVIOUS
  <2>2. Grows(handoff, handoff') /\ HandoffsInv'
    BY <1>1, <2>1, GrowthStep, HandoffsStep
  <2>3. Len(handoff.items) \in Nat /\ Len(handoff'.items) \in Nat
    BY <2>1, <2>2, ShapeLength DEF HandoffsInv
  <2>4. QED
    BY <2>2, <2>3 DEF Grows
<1>5. QED
  BY <1>2, <1>3, <1>4, PTL DEF Spec, NothingDisappears

-----------------------------------------------------------------------------
(* Under stop-on-blocker, and without edits, which may reopen an exhausted *)
(* item, an item that is tried is an open one with attempts left: the      *)
(* failure that takes the last of them blocks it.                          *)
Unreopened == StopOnBlocker /\ "edit" \notin Commands

InBound(x) ==
  x.attempts <= RetryLimit + 1 /\ (x.status = "OPEN" => AttemptsLeft(x.attempts))

WithinBound(hh) == \A i \in ItemsOf(hh) : InBound(hh.items[i])

TriesOpenItem ==
  pc \in Executing /\ act.kind = "resolve-issue"
    => act.target \in ItemsOf(h) /\ h.items[act.target].status = "OPEN"

RetryInv ==
  /\ WithinBound(handoff) /\ WithinBound(h) /\ WithinBound(oh)
  /\ TriesOpenItem
  /\ opc # "edit"

LEMMA FirstOf ==
  ASSUME NEW S \in SUBSET Nat, S # {}
  PROVE  (CHOOSE i \in S : \A j \in S : i <= j) \in S
<1>1. PICK m \in S : \A n \in S : <<n, m>> \notin OpToRel(<, Nat)
  BY NatLessThanWellFounded, WFMin, Zenon
<1>2. ASSUME NEW n \in S
      PROVE  m <= n
  <2>1. ASSUME n < m PROVE <<n, m>> \in OpToRel(<, Nat)
    <3>1. <<n, m>> \in Nat \X Nat /\ <<n, m>>[1] < <<n, m>>[2]
      BY <2>1
    <3>2. QED
      BY <3>1, Zenon DEF OpToRel
  <2>2. ~(n < m)
    BY <1>1, <2>1
  <2>3. QED
    BY <2>2
<1>3. QED
  BY <1>2

LEMMA ShapeIndices ==
  ASSUME NEW hh, HandoffShape(hh)
  PROVE  ItemsOf(hh) \subseteq Nat
BY DEF HandoffShape, ItemList, ItemsOf

LEMMA AddBound ==
  ASSUME NEW hh, HandoffShape(hh), WithinBound(hh), NEW x, InBound(x)
  PROVE  WithinBound(AddItem(hh, x))
<1>1. PICK S : hh.items \in Seq(S)
  BY DEF HandoffShape, ItemList
<1>2. AddItem(hh, x).items = Append(hh.items, x)
  BY DEF AddItem, HandoffShape, IsHandoff
<1>3. \A i \in DOMAIN Append(hh.items, x) :
        \/ i \in DOMAIN hh.items /\ Append(hh.items, x)[i] = hh.items[i]
        \/ Append(hh.items, x)[i] = x
  BY <1>1
<1>4. QED
  BY <1>2, <1>3, Zenon DEF WithinBound, ItemsOf

LEMMA UpdateItems ==
  ASSUME NEW hh, HandoffShape(hh), NEW i, NEW new
  PROVE  LET next == [hh EXCEPT !.items = [hh.items EXCEPT ![i] = new]]
         IN  /\ ItemsOf(next) = ItemsOf(hh)
             /\ \A j \in ItemsOf(hh) : next.items[j] = IF j = i THEN new ELSE hh.items[j]
BY DEF HandoffShape, IsHandoff, ItemsOf

LEMMA NewInBound == \A what, of : InBound(Item(what, of))
BY BoundsAssumption DEF Item, InBound, AttemptsLeft

LEMMA StatusBound ==
  ASSUME NEW hh, HandoffShape(hh), NEW i, NEW status, status # "OPEN",
         \A j \in ItemsOf(hh) : IF j = i THEN hh.items[j].attempts <= RetryLimit + 1
                                         ELSE InBound(hh.items[j])
  PROVE  WithinBound(SetStatus(hh, i, status))
<1> DEFINE new == [hh.items[i] EXCEPT !.status = status]
<1>1. SetStatus(hh, i, status) = [hh EXCEPT !.items = [hh.items EXCEPT ![i] = new]]
  BY DEF SetStatus, HandoffShape, IsHandoff
<1>2. i \in ItemsOf(hh) => IsItem(hh.items[i])
  BY ListElement DEF HandoffShape, ItemsOf
<1>3. i \in ItemsOf(hh) => new.status = status /\ new.attempts = hh.items[i].attempts
  BY <1>2 DEF IsItem
<1> HIDE DEF new
<1>4. i \in ItemsOf(hh) => InBound(new)
  BY <1>3 DEF InBound
<1>5. QED
  BY <1>1, <1>4, UpdateItems DEF WithinBound

LEMMA EnsureBound ==
  ASSUME NEW hh, HandoffShape(hh), WithinBound(hh), NEW of
  PROVE  WithinBound(EnsureBlockerOnce(hh, of))
BY AddBound, NewInBound DEF EnsureBlockerOnce

(* The failure of an action counts on an open item or on a new one.        *)
LEMMA FailureCountsOnOpen ==
  ASSUME NEW hh, HandoffShape(hh), NEW a,
         a.kind = "resolve-issue" => a.target \in ItemsOf(hh) /\ hh.items[a.target].status = "OPEN",
         FailureIndex(hh, a) \in ItemsOf(hh)
  PROVE  hh.items[FailureIndex(hh, a)].status = "OPEN"
<1> DEFINE S == FailureMatches(hh, a)
<1>1. CASE S = {}
  <2>1. PICK T : hh.items \in Seq(T)
    BY DEF HandoffShape, ItemList
  <2>2. Len(hh.items) + 1 \notin ItemsOf(hh)
    BY <2>1 DEF ItemsOf
  <2>3. QED
    BY <1>1, <2>2 DEF FailureIndex
<1>2. CASE S # {} /\ a.kind = "resolve-issue"
  <2>1. FailureIndex(hh, a) = CHOOSE i \in {a.target} : \A j \in {a.target} : i <= j
    BY <1>2 DEF FailureIndex, FailureMatches
  <2>2. a.target \in Nat
    BY <1>2, ShapeIndices
  <2>3. FailureIndex(hh, a) = a.target
    BY <2>1, <2>2
  <2>4. QED
    BY <1>2, <2>3
<1>3. CASE S # {} /\ a.kind # "resolve-issue"
  <2>1. S = {i \in ItemsOf(hh) : /\ hh.items[i].what = a.kind /\ hh.items[i].of = a.target
                                 /\ hh.items[i].status = "OPEN"}
    BY <1>3 DEF FailureMatches
  <2>2. S \in SUBSET Nat
    BY <2>1, ShapeIndices
  <2>3. FailureIndex(hh, a) = CHOOSE i \in S : \A j \in S : i <= j
    BY <1>3 DEF FailureIndex
  <2> HIDE DEF S
  <2>4. FailureIndex(hh, a) \in S
    BY <1>3, <2>2, <2>3, FirstOf
  <2>5. QED
    BY <2>1, <2>4
<1>4. QED
  BY <1>1, <1>2, <1>3

(* So it takes one attempt at most beyond the limit, on that item alone.   *)
LEMMA FailureBound ==
  ASSUME NEW hh, HandoffShape(hh), WithinBound(hh), NEW a,
         a.kind = "resolve-issue" => a.target \in ItemsOf(hh) /\ hh.items[a.target].status = "OPEN"
  PROVE  LET failed == WithFailure(hh, a)
         IN  \A j \in ItemsOf(failed) :
               IF j = FailureIndex(hh, a) THEN failed.items[j].attempts <= RetryLimit + 1
                                          ELSE InBound(failed.items[j])
<1> DEFINE i    == FailureIndex(hh, a)
           base == IF i \in ItemsOf(hh) THEN hh ELSE AddItem(hh, Item(a.kind, a.target))
           new  == [base.items[i] EXCEPT !.attempts = @ + 1]
           last == [base EXCEPT !.items = [base.items EXCEPT ![i] = new]]
<1>1. HandoffShape(base) /\ WithinBound(base)
  BY ShapeAdd, AddBound, NewItem, NewInBound
<1>2. i \in ItemsOf(base) => base.items[i].status = "OPEN"
  <2>1. CASE i \in ItemsOf(hh)
    BY <2>1, FailureCountsOnOpen
  <2>2. CASE i \notin ItemsOf(hh)
    <3>1. PICK S : hh.items \in Seq(S)
      BY DEF HandoffShape, ItemList
    <3>2. base.items = Append(hh.items, Item(a.kind, a.target))
      BY <2>2 DEF AddItem, HandoffShape, IsHandoff
    <3> HIDE DEF base, i
    <3>3. i \in DOMAIN base.items => base.items[i] = Item(a.kind, a.target)
      BY <2>2, <3>1, <3>2 DEF ItemsOf
    <3>4. QED
      BY <3>3 DEF Item, ItemsOf
  <2>3. QED
    BY <2>1, <2>2
<1> HIDE DEF i, base
<1>3. WithFailure(hh, a) = last
  BY <1>1 DEF HandoffShape, IsHandoff, WithFailure, i, base
<1>4. i \in ItemsOf(base) => new.attempts <= RetryLimit + 1
  <2>1. SUFFICES ASSUME i \in ItemsOf(base) PROVE new.attempts <= RetryLimit + 1
    OBVIOUS
  <2>2. IsItem(base.items[i]) /\ base.items[i].attempts <= RetryLimit
    BY <1>1, <1>2, <2>1, ListElement DEF HandoffShape, ItemsOf, WithinBound, InBound, AttemptsLeft
  <2>3. new.attempts = base.items[i].attempts + 1
    BY <2>2 DEF IsItem
  <2>4. QED
    BY <2>2, <2>3, BoundsAssumption DEF IsItem
<1>5. QED
  <2>1. /\ ItemsOf(last) = ItemsOf(base)
        /\ \A j \in ItemsOf(base) : last.items[j] = IF j = i THEN new ELSE base.items[j]
    BY <1>1 DEF HandoffShape, IsHandoff, ItemsOf
  <2> HIDE DEF last, new
  <2>2. QED
    BY <1>1, <1>3, <1>4, <2>1 DEF WithinBound, i

(* What a cycle decides to resolve is an open item with attempts left.     *)
LEMMA ChosenIsOpen ==
  ASSUME NEW hh, HandoffShape(hh), NEW a \in NextActions(hh), a.kind = "resolve-issue"
  PROVE  a.target \in ItemsOf(hh) /\ hh.items[a.target].status = "OPEN"
<1> USE DEF ActionOf
<1>1. CASE Actionable(hh) # {}
  <2>1. Actionable(hh) \in SUBSET Nat
    BY ShapeIndices DEF Actionable
  <2>2. a.target = CHOOSE i \in Actionable(hh) : \A j \in Actionable(hh) : i <= j
    BY <1>1 DEF NextActions
  <2>3. a.target \in Actionable(hh)
    BY <1>1, <2>1, <2>2, FirstOf
  <2>4. QED
    BY <2>3 DEF Actionable
<1>2. CASE Actionable(hh) = {} /\ (Malformed # {} \/ Specs = {})
  BY <1>2 DEF NextActions
<1>3. CASE Actionable(hh) = {} /\ Malformed = {} /\ Specs # {}
  BY <1>3 DEF NextActions, Explicit
<1>4. QED
  BY <1>1, <1>2, <1>3

LEMMA NoHandoffBound == WithinBound(NoHandoff)
BY DEF WithinBound, NoHandoff, ItemsOf

LEMMA InitRetry == Init => RetryInv
<1>1. Init => WithinBound(handoff)
  BY DEF Init, WithinBound, ItemsOf
<1>2. QED
  BY <1>1, NoHandoffBound DEF Init, RetryInv, TriesOpenItem, Executing

LEMMA LoadRetry ==
  ASSUME HandoffsInv, RetryInv, Load
  PROVE  RetryInv'
<1>1. HandoffShape(handoff) /\ WithinBound(handoff) /\ UNCHANGED <<handoff, oh, opc>>
  BY Zenon DEF HandoffsInv, RetryInv, Load, files, operator
<1>2. \/ pc' = "save" /\ WithinBound(h')
      \/ act' \in NextActions(handoff) /\ h' = handoff /\ pc' = "prepare"
  BY <1>1, AddBound, EnsureBound, NewInBound, Zenon DEF Load, BlockerSave, BeginSave, Goto
<1>3. WithinBound(h')
  BY <1>1, <1>2
<1>4. TriesOpenItem'
  <2>1. CASE pc' = "save"
    BY <2>1 DEF TriesOpenItem, Executing
  <2>2. CASE act' \in NextActions(handoff) /\ h' = handoff /\ pc' = "prepare"
    BY <1>1, <2>2, ChosenIsOpen DEF TriesOpenItem
  <2>3. QED
    BY <1>2, <2>1, <2>2
<1>5. QED
  BY <1>1, <1>3, <1>4 DEF RetryInv, WithinBound, ItemsOf

LEMMA VerifyFailsRetry ==
  ASSUME StopOnBlocker, HandoffsInv, RetryInv, VerifyFails
  PROVE  WithinBound(h')
<1> DEFINE failed == WithFailure(h, act)
           i      == FailureIndex(h, act)
<1>1. /\ HandoffShape(h) /\ WithinBound(h)
      /\ act.kind = "resolve-issue" => act.target \in ItemsOf(h) /\ h.items[act.target].status = "OPEN"
  BY DEF HandoffsInv, RetryInv, TriesOpenItem, VerifyFails, At, Executing
<1>2. HandoffShape(failed)
  BY <1>1, ShapeFailure
<1>3. \A j \in ItemsOf(failed) : IF j = i THEN failed.items[j].attempts <= RetryLimit + 1
                                          ELSE InBound(failed.items[j])
  BY <1>1, FailureBound
<1>4. \/ AttemptsLeft(failed.items[i].attempts) /\ h' = failed
      \/ h' = SetStatus(failed, i, "BLOCKED")
  BY Zenon DEF VerifyFails, BlockerSave, BeginSave
<1> HIDE DEF failed, i
<1>5. CASE AttemptsLeft(failed.items[i].attempts) /\ h' = failed
  BY <1>3, <1>5 DEF WithinBound, InBound
<1>6. CASE h' = SetStatus(failed, i, "BLOCKED")
  BY <1>2, <1>3, <1>6, StatusBound
<1>7. QED
  BY <1>4, <1>5, <1>6

LEMMA CompleteRetry ==
  ASSUME HandoffsInv, CompletionInv, RetryInv, Complete
  PROVE  WithinBound(h')
<1>1. HandoffShape(h) /\ WithinBound(h) /\ h' = ApplyCompletion(h, act)
  BY DEF HandoffsInv, RetryInv, Complete
<1>2. act.kind \in {"resolve-issue", "advance-spec", "start-spec"}
  BY DEF CompletionInv, Kinds, Complete, At, Executing
<1>3. CASE act.kind = "resolve-issue"
  <2>1. \A j \in ItemsOf(h) : IF j = act.target THEN h.items[j].attempts <= RetryLimit + 1
                                                ELSE InBound(h.items[j])
    BY <1>1 DEF WithinBound, InBound
  <2>2. WithinBound(SetStatus(h, act.target, "RESOLVED"))
    BY <1>1, <2>1, StatusBound
  <2>3. QED
    BY <1>1, <1>3, <2>2 DEF ApplyCompletion
<1>4. CASE act.kind \in {"advance-spec", "start-spec"}
  <2>1. h'.items = h.items
    BY <1>1, <1>4 DEF ApplyCompletion, HandoffShape, IsHandoff
  <2>2. QED
    BY <1>1, <2>1 DEF WithinBound, ItemsOf
<1>5. QED
  BY <1>2, <1>3, <1>4

LEMMA RunnerRetry ==
  ASSUME StopOnBlocker, HandoffsInv, CompletionInv, RetryInv, RunnerStep
  PROVE  RetryInv'
<1>1. HandoffShape(h) /\ WithinBound(handoff) /\ WithinBound(h)
  BY DEF HandoffsInv, RetryInv
<1> DEFINE Keep  == UNCHANGED <<handoff, h, oh, opc, act>> /\ (pc' \in Executing => pc \in Executing)
           Leave == UNCHANGED <<handoff, oh, opc>> /\ WithinBound(h') /\ pc' \notin Executing
<1>2. Keep \/ Leave => RetryInv'
  BY DEF RetryInv, TriesOpenItem, WithinBound, ItemsOf
<1>3. DaemonPoll \/ LoopNext \/ ModeGuardStops \/ ModeGuardPasses \/ StopInterrupted => Keep
  BY DEF DaemonPoll, LoopNext, ModeGuardStops, ModeGuardPasses, StopInterrupted, StopUnlisted,
         Goto, Executing, files, locals, operator
<1>4. LoopCancelled \/ CycleLimitExhausted => Leave
  BY <1>1 DEF LoopCancelled, CycleLimitExhausted, BeginSave, Goto, Executing, files, operator
<1>5. Prepare \/ RecordSent \/ CheckPasses => Keep
  BY DEF Prepare, RecordSent, CheckPasses, At, Goto, Executing, fixed, operator
<1>6. PrepareCancelled \/ CancelUncertain \/ VerifyUnavailable => Leave
  BY <1>1 DEF PrepareCancelled, CancelUncertain, VerifyUnavailable, BeginSave, Goto, Executing,
              fixed, operator
<1>7. StartProvider \/ Send \/ Capture \/ Reset => Keep \/ Leave
  BY <1>1, AddBound, NewInBound DEF StartProvider, Send, Capture, Reset, BlockerSave, BeginSave, At,
              Goto, Executing, fixed, operator
<1>8. VerifyPasses => Keep
  BY DEF VerifyPasses, At, Goto, Executing, locals, operator
<1>9. VerifyFails => Leave
  <2>1. VerifyFails => UNCHANGED <<handoff, oh, opc>> /\ pc' = "save"
    BY DEF VerifyFails, BlockerSave, BeginSave, Goto, fixed, operator
  <2>2. QED
    BY <2>1, VerifyFailsRetry DEF Executing
<1>10. Complete => Leave
  <2>1. Complete => UNCHANGED <<handoff, oh, opc>> /\ pc' \in {"reset", "save"}
    BY DEF Complete, Goto, files, operator
  <2>2. QED
    BY <2>1, CompleteRetry DEF Executing
<1>11. ResetCancelled \/ SaveRead \/ SaveWrite \/ ClearCycle \/ ClearCancel => Keep
  BY DEF ResetCancelled, SaveRead, SaveWrite, ClearCycle, ClearCancel, Goto, Executing, files,
         locals, operator
<1>12. Return => Leave
  BY NoHandoffBound DEF Return, ForgetLocals, Goto, Executing, files, operator
<1>13. CASE SaveHandoff
  <2>1. handoff' = h /\ UNCHANGED <<h, oh, opc>> /\ pc' = "saveRead"
    BY <1>13 DEF SaveHandoff, Goto, locals, operator
  <2>2. QED
    BY <1>1, <2>1 DEF RetryInv, TriesOpenItem, Executing, WithinBound, ItemsOf
<1>14. QED
  BY <1>2, <1>3, <1>4, <1>5, <1>6, <1>7, <1>8, <1>9, <1>10, <1>11, <1>12, <1>13, LoadRetry, Zenon
     DEF RunnerStep

LEMMA OperatorRetry ==
  ASSUME "edit" \notin Commands, RetryInv, OperatorBegins \/ OperatorStep
  PROVE  RetryInv'
<1>1. UNCHANGED <<pc, h, act>>
  BY Zenon DEF OperatorBegins, OperatorStep, BeginPause, BeginResume, BeginAuto, BeginEdit,
         RequestCancellation, ResyncRead, ResyncWrite, WriteMode, ClearCancellation,
         Edit, EditRefused, CountRead, CountWrite, runnerVars, locals
<1>2. OperatorBegins => UNCHANGED <<handoff, oh>> /\ opc' # "edit"
  BY DEF OperatorBegins, BeginPause, BeginResume, BeginAuto, BeginEdit, Begin, OGoto, files
<1>3. OperatorStep => handoff' \in {handoff, oh} /\ oh' \in {oh, handoff, NoHandoff} /\ opc' # "edit"
  BY DEF RetryInv, OperatorStep, RequestCancellation, ResyncRead, ResyncWrite, WriteMode,
         ClearCancellation, Edit, EditRefused, CountRead, CountWrite, Acknowledge, Proceed,
         Finish, OGoto, OAt, files
<1>4. WithinBound(handoff') /\ WithinBound(oh') /\ opc' # "edit"
  BY <1>2, <1>3, NoHandoffBound DEF RetryInv
<1>5. QED
  BY <1>1, <1>4 DEF RetryInv, TriesOpenItem, WithinBound, ItemsOf

LEMMA RetryStep ==
  ASSUME Unreopened, HandoffsInv, CompletionInv, RetryInv, [Next]_vars
  PROVE  RetryInv'
<1>1. HandoffShape(handoff) /\ WithinBound(handoff)
  BY DEF HandoffsInv, RetryInv
<1>2. StartRun \/ Terminated \/ Crash
        => pc' \notin Executing /\ UNCHANGED <<handoff, oh, opc>> /\ h' \in {h, NoHandoff}
  BY DEF StartRun, Terminated, Crash, Ends, ForgetLocals, Goto, Executing, files, operator
<1>3. Recover => /\ pc' \notin Executing /\ UNCHANGED <<oh, h, opc>>
                 /\ WithinBound(handoff')
  <2>1. \A what, of : InBound([Item(what, of) EXCEPT !.status = "BLOCKED"])
    BY BoundsAssumption DEF Item, InBound, AttemptsLeft
  <2>2. Recover => pc' = "off" /\ UNCHANGED <<oh, h, opc>>
    BY Zenon DEF Recover, Goto, locals, operator
  <2>3. Recover => WithinBound(handoff')
    BY <1>1, <2>1, AddBound, Zenon DEF Recover
  <2>4. QED
    BY <2>2, <2>3 DEF Executing
<1>4. UNCHANGED vars => RetryInv'
  BY DEF vars, files, locals, operator, RetryInv, TriesOpenItem, WithinBound, ItemsOf
<1>5. StartRun \/ Terminated \/ Crash => RetryInv'
  BY <1>2, NoHandoffBound DEF RetryInv, TriesOpenItem, WithinBound, ItemsOf
<1>6. Recover => RetryInv'
  BY <1>3 DEF RetryInv, TriesOpenItem, WithinBound, ItemsOf
<1>7. QED
  BY <1>4, <1>5, <1>6, RunnerRetry, OperatorRetry, Zenon DEF Next, Steps, Unreopened

(* Under stop-on-blocker no item counts more failed attempts than the      *)
(* first and retry_limit more, however the runs are cancelled, killed,     *)
(* recovered and resumed, unless an operator may reopen it.                *)
THEOREM RetriesAreBounded == Unreopened => (Spec => []AttemptsAreBounded)
<1>1. SUFFICES ASSUME Unreopened PROVE Spec => []AttemptsAreBounded
  OBVIOUS
<1> DEFINE Inv == RetryInv /\ HandoffsInv /\ CompletionInv
<1>2. Init => Inv
  BY InitRetry, InitHandoffs, InitCompletion
<1>3. Inv /\ [Next]_vars => Inv'
  BY <1>1, RetryStep, HandoffsStep, CompletionStep
<1>4. Inv => AttemptsAreBounded
  BY DEF RetryInv, WithinBound, InBound, AttemptsAreBounded
<1>5. QED
  BY <1>2, <1>3, <1>4, PTL DEF Spec
=============================================================================
