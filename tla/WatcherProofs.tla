--------------------------- MODULE WatcherProofs ---------------------------
(***************************************************************************)
(* Theorems about Watcher, for every queue, debounce and bound of a wait.  *)
(***************************************************************************)
EXTENDS Watcher, TLAPS, WellFoundedInduction

(* Where the watcher may be when an input has left since the pause: on no  *)
(* path to another one that does not look at the mode first.               *)
AfterInput == {"run", "poll", "reply", "replyBackup", "await", "off"}

PauseInv == mode = "PAUSE" => late = 0 \/ (late = 1 /\ pc \in AfterInput)

LEMMA PauseInit == Init => PauseInv
BY Zenon DEF Init, PauseInv

(* The steps with an input start where none has left since the pause.      *)
LEMMA PauseInputs ==
  ASSUME PauseInv, pc \notin AfterInput, Input, UNCHANGED mode, pc' \in AfterInput
  PROVE  PauseInv'
<1>1. mode = "PAUSE" => late' = 1
  BY DEF PauseInv, Input, AtMost
<1>2. QED
  BY <1>1, Zenon DEF PauseInv

(* The steps without one leave the places AfterInput only when the mode is *)
(* not PAUSE.                                                              *)
LEMMA PauseOthers ==
  ASSUME PauseInv, UNCHANGED <<mode, late>>,
         mode = "PAUSE" /\ pc \in AfterInput => pc' \in AfterInput
  PROVE  PauseInv'
BY Zenon DEF PauseInv

LEMMA PauseStep == PauseInv /\ [Next]_vars => PauseInv'
<1> SUFFICES ASSUME PauseInv, [Next]_vars
             PROVE  PauseInv'
  OBVIOUS
<1> USE DEF Goto, Return, Park, Block, world, durable, memory, waiting
<1>1. CASE Ask \/ AskBackup \/ SendPrompt \/ ApprovalSends
  <2>1. pc \notin AfterInput /\ Input /\ UNCHANGED mode /\ pc' \in AfterInput
    BY <1>1, Zenon DEF Ask, AskBackup, SendPrompt, ApprovalSends, AfterInput
  <2>2. QED
    BY <2>1, PauseInputs
<1>2. CASE NewConversation
  <2>1. CASE UNCHANGED late
    BY <1>2, <2>1, PauseOthers, Zenon DEF NewConversation, FreshUnavailable, AfterInput
  <2>2. CASE Input /\ Goto("await")
    BY <1>2, <2>2, PauseInputs, Zenon DEF NewConversation, FreshUnavailable, AfterInput
  <2>3. QED
    BY <1>2, <2>1, <2>2, Zenon DEF NewConversation, FreshUnavailable
<1>3. CASE SetMode
  BY <1>3, Zenon DEF SetMode, PauseInv
<1>4. CASE ProviderWorks \/ RewriteStep \/ RequestStop \/ ManualSend \/ ManualSwitch
           \/ UNCHANGED vars
  BY <1>4, PauseOthers, Zenon
     DEF ProviderWorks, RewriteStep, ReadHandoff, WriteHandoff, CommandEnds, RequestStop,
         ManualSend, ManualSwitch, watcher, thread, vars
<1>5. CASE RunStops \/ RunPolls \/ PollQuits \/ PollPaused \/ PollObserves \/ Dies \/ Start
  BY <1>5, PauseOthers, Zenon
     DEF RunStops, RunPolls, PollQuits, PollPaused, PollObserves, Dies, Start, AfterInput
<1>6. CASE ReplyAborted \/ ReplyWaits \/ AwaitAborted \/ TransportLost
  BY <1>6, PauseOthers, Zenon
     DEF ReplyAborted, ReplyWaits, AwaitAborted, TransportLost, AfterInput
<1>7. CASE ReplyUnclear \/ ReplyDone \/ ReplyNotDone \/ AwaitReady \/ AwaitGoesOn
  BY <1>7, PauseOthers, Zenon
     DEF ReplyUnclear, ReplyDone, ReplyNotDone, AwaitReady, AwaitGoesOn, NoAbort, PauseSeen
<1>8. CASE \/ ObserveBusy \/ ObserveError \/ ObserveApproval \/ ObserveFinished
           \/ BoundaryUnreadable \/ BoundaryFirst \/ BoundaryDecides \/ GateDefers
           \/ GatePasses \/ RecordConversation \/ RecordHandoff \/ RecordFails
           \/ AskSkipped \/ ApprovalWaits \/ ApprovalQuestion
  <2>1. pc \notin AfterInput /\ UNCHANGED <<mode, late>>
    BY <1>8, Zenon
       DEF ObserveBusy, ObserveError, ObserveApproval, ObserveFinished, BoundaryUnreadable,
           BoundaryFirst, BoundaryDecides, GateDefers, GatePasses, RecordConversation,
           RecordHandoff, RecordFails, AskSkipped, ApprovalWaits, ApprovalQuestion, AfterInput
  <2>2. QED
    BY <2>1, PauseOthers
<1>9. QED
  BY <1>1, <1>2, <1>3, <1>4, <1>5, <1>6, <1>7, <1>8 DEF Next, WatcherStep, OperatorStep

(* After a pause is written at most one more automatic input leaves, for   *)
(* every length of the waits: RobotWatcher.poll and its helpers.           *)
THEOREM PauseStopsInput == Spec => []OneInputAfterPause
<1>1. Spec => []PauseInv
  BY PauseInit, PauseStep, PTL DEF Spec
<1>2. PauseInv => OneInputAfterPause
  BY DEF PauseInv, OneInputAfterPause
<1>3. QED
  BY <1>1, <1>2, PTL

-----------------------------------------------------------------------------
(* What conversation.json says when a prompt is on its way.                *)

RecordInv ==
  /\ pc = "recordHandoff" => record = plan.target
  /\ pc \in Prompting /\ plan.ask # "approval" => record = plan.target

LEMMA RecordInit == Init => RecordInv
BY Zenon DEF Init, RecordInv, Prompting

(* The steps inside the conversation keep the plan and the records.        *)
LEMMA RecordInside ==
  ASSUME RecordInv, UNCHANGED <<record, plan>>, pc \in Prompting, pc' # "recordHandoff"
  PROVE  RecordInv'
BY Zenon DEF RecordInv

(* The steps that end outside have nothing to show.                        *)
LEMMA RecordOutside ==
  ASSUME pc' \notin Prompting, pc' # "recordHandoff"
  PROVE  RecordInv'
BY Zenon DEF RecordInv

LEMMA DecideGoes ==
  ASSUME NEW role, NEW target, NEW ask, Decide(role, target, ask)
  PROVE  pc' \in {"record", "gate"}
<1>1. CASE role = "first"
  BY <1>1 DEF Decide, Goto
<1>2. CASE role # "first"
  BY <1>2 DEF Decide, Goto
<1>3. QED
  BY <1>1, <1>2

LEMMA RecordStep == RecordInv /\ [Next]_vars => RecordInv'
<1> SUFFICES ASSUME RecordInv, [Next]_vars
             PROVE  RecordInv'
  OBVIOUS
<1> USE DEF Goto, Return, Park, Block, durable
<1>1. CASE RecordConversation
  BY <1>1, Zenon DEF RecordConversation, RecordInv
<1>2. CASE RecordHandoff
  BY <1>2, Zenon DEF RecordHandoff, RecordInv
<1>3. CASE ApprovalQuestion
  <2>1. plan'.ask = "approval" /\ pc' = "ask"
    BY <1>3 DEF ApprovalQuestion, Plan
  <2>2. QED
    BY <2>1, Zenon DEF RecordInv
<1>4. CASE AskSkipped \/ Ask \/ AskBackup \/ ReplyWaits \/ AwaitReady
  BY <1>4, RecordInside, Zenon
     DEF AskSkipped, Ask, AskBackup, ReplyWaits, AwaitReady, Replying, Prompting
<1>5. CASE ReplyUnclear \/ ReplyDone \/ NewConversation \/ AwaitGoesOn
  BY <1>5, RecordInside, RecordOutside, Zenon
     DEF ReplyUnclear, ReplyDone, NewConversation, FreshUnavailable, AwaitGoesOn, Replying,
         Prompting
<1>6. CASE ReplyNotDone
  BY <1>6, RecordInside, RecordOutside, Zenon DEF ReplyNotDone, Replying, Prompting
<1>7. CASE \/ RunStops \/ RunPolls \/ PollQuits \/ PollPaused \/ PollObserves
           \/ ObserveBusy \/ ObserveError \/ ObserveApproval \/ ObserveFinished
           \/ BoundaryUnreadable \/ GateDefers \/ RecordFails \/ ReplyAborted \/ AwaitAborted
           \/ SendPrompt \/ ApprovalWaits \/ ApprovalSends \/ TransportLost \/ Dies \/ Start
  BY <1>7, RecordOutside, Zenon
     DEF RunStops, RunPolls, PollQuits, PollPaused, PollObserves, ObserveBusy, ObserveError,
         ObserveApproval, ObserveFinished, Candidate, BoundaryUnreadable, GateDefers,
         RecordFails, ReplyAborted, AwaitAborted, SendPrompt, ApprovalWaits, ApprovalSends,
         TransportLost, Dies, Start, Prompting
<1>8. CASE BoundaryFirst \/ BoundaryDecides \/ GatePasses
  <2>1. pc' \in {"record", "gate", "run"}
    BY <1>8, DecideGoes, Zenon DEF BoundaryFirst, BoundaryDecides, GatePasses
  <2>2. QED
    BY <2>1, RecordOutside, Zenon DEF Prompting
<1>9. CASE ProviderWorks \/ RewriteStep \/ SetMode \/ RequestStop \/ ManualSend
           \/ ManualSwitch \/ UNCHANGED vars
  BY <1>9, Zenon
     DEF ProviderWorks, RewriteStep, ReadHandoff, WriteHandoff, CommandEnds, SetMode,
         RequestStop, ManualSend, ManualSwitch, watcher, thread, vars, RecordInv
<1>10. QED
  BY <1>1, <1>2, <1>3, <1>4, <1>5, <1>6, <1>7, <1>8, <1>9 DEF Next, WatcherStep, OperatorStep

(* Whatever fails, stops or rewrites the handoff meanwhile, no question    *)
(* and no prompt is on its way whose change conversation.json does not     *)
(* name: record_conversation precedes every path to a send.                *)
THEOREM PromptsAreRecorded == Spec => []PromptIsRecorded
<1>1. Spec => []RecordInv
  BY RecordInit, RecordStep, PTL DEF Spec
<1>2. RecordInv => PromptIsRecorded
  BY Zenon DEF RecordInv, PromptIsRecorded
<1>3. QED
  BY <1>1, <1>2, PTL

-----------------------------------------------------------------------------
(* How far the debounce count may be trusted: it never exceeds the polls   *)
(* that were still, except where the next poll is far, or has reset it.    *)

Counting == {"poll", "observe", "boundary"}

QuietInv ==
  /\ stable \in 0..Debounce /\ still \in 0..Debounce
  /\ pc \in Counting \/ (pc = "run" /\ phase = "WATCHING") => stable <= still
  /\ pc = "boundary" => still = Debounce

LEMMA QuietInit == Init => QuietInv
BY NumbersAssumption DEF Init, QuietInv, Counting

(* The three ways of a step that does not count: nothing, a reset, and a   *)
(* place from which the count is not used again before it is reset.        *)
LEMMA QuietSame ==
  ASSUME QuietInv, UNCHANGED <<stable, still>>, pc' # "boundary" \/ pc' = pc,
         \/ pc \in Counting
         \/ UNCHANGED <<pc, phase>>
         \/ pc = "run" /\ phase = "WATCHING"
         \/ pc' \notin Counting \cup {"run"}
         \/ pc' = "run" /\ phase' # "WATCHING"
  PROVE  QuietInv'
BY DEF QuietInv, Counting

LEMMA QuietReset ==
  ASSUME QuietInv, stable' = 0, still' = still \/ still' = 0,
         pc' # "boundary" \/ (pc' = pc /\ still' = still)
  PROVE  QuietInv'
BY NumbersAssumption DEF QuietInv, Counting

LEMMA QuietLeaves ==
  ASSUME QuietInv, UNCHANGED stable, still' \in {still, 0},
         pc' \notin Counting \cup {"run"}
  PROVE  QuietInv'
BY NumbersAssumption DEF QuietInv, Counting

LEMMA QuietCounts == ASSUME QuietInv, ObserveFinished PROVE QuietInv'
<1> USE NumbersAssumption DEF QuietInv, Counting
<1>1. ASSUME Candidate(AtMost(Debounce, stable + 1), FALSE), pc = "observe", UNCHANGED phase
      PROVE  QuietInv'
  <2>1. /\ stable' = AtMost(Debounce, stable + 1)
        /\ still' = AtMost(Debounce, still + 1)
        /\ pc' = IF AtMost(Debounce, stable + 1) >= Debounce THEN "boundary" ELSE "run"
    BY <1>1, Zenon DEF Candidate, Goto
  <2>2. QED
    BY <2>1, <1>1 DEF AtMost
<1>2. ASSUME Candidate(0, TRUE), pc = "observe", UNCHANGED phase
      PROVE  QuietInv'
  <2>1. stable' = 0 /\ still' = 1 /\ pc' = IF 0 >= Debounce THEN "boundary" ELSE "run"
    BY <1>2, Zenon DEF Candidate, Goto
  <2>2. QED
    BY <2>1, <1>2
<1>3. QED
  BY <1>1, <1>2, Zenon DEF ObserveFinished

LEMMA QuietStep == QuietInv /\ [Next]_vars => QuietInv'
<1> SUFFICES ASSUME QuietInv, [Next]_vars
             PROVE  QuietInv'
  OBVIOUS
<1> USE DEF Goto, Return, Park, Block
<1>1. CASE ObserveFinished
  BY <1>1, QuietCounts
<1>2. CASE RunStops \/ RunPolls \/ PollQuits
  BY <1>2, QuietSame, Zenon DEF RunStops, RunPolls, PollQuits, Counting
<1>3. CASE PollPaused \/ PollObserves
  <2>1. stable' \in {0, stable} /\ still' = still /\ pc = "poll" /\ pc' \in {"run", "observe"}
    BY <1>3 DEF PollPaused, PollObserves
  <2>2. QED
    BY <2>1, QuietSame, QuietReset, Zenon DEF Counting
<1>4. CASE ObserveBusy \/ ObserveError \/ GateDefers \/ AwaitAborted \/ ApprovalWaits
           \/ TransportLost
  BY <1>4, QuietReset, QuietSame, Zenon
     DEF ObserveBusy, ObserveError, GateDefers, AwaitAborted, ApprovalWaits, TransportLost
<1>5. CASE BoundaryUnreadable \/ RecordFails \/ ReplyAborted
  BY <1>5, QuietReset, QuietSame, Zenon DEF BoundaryUnreadable, RecordFails, ReplyAborted
<1>6. CASE BoundaryFirst \/ BoundaryDecides
  <2>1. ASSUME NEW role, NEW target, NEW ask, Decide(role, target, ask), UNCHANGED still
        PROVE  QuietInv'
    BY <2>1, DecideGoes, QuietSame, Zenon DEF Decide, Counting
  <2>2. QED
    BY <1>6, <2>1, QuietSame, Zenon DEF BoundaryFirst, BoundaryDecides
<1>7. CASE GatePasses \/ RecordConversation \/ AskSkipped \/ AwaitReady \/ ApprovalQuestion \/ Dies
  BY <1>7, QuietSame, Zenon
     DEF GatePasses, RecordConversation, AskSkipped, AwaitReady, ApprovalQuestion, Dies, Counting
<1>8. CASE RecordHandoff
  <2>1. pc' \in {"send", "ask", "fresh"} /\ UNCHANGED <<stable, still>>
    BY <1>8 DEF RecordHandoff
  <2>2. QED
    BY <2>1, QuietSame, Zenon DEF Counting
<1>9. CASE ObserveApproval \/ Ask \/ AskBackup
  BY <1>9, QuietLeaves, Zenon DEF ObserveApproval, Ask, AskBackup, Input, Counting
<1>10. CASE ReplyWaits \/ ReplyUnclear \/ ReplyDone \/ ReplyNotDone
  BY <1>10, QuietSame, QuietReset, Zenon
     DEF ReplyWaits, ReplyUnclear, ReplyDone, ReplyNotDone, Replying, Counting
<1>11. CASE NewConversation
  BY <1>11, QuietSame, QuietLeaves, Zenon DEF NewConversation, FreshUnavailable, Input, Counting
<1>12. CASE AwaitGoesOn
  BY <1>12, QuietSame, QuietReset, Zenon DEF AwaitGoesOn, Counting
<1>13. CASE SendPrompt \/ ApprovalSends \/ Start
  BY <1>13, QuietReset, Zenon DEF SendPrompt, ApprovalSends, Start, Input
<1>14. CASE ProviderWorks \/ RewriteStep \/ SetMode \/ RequestStop \/ ManualSend
            \/ ManualSwitch \/ UNCHANGED vars
  BY <1>14, QuietSame, QuietReset, Zenon
     DEF ProviderWorks, RewriteStep, ReadHandoff, WriteHandoff, CommandEnds, SetMode,
         RequestStop, ManualSend, ManualSwitch, watcher, thread, vars
<1>15. QED
  BY <1>1, <1>2, <1>3, <1>4, <1>5, <1>6, <1>7, <1>8, <1>9, <1>10, <1>11, <1>12, <1>13, <1>14
     DEF Next, WatcherStep, OperatorStep

(* The boundary is evaluated only on a screen that was still for Debounce  *)
(* polls since the last input, whatever happened in between: _quiescent    *)
(* and every reset of stable_polls.                                        *)
THEOREM BoundaryIsQuiet == Spec => []QuietBeforeBoundary
<1>1. Spec => []QuietInv
  BY QuietInit, QuietStep, PTL DEF Spec
<1>2. QuietInv => QuietBeforeBoundary
  BY DEF QuietInv, QuietBeforeBoundary
<1>3. QED
  BY <1>1, <1>2, PTL

-----------------------------------------------------------------------------
(* Types of what names a change.                                           *)

NamesInv ==
  /\ repo \in Repos /\ work \in [Changes -> Works]
  /\ record \in Changes \cup {None} /\ hspec \in Changes \cup {None}
  /\ copy \in Changes \cup {None}
  /\ plan \in Plans /\ asked \in Plans

LEMMA PlanTyped ==
  ASSUME NEW role \in {"none", "first", "continuation", "confirmation"},
         NEW target \in Changes \cup {None},
         NEW ask \in {"none", "tasks", "archive", "veto", "approval"},
         NEW seen \in Works
  PROVE  /\ Plan(role, target, ask, seen) \in Plans
         /\ Plan(role, target, ask, seen).role = role
         /\ Plan(role, target, ask, seen).target = target
BY DEF Plan, Plans

LEMMA NoPlanTyped == NoPlan \in Plans
BY PlanTyped DEF NoPlan, Works

(* A queue with an active change has a first one.                          *)
LEMMA FirstActiveIsChange ==
  ASSUME ActiveChanges # {}
  PROVE  FirstActive \in Changes
<1> DEFINE places == {i \in DOMAIN Queue : Active(Queue[i])}
<1>1. DOMAIN Queue = 1..Len(Queue) /\ Len(Queue) \in Nat
  BY QueueAssumption
<1>2. places \subseteq Nat /\ places # {}
  BY <1>1 DEF ActiveChanges, Changes
<1>3. \E i \in places : \A j \in places : <<j, i>> \notin OpToRel(<, Nat)
  BY <1>2, NatLessThanWellFounded, WFMin, Zenon
<1>4. \E i \in places : \A j \in places : i <= j
  <2>1. PICK i \in places : \A j \in places : <<j, i>> \notin OpToRel(<, Nat)
    BY <1>3
  <2>2. ASSUME NEW j \in places PROVE i <= j
    <3> HIDE DEF places
    <3>1. i \in Nat /\ j \in Nat
      BY <1>2
    <3>2. ASSUME j < i PROVE <<j, i>> \in OpToRel(<, Nat)
      <4>1. <<j, i>> \in Nat \X Nat /\ <<j, i>>[1] < <<j, i>>[2]
        BY <3>1, <3>2
      <4>2. QED
        BY <4>1, Zenon DEF OpToRel
    <3>3. ~(j < i)
      BY <2>1, <3>2, Zenon
    <3>4. QED
      BY <3>1, <3>3
  <2>3. QED
    BY <2>1, <2>2
<1>5. (CHOOSE i \in places : \A j \in places : i <= j) \in places
  BY <1>4
<1>6. QED
  BY <1>5 DEF FirstActive, Changes

(* What the boundary may name, and when it lets the recorded change go.    *)
LEMMA BoundaryNames ==
  ASSUME NamesInv
  PROVE  /\ Boundary.decision \in {"unfinished", "ready-to-archive"} =>
              /\ Boundary.target \in Changes
              /\ repo = "openspec" => Boundary.target = RecordedTarget
         /\ Boundary.decision = "complete" =>
              /\ Boundary.target \in Changes \cup {None}
              /\ ActiveChanges # {}
              /\ repo = "openspec" /\ record # None
                   => Boundary.target = None /\ work[record] = "archived"
<1> USE NoneAssumption DEF NamesInv, Verdict
<1>1. RecordedTarget \in Changes \cup {None} /\ (record # None => RecordedTarget = record)
  BY DEF RecordedTarget
<1>2. CASE repo = "openspec"
  <2>1. CASE RecordedTarget = None
    BY <1>1, <1>2, <2>1 DEF Boundary, OpenSpecBoundary
  <2>2. CASE RecordedTarget # None /\ RecordedTarget \in ActiveChanges
    BY <1>1, <1>2, <2>2 DEF Boundary, OpenSpecBoundary
  <2>3. CASE RecordedTarget # None /\ RecordedTarget \notin ActiveChanges
    <3>1. work[RecordedTarget] \in {"archived", "gone"}
      BY <1>1, <2>3 DEF ActiveChanges, Active, ActiveWorks, Works
    <3>2. QED
      BY <1>1, <1>2, <2>3, <3>1 DEF Boundary, OpenSpecBoundary
  <2>4. QED
    BY <2>1, <2>2, <2>3
<1>3. CASE repo # "openspec"
  BY <1>3 DEF Boundary, LegacyBoundary
<1>4. QED
  BY <1>2, <1>3

(* The steps of the boundary, with what they plan.                         *)
LEMMA BoundaryPlans ==
  ASSUME NamesInv, BoundaryFirst \/ BoundaryDecides
  PROVE  \/ plan' = NoPlan /\ pc' = "run"
         \/ /\ plan' \in Plans
            /\ plan'.role # "first" /\ repo = "openspec" /\ record # None
                 => plan'.target = record \/ work[record] = "archived"
<1> USE NoneAssumption
<1>1. ASSUME NEW role \in {"none", "first", "continuation", "confirmation"},
             NEW target \in Changes,
             NEW ask \in {"none", "tasks", "archive", "veto", "approval"},
             Decide(role, target, ask)
      PROVE  plan' \in Plans /\ plan'.role = role /\ plan'.target = target
  <2>1. work[target] \in Works
    BY <1>1 DEF NamesInv
  <2>2. plan' = Plan(role, target, ask, work[target])
    BY <1>1, Zenon DEF Decide
  <2>3. target \in Changes \cup {None}
    OBVIOUS
  <2>4. QED
    BY <2>1, <2>2, <2>3, PlanTyped
<1>2. CASE BoundaryFirst
  <2>1. CASE ActiveChanges = {}
    BY <1>2, <2>1, Zenon DEF BoundaryFirst, Return, Goto, ForgetPlan
  <2>2. CASE ActiveChanges # {}
    <3>1. FirstTarget \in Changes
      BY <2>2, FirstActiveIsChange DEF FirstTarget, ActiveChanges
    <3>2. Decide("first", FirstTarget, "none")
      BY <1>2, <2>2, Zenon DEF BoundaryFirst
    <3>3. QED
      BY <1>1, <3>1, <3>2
  <2>3. QED
    BY <2>1, <2>2
<1>3. CASE BoundaryDecides
  <2>1. \/ plan' = NoPlan /\ pc' = "run"
        \/ /\ Boundary.decision \in {"unfinished", "ready-to-archive"}
           /\ \E ask \in {"tasks", "archive"} : Decide("confirmation", Boundary.target, ask)
        \/ /\ Boundary.decision = "complete"
           /\ IF Boundary.target # None THEN Decide("continuation", Boundary.target, "veto")
              ELSE Decide("continuation", FirstActive, "none")
    BY <1>3, Zenon DEF BoundaryDecides, Return, Block, Goto, ForgetPlan
  <2>2. CASE Boundary.decision \in {"unfinished", "ready-to-archive"}
    BY <1>1, <2>1, <2>2, BoundaryNames DEF RecordedTarget
  <2>3. CASE Boundary.decision = "complete"
    BY <1>1, <2>1, <2>3, BoundaryNames, FirstActiveIsChange
  <2>4. QED
    BY <2>1, <2>2, <2>3
<1>4. QED
  BY <1>2, <1>3

LEMMA NamesInit == Init => NamesInv
BY NoPlanTyped DEF Init, NamesInv, Works

(* Most steps leave the files alone, and keep or drop the plan.            *)
LEMMA NamesKept ==
  ASSUME NamesInv, UNCHANGED <<repo, work, record, hspec, copy>>,
         plan' \in {plan, NoPlan}, asked' \in {asked, plan, NoPlan}
  PROVE  NamesInv'
BY NoPlanTyped DEF NamesInv

LEMMA NamesStep == NamesInv /\ [Next]_vars => NamesInv'
<1> SUFFICES ASSUME NamesInv, [Next]_vars
             PROVE  NamesInv'
  OBVIOUS
<1> USE DEF Goto, Return, Park, Block, ForgetPlan, world, durable, memory, waiting
<1>1. CASE RecordConversation
  BY <1>1 DEF RecordConversation, NamesInv, Plans
<1>2. CASE RecordHandoff
  <2>1. hspec' = plan.target /\ UNCHANGED <<repo, work, record, copy, plan, asked>>
    BY <1>2, Zenon DEF RecordHandoff
  <2>2. QED
    BY <2>1 DEF NamesInv, Plans
<1>3. CASE BoundaryFirst \/ BoundaryDecides
  <2>1. UNCHANGED <<repo, work, record, hspec, copy, asked>>
    BY <1>3, Zenon DEF BoundaryFirst, BoundaryDecides
  <2>2. plan' \in Plans
    BY <1>3, BoundaryPlans, NoPlanTyped
  <2>3. QED
    BY <2>1, <2>2 DEF NamesInv
<1>4. CASE ApprovalQuestion
  <2>1. plan' \in Plans
    BY <1>4, PlanTyped DEF ApprovalQuestion, Works
  <2>2. QED
    BY <1>4, <2>1 DEF ApprovalQuestion, NamesInv
<1>5. CASE ReplyNotDone
  <2>1. plan' = [plan EXCEPT !.role = "confirmation", !.ask = "none"] => plan' \in Plans
    BY DEF NamesInv, Plans
  <2>2. plan' \in {plan, NoPlan} \/ plan' = [plan EXCEPT !.role = "confirmation", !.ask = "none"]
    BY <1>5, Zenon DEF ReplyNotDone
  <2>3. plan' \in Plans
    BY <2>1, <2>2, NoPlanTyped DEF NamesInv
  <2>4. UNCHANGED <<repo, work, record, hspec, copy, asked>>
    BY <1>5, Zenon DEF ReplyNotDone
  <2>5. QED
    BY <2>3, <2>4 DEF NamesInv
<1>6. CASE ProviderWorks
  <2>1. /\ UNCHANGED <<repo, record, hspec, copy, plan, asked>>
        /\ \E c \in Changes, w \in Works : work' = [work EXCEPT ![c] = w]
    BY <1>6, Zenon DEF ProviderWorks, watcher, thread
  <2>2. QED
    BY <2>1 DEF NamesInv
<1>7. CASE \/ RunStops \/ RunPolls \/ PollQuits \/ PollPaused \/ PollObserves \/ ObserveBusy
           \/ ObserveError \/ ObserveApproval \/ ObserveFinished \/ BoundaryUnreadable
           \/ GateDefers \/ GatePasses \/ RecordFails
  BY <1>7, NamesKept, Zenon
     DEF RunStops, RunPolls, PollQuits, PollPaused, PollObserves, ObserveBusy, ObserveError,
         ObserveApproval, ObserveFinished, BoundaryUnreadable, GateDefers, GatePasses, RecordFails
<1>8. CASE AskSkipped \/ Ask \/ AskBackup \/ ReplyAborted \/ ReplyWaits \/ ReplyUnclear \/ ReplyDone
  <2>1. UNCHANGED <<repo, work, record, hspec, copy>> /\ plan' \in {plan, NoPlan}
    BY <1>8, Zenon
       DEF AskSkipped, Ask, AskBackup, ReplyAborted, ReplyWaits, ReplyUnclear, ReplyDone
  <2>2. asked' \in {asked, plan}
    BY <1>8 DEF AskSkipped, Ask, AskBackup, ReplyAborted, ReplyWaits, ReplyUnclear, ReplyDone
  <2>3. QED
    BY <2>1, <2>2, NamesKept
<1>9. CASE \/ NewConversation \/ AwaitAborted \/ AwaitReady \/ AwaitGoesOn \/ SendPrompt
           \/ ApprovalWaits \/ ApprovalSends \/ TransportLost \/ Dies \/ Start
           \/ SetMode \/ RequestStop \/ ManualSend \/ ManualSwitch \/ UNCHANGED vars
  BY <1>9, NamesKept, Zenon
     DEF NewConversation, FreshUnavailable, AwaitAborted, AwaitReady, AwaitGoesOn, SendPrompt, ApprovalWaits,
         ApprovalSends, TransportLost, Dies, Start, SetMode, RequestStop, ManualSend,
         ManualSwitch, watcher, thread, vars
<1>10. CASE RewriteStep
  <2>1. UNCHANGED <<repo, work, record, plan, asked>>
    BY <1>10, Zenon DEF RewriteStep, ReadHandoff, WriteHandoff, CommandEnds, watcher, thread
  <2>2. hspec' \in {hspec, copy} /\ copy' \in {copy, hspec, None}
    BY <1>10, Zenon DEF RewriteStep, ReadHandoff, WriteHandoff, CommandEnds, watcher, thread
  <2>3. QED
    BY <2>1, <2>2 DEF NamesInv
<1>11. QED
  BY <1>1, <1>2, <1>3, <1>4, <1>5, <1>6, <1>7, <1>8, <1>9, <1>10
     DEF Next, WatcherStep, OperatorStep

-----------------------------------------------------------------------------
(* A plan that is not a first prompt is for the recorded change, or that   *)
(* change was archived, from the decision to the record.                   *)
Deciding == {"gate", "record"}

AdvanceInv ==
  pc \in Deciding /\ plan.role # "first" /\ repo = "openspec" /\ record # None
    => plan.target = record \/ work[record] = "archived"

LEMMA AdvanceInit == Init => AdvanceInv
BY Zenon DEF Init, AdvanceInv, Deciding

LEMMA AdvanceElsewhere ==
  ASSUME pc' \notin Deciding
  PROVE  AdvanceInv'
BY Zenon DEF AdvanceInv

LEMMA AdvanceSame ==
  ASSUME AdvanceInv, UNCHANGED <<repo, work, record, plan>>, pc \in Deciding \/ pc' \notin Deciding
  PROVE  AdvanceInv'
BY Zenon DEF AdvanceInv

LEMMA AdvanceStep == NamesInv /\ RecordInv /\ AdvanceInv /\ [Next]_vars => AdvanceInv'
<1> SUFFICES ASSUME NamesInv, RecordInv, AdvanceInv, [Next]_vars
             PROVE  AdvanceInv'
  OBVIOUS
<1> USE DEF Goto, Return, Park, Block, world, durable
<1>1. CASE BoundaryFirst \/ BoundaryDecides
  <2>1. UNCHANGED <<repo, work, record>>
    BY <1>1, Zenon DEF BoundaryFirst, BoundaryDecides
  <2>2. QED
    BY <1>1, <2>1, BoundaryPlans DEF AdvanceInv, Deciding
<1>2. CASE ReplyNotDone
  <2>1. CASE plan.ask = "veto"
    <3>1. plan.target = record /\ UNCHANGED record
      BY <1>2, <2>1 DEF ReplyNotDone, Replying, RecordInv, Prompting
    <3>2. plan'.target = plan.target \/ pc' \notin Deciding
      BY <1>2, <2>1 DEF ReplyNotDone, NamesInv, Plans, Deciding
    <3>3. QED
      BY <3>1, <3>2, Zenon DEF AdvanceInv
  <2>2. CASE plan.ask # "veto"
    BY <1>2, <2>2, AdvanceElsewhere, Zenon DEF ReplyNotDone, Deciding
  <2>3. QED
    BY <2>1, <2>2
<1>3. CASE ProviderWorks
  <2>1. /\ UNCHANGED <<repo, pc, record, plan>>
        /\ \E c \in Changes, w \in Works :
             work' = [work EXCEPT ![c] = w] /\ work[c] # "archived"
    BY <1>3 DEF ProviderWorks, watcher, thread
  <2>2. QED
    BY <2>1 DEF AdvanceInv, NamesInv
<1>4. CASE GatePasses
  BY <1>4, AdvanceSame, Zenon DEF GatePasses, Deciding
<1>5. CASE RewriteStep \/ SetMode \/ RequestStop \/ ManualSend \/ ManualSwitch \/ UNCHANGED vars
  BY <1>5, Zenon
     DEF RewriteStep, ReadHandoff, WriteHandoff, CommandEnds, SetMode, RequestStop, ManualSend,
         ManualSwitch, watcher, thread, vars, AdvanceInv
<1>6. CASE \/ RunStops \/ RunPolls \/ PollQuits \/ PollPaused \/ PollObserves
           \/ ObserveBusy \/ ObserveError \/ ObserveApproval \/ ObserveFinished
           \/ BoundaryUnreadable \/ GateDefers \/ RecordFails \/ RecordConversation
  BY <1>6, AdvanceElsewhere, Zenon
     DEF RunStops, RunPolls, PollQuits, PollPaused, PollObserves, ObserveBusy, ObserveError,
         ObserveApproval, ObserveFinished, Candidate, BoundaryUnreadable, GateDefers,
         RecordFails, RecordConversation, Deciding
<1>7. CASE RecordHandoff
  <2>1. pc' \in {"send", "ask", "fresh"}
    BY <1>7 DEF RecordHandoff
  <2>2. QED
    BY <2>1, AdvanceElsewhere, Zenon DEF Deciding
<1>8. CASE \/ AskSkipped \/ Ask \/ AskBackup \/ ReplyAborted \/ ReplyWaits \/ ReplyUnclear
           \/ ReplyDone \/ NewConversation \/ AwaitAborted \/ AwaitReady \/ AwaitGoesOn
           \/ SendPrompt \/ ApprovalWaits \/ ApprovalSends \/ ApprovalQuestion
           \/ TransportLost \/ Dies \/ Start
  BY <1>8, AdvanceElsewhere, Zenon
     DEF AskSkipped, Ask, AskBackup, ReplyAborted, ReplyWaits, ReplyUnclear, ReplyDone,
         NewConversation, FreshUnavailable, AwaitAborted, AwaitReady, AwaitGoesOn, SendPrompt, ApprovalWaits,
         ApprovalSends, ApprovalQuestion, TransportLost, Dies, Start, Replying, Deciding
<1>9. QED
  BY <1>1, <1>2, <1>3, <1>4, <1>5, <1>6, <1>7, <1>8 DEF Next, WatcherStep, OperatorStep

LEMMA NamesAlways == Spec => [](NamesInv /\ AdvanceInv)
<1>1. Init => NamesInv /\ RecordInv /\ AdvanceInv
  BY NamesInit, RecordInit, AdvanceInit
<1>2. /\ NamesInv /\ RecordInv /\ AdvanceInv
      /\ [Next]_vars
      => (NamesInv /\ RecordInv /\ AdvanceInv)'
  BY NamesStep, RecordStep, AdvanceStep
<1>3. QED
  BY <1>1, <1>2, PTL DEF Spec

(* Only RecordConversation writes the recorded change.                     *)
LEMMA RecordChanges ==
  ASSUME [Next]_vars, record' # record
  PROVE  RecordConversation
BY Zenon
   DEF Next, WatcherStep, OperatorStep, vars, world, durable, watcher, thread, Goto, Return, Park, Block,
       RunStops, RunPolls, PollQuits, PollPaused, PollObserves, ObserveBusy, ObserveError,
       ObserveApproval, ObserveFinished, BoundaryUnreadable, BoundaryFirst, BoundaryDecides,
       GateDefers, GatePasses, RecordHandoff, RecordFails, AskSkipped, Ask, AskBackup,
       ReplyAborted, ReplyWaits, ReplyUnclear, ReplyDone, ReplyNotDone, NewConversation, FreshUnavailable,
       AwaitAborted, AwaitReady, AwaitGoesOn, SendPrompt, ApprovalWaits, ApprovalSends,
       ApprovalQuestion, TransportLost, Dies, ProviderWorks, RewriteStep, ReadHandoff,
       WriteHandoff, CommandEnds, SetMode, RequestStop, ManualSend,
       ManualSwitch, Start

(* The recorded change is left for another one only with archive proof,    *)
(* but for a watcher's first prompt: _openspec_boundary, for every queue   *)
(* and every order of the provider's work, inputs, restarts and failures.  *)
THEOREM AdvanceIsProved == Spec => AdvanceNeedsProof
<1>1. ASSUME AdvanceInv, [Next]_vars,
             repo = "openspec", record' # record, record # None
      PROVE  work[record] = "archived" \/ plan.role = "first"
  <2>1. pc = "record" /\ record' = plan.target
    BY <1>1, RecordChanges, Zenon DEF RecordConversation
  <2>2. QED
    BY <1>1, <2>1, Zenon DEF AdvanceInv, Deciding
<1>2. NamesInv /\ AdvanceInv /\ [Next]_vars
        => [repo = "openspec" /\ record' # record /\ record # None
              => work[record] = "archived" \/ plan.role = "first"]_vars
  BY <1>1
<1>3. QED
  BY <1>2, NamesAlways, PTL DEF Spec, AdvanceNeedsProof

-----------------------------------------------------------------------------
(* Type correctness: what is left of it.                                   *)

FlagsInv ==
  /\ mode \in {"AUTO", "PAUSE", "MANUAL"} /\ stopping \in BOOLEAN
  /\ paused \in BOOLEAN /\ sent \in BOOLEAN /\ tail \in BOOLEAN
  /\ command \in {"none", "read", "written"}

PlacesInv == pc \in Labels /\ phase \in {"WATCHING", "DONE", "BLOCKED"}

WaitsInv == tries \in Nat /\ ready \in 0..(Debounce - 1) /\ late \in 0..2

LEMMA ControlInit == Init => FlagsInv /\ PlacesInv /\ WaitsInv
<1>1. Init => FlagsInv
  BY HasInitialAssumption, Zenon DEF Init, FlagsInv
<1>2. Init => PlacesInv
  BY Zenon DEF Init, PlacesInv, Labels
<1>3. Init => WaitsInv
  BY NumbersAssumption DEF Init, WaitsInv
<1>4. QED
  BY <1>1, <1>2, <1>3

LEMMA FlagsStep == FlagsInv /\ [Next]_vars => FlagsInv'
<1> SUFFICES ASSUME FlagsInv, [Next]_vars
             PROVE  FlagsInv'
  OBVIOUS
<1> USE DEF FlagsInv, world, memory
<1>1. CASE UNCHANGED <<mode, stopping, command, paused, sent, tail>>
  BY <1>1, Zenon
<1>2. CASE PollPaused \/ PollObserves
  BY <1>2, Zenon DEF PollPaused, PollObserves
<1>3. CASE ObserveFinished \/ SendPrompt
  BY <1>3, Zenon DEF ObserveFinished, Candidate, SendPrompt
<1>4. CASE RewriteStep \/ SetMode \/ RequestStop
  BY <1>4, Zenon DEF RewriteStep, ReadHandoff, WriteHandoff, CommandEnds, SetMode, RequestStop,
                     watcher, thread
<1>5. CASE Start
  BY <1>5, HasInitialAssumption, Zenon DEF Start
<1>6. \/ UNCHANGED <<mode, stopping, command, paused, sent, tail>>
      \/ PollPaused \/ PollObserves \/ ObserveFinished \/ SendPrompt \/ RewriteStep
        \/ SetMode \/ RequestStop \/ Start
  BY Zenon
     DEF Next, WatcherStep, OperatorStep, vars, watcher, thread,
         RunStops, RunPolls, PollQuits, ObserveBusy, ObserveError, ObserveApproval,
         BoundaryUnreadable, BoundaryFirst, BoundaryDecides, GateDefers, GatePasses,
         RecordConversation, RecordHandoff, RecordFails, AskSkipped, Ask, AskBackup,
         ReplyAborted, ReplyWaits, ReplyUnclear, ReplyDone, ReplyNotDone, NewConversation, FreshUnavailable,
         AwaitAborted, AwaitReady, AwaitGoesOn, ApprovalWaits, ApprovalSends,
         ApprovalQuestion, TransportLost, Dies, ProviderWorks, ManualSend, ManualSwitch
<1>7. QED
  BY <1>1, <1>2, <1>3, <1>4, <1>5, <1>6

LEMMA PlacesStep == PlacesInv /\ [Next]_vars => PlacesInv'
<1> SUFFICES ASSUME PlacesInv, [Next]_vars
             PROVE  PlacesInv'
  OBVIOUS
<1> USE DEF PlacesInv, Labels, Goto, Return, Park, Block
<1>1. CASE \/ RunStops \/ RunPolls \/ PollQuits \/ PollPaused \/ PollObserves
           \/ ObserveBusy \/ ObserveError \/ ObserveApproval \/ BoundaryUnreadable
           \/ GateDefers \/ GatePasses \/ RecordConversation \/ RecordFails
  BY <1>1, Zenon
     DEF RunStops, RunPolls, PollQuits, PollPaused, PollObserves, ObserveBusy, ObserveError,
         ObserveApproval, BoundaryUnreadable, GateDefers, GatePasses, RecordConversation,
         RecordFails
<1>2. CASE ObserveFinished
  BY <1>2 DEF ObserveFinished, Candidate
<1>3. CASE BoundaryFirst \/ BoundaryDecides
  <2>1. ASSUME NEW role, NEW target, NEW ask, Decide(role, target, ask)
        PROVE  PlacesInv'
    BY <2>1, DecideGoes DEF Decide
  <2>2. QED
    BY <1>3, <2>1, Zenon DEF BoundaryFirst, BoundaryDecides
<1>4. CASE RecordHandoff
  BY <1>4 DEF RecordHandoff
<1>5. CASE \/ AskSkipped \/ Ask \/ AskBackup \/ ReplyAborted \/ ReplyWaits \/ ReplyUnclear
           \/ ReplyDone \/ ReplyNotDone
  BY <1>5, Zenon
     DEF AskSkipped, Ask, AskBackup, ReplyAborted, ReplyWaits, ReplyUnclear, ReplyDone,
         ReplyNotDone
<1>6. CASE \/ NewConversation \/ AwaitAborted \/ AwaitReady \/ AwaitGoesOn \/ SendPrompt
           \/ ApprovalWaits \/ ApprovalSends \/ ApprovalQuestion \/ TransportLost \/ Dies \/ Start
  BY <1>6, Zenon
     DEF NewConversation, FreshUnavailable, AwaitAborted, AwaitReady, AwaitGoesOn, SendPrompt, ApprovalWaits,
         ApprovalSends, ApprovalQuestion, TransportLost, Dies, Start
<1>7. CASE ProviderWorks \/ RewriteStep \/ SetMode \/ RequestStop \/ ManualSend
           \/ ManualSwitch \/ UNCHANGED vars
  BY <1>7, Zenon DEF ProviderWorks, RewriteStep, ReadHandoff, WriteHandoff, CommandEnds,
                     SetMode, RequestStop, ManualSend, ManualSwitch, watcher, thread, vars
<1>8. QED
  BY <1>1, <1>2, <1>3, <1>4, <1>5, <1>6, <1>7 DEF Next, WatcherStep, OperatorStep

(* The waits are counted on, started anew, or as they were.                *)
LEMMA WaitsStep == WaitsInv /\ [Next]_vars => WaitsInv'
<1> SUFFICES ASSUME WaitsInv, [Next]_vars
             PROVE  WaitsInv'
  OBVIOUS
<1> DEFINE waited == UNCHANGED waiting \/ (tries' = 0 /\ ready' = 0)
           counted == late' \in {late, 0} \/ Input
<1> USE DEF Goto, Return, Park, Block, ForgetPlan, BeginWait
<1>1. ASSUME waited, counted PROVE WaitsInv'
  BY <1>1, NumbersAssumption DEF WaitsInv, waiting, Input, AtMost
<1>2. CASE ReplyWaits
  <2>1. tries' = tries + 1 /\ UNCHANGED <<ready, late>>
    BY <1>2, Zenon DEF ReplyWaits
  <2>2. QED
    BY <2>1 DEF WaitsInv
<1>3. CASE AwaitGoesOn
  <2>1. /\ UNCHANGED late
        /\ \/ tries' = 0 /\ ready' = 0
           \/ tries' = tries + 1 /\ ready' \in {0, ready + 1} /\ ready' < Debounce
    BY <1>3 DEF AwaitGoesOn
  <2>2. QED
    BY <2>1, NumbersAssumption DEF WaitsInv
<1>4. CASE BoundaryFirst \/ BoundaryDecides
  BY <1>4, <1>1, Zenon DEF BoundaryFirst, BoundaryDecides, Decide
<1>5. CASE \/ RunStops \/ RunPolls \/ PollQuits \/ PollPaused \/ PollObserves
           \/ ObserveBusy \/ ObserveError \/ ObserveApproval \/ ObserveFinished
           \/ BoundaryUnreadable \/ GateDefers \/ GatePasses \/ RecordConversation
           \/ RecordHandoff \/ RecordFails
  BY <1>5, <1>1, Zenon
     DEF RunStops, RunPolls, PollQuits, PollPaused, PollObserves, ObserveBusy, ObserveError,
         ObserveApproval, ObserveFinished, BoundaryUnreadable, GateDefers, GatePasses,
         RecordConversation, RecordHandoff, RecordFails
<1>6. CASE \/ AskSkipped \/ Ask \/ AskBackup \/ ReplyAborted \/ ReplyUnclear \/ ReplyDone
           \/ ReplyNotDone \/ NewConversation \/ AwaitAborted \/ AwaitReady \/ SendPrompt
  BY <1>6, <1>1, Zenon
     DEF AskSkipped, Ask, AskBackup, ReplyAborted, ReplyUnclear, ReplyDone, ReplyNotDone,
         NewConversation, FreshUnavailable, AwaitAborted, AwaitReady, SendPrompt
<1>7. CASE \/ ApprovalWaits \/ ApprovalSends \/ ApprovalQuestion \/ TransportLost \/ Dies \/ Start
           \/ ProviderWorks \/ RewriteStep \/ SetMode \/ RequestStop \/ ManualSend \/ ManualSwitch
           \/ UNCHANGED vars
  BY <1>7, <1>1, Zenon
     DEF ApprovalWaits, ApprovalSends, ApprovalQuestion, TransportLost, Dies, Start,
         ProviderWorks, RewriteStep, ReadHandoff, WriteHandoff, CommandEnds, SetMode,
         RequestStop, ManualSend, ManualSwitch, watcher, thread, vars
<1>8. QED
  BY <1>2, <1>3, <1>4, <1>5, <1>6, <1>7 DEF Next, WatcherStep, OperatorStep

(* Every variable keeps the values the code writes.                        *)
THEOREM WatcherTypeCorrect == Spec => []TypeOK
<1>1. Spec => [](FlagsInv /\ PlacesInv /\ WaitsInv)
  BY ControlInit, FlagsStep, PlacesStep, WaitsStep, PTL DEF Spec
<1>2. Spec => []QuietInv
  BY QuietInit, QuietStep, PTL DEF Spec
<1>3. ASSUME FlagsInv, PlacesInv, WaitsInv, QuietInv, NamesInv
      PROVE  TypeOK
  BY <1>3, Zenon DEF FlagsInv, PlacesInv, WaitsInv, QuietInv, NamesInv, TypeOK
<1>4. QED
  BY <1>1, <1>2, <1>3, NamesAlways, PTL
=============================================================================
