--------------------------- MODULE ApprovalProofs ---------------------------
(***************************************************************************)
(* Theorems about Approval, for every set of requests and every limit, and *)
(* about PermissionDialog, for every set of screens, of configurations and *)
(* of places: the watcher with the real policy implements Approval, whose  *)
(* theorems hold of it, answers nothing that the configuration of that     *)
(* poll does not permit, and decides nothing by what scrolled above.       *)
(***************************************************************************)
EXTENDS PermissionDialog, SequenceTheorems, WellFoundedInduction, TLAPS

(* The counters of the code are the history they stand for: the sends are  *)
(* the approvals of the request, the quiet polls are the polls since.      *)
CountersAreHistory == approved = sends /\ gap = quiet

(* A round of asking sends at most two questions, the second from inside.  *)
QuestionsOfRounds ==
  /\ turn = "first" => questions + 1 <= 2 * asks
  /\ turn # "first" => questions <= 2 * asks

(* ApprovalTypeOK in two parts: the flags, and what is counted.                    *)
Flags == rearm \in BOOLEAN /\ escalated \in BOOLEAN

Counts ==
  /\ turn \in {"poll", "first", "backup"}
  /\ key \in Requests \cup {NoKey}
  /\ sends \in 0..PERMISSION_MAX_SENDS
  /\ quiet \in 0..PERMISSION_RETRY_QUIET_POLLS
  /\ asks \in 0..2 /\ askQuiet \in 0..APPROVAL_REASK_QUIET_POLLS
  /\ questions \in Nat
  /\ CountersAreHistory
  /\ QuestionsOfRounds

ApprovalInv == Flags /\ Counts

LEMMA InvImpliesTypes == ApprovalInv => ApprovalTypeOK
<1> SUFFICES ASSUME ApprovalInv PROVE ApprovalTypeOK
  OBVIOUS
<1>1. Flags /\ Counts
  BY DEF ApprovalInv
<1>2. /\ approved \in 0..(PERMISSION_MAX_SENDS + 1)
      /\ gap \in 0..PERMISSION_RETRY_QUIET_POLLS
      /\ questions \in 0..5
  BY <1>1, LimitsAssumption DEF Counts, CountersAreHistory, QuestionsOfRounds
<1>3. QED
  BY <1>1, <1>2, Zenon DEF ApprovalTypeOK, Flags, Counts

LEMMA InitInv == ApprovalInit => ApprovalInv
<1>1. ApprovalInit => Flags
  BY Zenon DEF ApprovalInit, Flags
<1>2. ApprovalInit => Counts
  BY LimitsAssumption DEF ApprovalInit, Counts, CountersAreHistory, QuestionsOfRounds
<1>3. QED
  BY <1>1, <1>2 DEF ApprovalInv

(* Every step that writes a flag writes a truth value.                     *)
LEMMA FlagsStep ==
  ASSUME Flags, [ApprovalNext]_approvalVars
  PROVE  Flags'
<1> USE DEF Flags
<1>1. ASSUME NEW a \in BOOLEAN, NEW b \in BOOLEAN, Outcome(a, b)
      PROVE  Flags'
  BY <1>1, Zenon DEF Outcome
<1>2. CASE AnsweredDone
  BY <1>2, <1>1, Zenon DEF AnsweredDone
<1>3. CASE AnsweredNotDone
  <2>1. (asks = 1) \in BOOLEAN /\ (escalated \/ asks = 2) \in BOOLEAN
    BY Zenon
  <2>2. QED
    BY <1>3, <1>1, <2>1, Zenon DEF AnsweredNotDone
<1>4. CASE Undecided
  <2>1. (escalated \/ asks = 2) \in BOOLEAN
    BY Zenon
  <2>2. QED
    BY <1>4, <1>1, <2>1, Zenon DEF Undecided
<1>5. CASE OtherScreen
  BY <1>5, Zenon DEF OtherScreen
<1>6. CASE AskFirst \/ AskAgain
  BY <1>6, Zenon DEF AskFirst, AskAgain, Question
<1>7. CASE AskWaits \/ Unclear
  BY <1>7, Zenon DEF AskWaits, Unclear
<1>8. CASE UNCHANGED asking
  BY <1>8, Zenon DEF asking
<1>9. [ApprovalNext]_approvalVars => \/ AnsweredDone \/ AnsweredNotDone \/ Undecided \/ OtherScreen
                     \/ AskFirst \/ AskAgain \/ AskWaits \/ Unclear \/ UNCHANGED asking
  BY Zenon DEF ApprovalNext, approvalVars, HumanDecides, AskedEnough, ApproveFirst, ApproveWaits,
               ApproveRetry, QuestionLost
<1>10. QED
  BY <1>2, <1>3, <1>4, <1>5, <1>6, <1>7, <1>8, <1>9, Zenon

(* What only answers a request leaves the questions alone, what only asks  *)
(* the approvals.                                                          *)
LEMMA CountsStep ==
  ASSUME Counts, [ApprovalNext]_approvalVars
  PROVE  Counts'
<1> USE LimitsAssumption DEF Counts, CountersAreHistory, QuestionsOfRounds
<1>1. CASE OtherScreen
  BY <1>1 DEF OtherScreen
<1>2. CASE ApproveFirst
  BY <1>2 DEF ApproveFirst, asking, sending
<1>3. CASE ApproveWaits
  BY <1>3 DEF ApproveWaits, QuietNow, GapNow, UpTo, asking
<1>4. CASE ApproveRetry
  BY <1>4 DEF ApproveRetry, SendsLeft, QuietNow, GapNow, UpTo, Counted, asking
<1>5. ASSUME NEW n \in 1..2, asks = n - 1, turn = "poll", Question(n), UNCHANGED askQuiet
      PROVE  Counts'
  BY <1>5 DEF Question, Counted, UpTo, sending
<1>6. CASE AskFirst
  <2>1. asks = 0 /\ turn = "poll" /\ Question(1) /\ UNCHANGED askQuiet
    BY <1>6, Zenon DEF AskFirst, Question
  <2>2. 1 \in 1..2 /\ asks = 1 - 1
    BY <2>1
  <2>3. QED
    BY <2>1, <2>2, <1>5, Zenon
<1>7. CASE AskAgain
  <2>1. asks = 1 /\ turn = "poll" /\ Question(2) /\ UNCHANGED askQuiet
    BY <1>7, Zenon DEF AskAgain, Question
  <2>2. 2 \in 1..2 /\ asks = 2 - 1
    BY <2>1
  <2>3. QED
    BY <2>1, <2>2, <1>5, Zenon
<1>8. CASE AskWaits
  BY <1>8 DEF AskWaits, sending
<1>9. CASE Unclear
  BY <1>9 DEF Unclear, Counted, UpTo, sending
<1>10. CASE AnsweredDone \/ AnsweredNotDone \/ Undecided \/ QuestionLost
  <2>1. turn' = "poll" /\ UNCHANGED <<sending, asks, askQuiet, questions>> /\ Asking
    BY <1>10, Zenon DEF AnsweredDone, AnsweredNotDone, Undecided, QuestionLost, Outcome, asking
  <2>2. QED
    BY <2>1 DEF Asking, sending
<1>11. CASE UNCHANGED approvalVars
  BY <1>11 DEF approvalVars, sending, asking
<1>12. CASE HumanDecides \/ AskedEnough
  BY <1>12, <1>11 DEF HumanDecides, AskedEnough
<1>13. QED
  BY <1>1, <1>2, <1>3, <1>4, <1>6, <1>7, <1>8, <1>9, <1>10, <1>11, <1>12 DEF ApprovalNext

LEMMA NextInv == ApprovalInv /\ [ApprovalNext]_approvalVars => ApprovalInv'
BY FlagsStep, CountsStep DEF ApprovalInv

THEOREM ApprovalInvariant == ApprovalSpec => []ApprovalInv
BY InitInv, NextInv, PTL DEF ApprovalSpec

(* The variables of _handle_approval keep the values the code writes.      *)
THEOREM ApprovalTypeCorrect == ApprovalSpec => []ApprovalTypeOK
BY InvImpliesTypes, ApprovalInvariant, PTL

(* A request that stays on screen gets at most PERMISSION_MAX_SENDS        *)
(* approvals, for any limit and any mix of failures and questions.         *)
THEOREM ApprovalsBounded == ApprovalSpec => []ApprovalsAreBounded
<1>1. ApprovalInv => ApprovalsAreBounded
  BY LimitsAssumption DEF ApprovalInv, Counts, CountersAreHistory, ApprovalsAreBounded
<1>2. QED
  BY <1>1, ApprovalInvariant, PTL

(* A dialog the policy cannot read gets at most four questions.            *)
THEOREM QuestionsBounded == ApprovalSpec => []QuestionsAreBounded
<1>1. ApprovalInv => QuestionsAreBounded
  BY DEF ApprovalInv, Counts, QuestionsOfRounds, QuestionsAreBounded
<1>2. QED
  BY <1>1, ApprovalInvariant, PTL

(* Only a retry after enough quiet polls repeats an approval.              *)
LEMMA StepIsSpaced ==
  ApprovalInv /\ [ApprovalNext]_approvalVars
    => (approved' > approved /\ key' = key => gap + 1 >= PERMISSION_RETRY_QUIET_POLLS)
<1> SUFFICES ASSUME ApprovalInv, [ApprovalNext]_approvalVars, approved' > approved, key' = key
             PROVE  gap + 1 >= PERMISSION_RETRY_QUIET_POLLS
  OBVIOUS
<1> USE LimitsAssumption DEF ApprovalInv, Counts, CountersAreHistory
<1>1. CASE ApproveRetry
  BY <1>1 DEF ApproveRetry, QuietNow, UpTo
<1>2. CASE ApproveFirst
  BY <1>2 DEF ApproveFirst, sending
<1>3. CASE OtherScreen
  BY <1>3 DEF OtherScreen
<1>4. CASE UNCHANGED approved
  BY <1>4
<1>5. [ApprovalNext]_approvalVars => ApproveRetry \/ ApproveFirst \/ OtherScreen \/ UNCHANGED approved
  BY DEF ApprovalNext, approvalVars, sending, asking, HumanDecides, AskedEnough, ApproveWaits, AskFirst,
         AskAgain, AskWaits, Question, Unclear, AnsweredDone, AnsweredNotDone,
         Undecided, Outcome, QuestionLost
<1>6. QED
  BY <1>1, <1>2, <1>3, <1>4, <1>5

THEOREM RetriesSpaced == ApprovalSpec => RetriesAreSpaced
<1>1. ApprovalInv /\ [ApprovalNext]_approvalVars
        => [approved' > approved /\ key' = key => gap + 1 >= PERMISSION_RETRY_QUIET_POLLS]_approvalVars
  BY StepIsSpaced
<1>2. QED
  BY <1>1, ApprovalInvariant, PTL DEF ApprovalSpec, RetriesAreSpaced

-----------------------------------------------------------------------------
(* The watcher with the permission policy.                                 *)

(* An outcome stands for a screen under its configuration.                 *)
LEMMA OutcomeOf ==
  ASSUME NEW outcome \in Outcomes
  PROVE  \E screen \in Screens :
           /\ outcome.settings \in Settings
           /\ outcome.result = Decision(outcome.settings, screen).result
           /\ outcome.request = Decision(outcome.settings, screen).request
<1>1. PICK s \in Settings, screen \in Screens :
        outcome = [settings |-> s, result |-> Decision(s, screen).result,
                   request |-> Decision(s, screen).request, steady |-> Steady(s, screen)]
  BY DEF Outcomes
<1>2. QED
  BY <1>1

-----------------------------------------------------------------------------
(* Each poll takes a step of Approval, or none, whatever the policy says.  *)
LEMMA PollIsApproval == [PollNext]_dvars => [ApprovalNext]_approvalVars
<1> SUFFICES ASSUME [PollNext]_dvars
             PROVE  [ApprovalNext]_approvalVars
  OBVIOUS
<1>1. CASE Configure \/ UNCHANGED dvars
  BY <1>1, Zenon DEF Configure, dvars
<1>2. CASE Poll
  BY <1>2, Zenon DEF Poll, Approves, NotRead, LeftToHuman, ApprovalNext
<1>3. CASE Answered
  BY <1>3, Zenon DEF Answered, ApprovalNext
<1>4. QED
  BY <1>1, <1>2, <1>3 DEF PollNext

LEMMA DialogInvariant == DialogSpec => []ApprovalInv
<1>1. PollInit => ApprovalInit
  BY DEF PollInit
<1>2. QED
  BY <1>1, PollIsApproval, InitInv, NextInv, PTL DEF DialogSpec

-----------------------------------------------------------------------------
(* The policy allows only what the configuration permits.                  *)
Permitted(s, request) ==
  /\ s.policy \in {"project-temp-auto", "allowlist", "auto"}
  /\ request.op \in s.actions
  /\ \/ s.policy = "auto"
     \/ request.place \in InAllowlist
     \/ s.policy = "project-temp-auto" /\ s.temp /\ request.place \in InTempRoot

LEMMA AllowedRequest ==
  ASSUME NEW s \in Settings, NEW parsed, PolicyOfRequest(s, parsed).result = "allow",
         Prepared(s), s.policy \notin {"prompt", "deny"}
  PROVE  Permitted(s, PolicyOfRequest(s, parsed).request)
<1> DEFINE request == RequestOf(parsed)
<1>1. CASE request.place = Nowhere
  BY <1>1 DEF PolicyOfRequest, Result
<1>2. CASE request.place # Nowhere /\ request.op \notin s.actions
  BY <1>2 DEF PolicyOfRequest, Result
<1>3. CASE /\ request.place # Nowhere /\ request.op \in s.actions
           /\ s.policy = "auto" \/ Contained(s, request.place)
  <2>1. PolicyOfRequest(s, parsed).request = request
    BY <1>3 DEF PolicyOfRequest, Result
  <2>2. Permitted(s, request)
    BY <1>3, SettingsAssumption DEF Permitted, Contained, Roots, Prepared
  <2>3. QED
    BY <2>1, <2>2
<1>4. CASE /\ request.place # Nowhere /\ request.op \in s.actions
           /\ ~(s.policy = "auto" \/ Contained(s, request.place))
  BY <1>4 DEF PolicyOfRequest, Result
<1>5. QED
  BY <1>1, <1>2, <1>3, <1>4

LEMMA AllowedDecision ==
  ASSUME NEW s \in Settings, NEW screen, Decision(s, screen).result = "allow"
  PROVE  Permitted(s, Decision(s, screen).request)
<1>1. Prepared(s) /\ Decision(s, screen) = Evaluate(s, screen)
  BY DEF Decision, Result
<1>2. s.policy \notin {"prompt", "deny"}
  BY <1>1 DEF Evaluate, Result
<1>3. Evaluate(s, screen) = PolicyOfRequest(s, Parse(screen))
  <2>1. Parse(screen) # Unread
    BY <1>1, <1>2 DEF Evaluate, Result
  <2>2. QED
    BY <1>2, <2>1 DEF Evaluate
<1>4. QED
  BY <1>1, <1>2, <1>3, AllowedRequest

(* No poll types an answer that its configuration does not permit.         *)
LEMMA PollIsPermitted ==
  ASSUME ApprovalInv, [PollNext]_dvars, sends' > sends \/ key' \notin {key, NoKey}
  PROVE  PermittedNow(key')
<1>1. sends \in Nat
  BY LimitsAssumption DEF ApprovalInv, Counts
<1>2. ~(key' = key /\ sends' = sends) /\ ~(key' = NoKey /\ sends' = 0)
  BY <1>1
<1>3. PICK outcome \in Outcomes : outcome.settings = config /\ Approves(outcome)
  BY <1>2, Zenon DEF PollNext, Configure, Poll, Answered, dvars, approvalVars, sending, OtherScreen,
     NotRead, LeftToHuman, AskFirst, AskAgain, AskWaits, AskedEnough, Question, HumanDecides,
     Unclear, AnsweredDone, AnsweredNotDone, Undecided, Outcome, QuestionLost
<1>4. key' = outcome.request
  BY <1>2, <1>3 DEF Approves, Repeats, ApproveFirst, ApproveWaits, ApproveRetry, sending
<1>5. Permitted(config, outcome.request)
  BY <1>3, OutcomeOf, AllowedDecision DEF Approves
<1>6. QED
  BY <1>4, <1>5, Zenon DEF Permitted, PermittedNow

(* Each answer typed into the session, a first one or a repetition, is     *)
(* permitted by the configuration of that poll.                            *)
THEOREM AnswersArePermitted == DialogSpec => ApprovalsArePermitted
<1>1. ApprovalInv /\ [PollNext]_dvars
        => [sends' > sends \/ key' \notin {key, NoKey} => PermittedNow(key')]_dvars
  BY PollIsPermitted
<1>2. QED
  BY <1>1, DialogInvariant, PTL DEF DialogSpec, ApprovalsArePermitted

-----------------------------------------------------------------------------
(* Scrollback above a dialog.                                              *)

LEMMA LeastNumber ==
  ASSUME NEW S \in SUBSET Nat, S # {}
  PROVE  Min(S) \in S /\ \A n \in S : Min(S) <= n
<1>1. PICK m \in S : \A n \in S : <<n, m>> \notin OpToRel(<, Nat)
  BY NatLessThanWellFounded, WFMin, Zenon
<1>2. ASSUME NEW n \in S
      PROVE  m <= n
  <2>1. ASSUME n < m PROVE <<n, m>> \in OpToRel(<, Nat)
    <3>1. <<n, m>> \in Nat \X Nat /\ <<n, m>>[1] < <<n, m>>[2]
      BY <2>1
    <3>2. QED
      BY <3>1, Zenon DEF OpToRel
  <2>2. ~(n < m)
    BY <1>1, <2>1, Zenon
  <2>3. QED
    BY <2>2
<1>3. QED
  BY <1>1, <1>2, Zenon DEF Min

(* The lines of a dialog under scrollback, and where they are.             *)
LEMMA LinesBelow ==
  ASSUME NEW above \in Seq(Lines), NEW screen \in Seq(Lines)
  PROVE  /\ above \o screen \in Seq(Lines) /\ Len(above \o screen) = Len(above) + Len(screen)
         /\ \A i \in 1..Len(above) : (above \o screen)[i] = above[i]
         /\ \A i \in 1..Len(screen) : (above \o screen)[Len(above) + i] = screen[i]
         /\ ToSet(above \o screen) = ToSet(above) \cup ToSet(screen)
<1>1. Len(above) \in Nat /\ Len(screen) \in Nat
  OBVIOUS
<1>2. /\ above \o screen \in Seq(Lines) /\ Len(above \o screen) = Len(above) + Len(screen)
      /\ \A i \in 1..(Len(above) + Len(screen)) :
           (above \o screen)[i] = IF i <= Len(above) THEN above[i] ELSE screen[i - Len(above)]
  BY ConcatProperties, Zenon
<1>3. \A i \in 1..Len(above) : (above \o screen)[i] = above[i]
  BY <1>1, <1>2
<1>4. \A i \in 1..Len(screen) : (above \o screen)[Len(above) + i] = screen[i]
  BY <1>1, <1>2
<1>5. ToSet(above \o screen) \subseteq ToSet(above) \cup ToSet(screen)
  <2> SUFFICES ASSUME NEW i \in 1..(Len(above) + Len(screen))
               PROVE  (above \o screen)[i] \in ToSet(above) \cup ToSet(screen)
    BY <1>1, <1>2 DEF ToSet
  <2>1. CASE i <= Len(above)
    BY <1>1, <1>3, <2>1 DEF ToSet
  <2>2. CASE ~(i <= Len(above))
    <3>1. i - Len(above) \in 1..Len(screen) /\ (above \o screen)[i] = screen[i - Len(above)]
      BY <1>1, <1>2, <2>2
    <3>2. QED
      BY <3>1 DEF ToSet
  <2>3. QED
    BY <2>1, <2>2
<1>6. ToSet(above) \subseteq ToSet(above \o screen)
  BY <1>1, <1>2, <1>3 DEF ToSet
<1>7. ToSet(screen) \subseteq ToSet(above \o screen)
  <2> SUFFICES ASSUME NEW i \in 1..Len(screen)
               PROVE  screen[i] \in ToSet(above \o screen)
    BY DEF ToSet
  <2>1. Len(above) + i \in 1..(Len(above) + Len(screen))
    BY <1>1
  <2>2. QED
    BY <1>2, <1>4, <2>1 DEF ToSet
<1>8. QED
  BY <1>2, <1>3, <1>4, <1>5, <1>6, <1>7

(* Where the dialog has approval lines, they alone are parsed.             *)
LEMMA SameScope ==
  ASSUME NEW above \in Prose, NEW screen \in Seq(Lines), Approvals(screen) # {}
  PROVE  Scope(above \o screen) = Scope(screen)
<1>1. ToSet(above \o screen) = ToSet(above) \cup ToSet(screen)
  BY LinesBelow, ScreensAssumption DEF Prose
<1>2. Approvals(above \o screen) = Approvals(screen)
  BY <1>1 DEF Approvals, Prose
<1>3. QED
  BY <1>2 DEF Scope

(* The first line that names directory access stays the first.             *)
LEMMA SameAccess ==
  ASSUME NEW above \in Prose, NEW screen \in Seq(Lines)
  PROVE  DirectoryAccess(above \o screen) = DirectoryAccess(screen)
<1> DEFINE whole == above \o screen
           n == Len(above)
           I == {i \in 1..Len(screen) : screen[i].access}
           J == {i \in 1..Len(whole) : whole[i].access}
<1>1. above \in Seq(Lines) /\ n \in Nat /\ Len(screen) \in Nat
  BY ScreensAssumption DEF Prose
<1>2. \A i \in 1..n : ~above[i].access
  BY <1>1 DEF Prose, ToSet
<1>3. /\ Len(whole) = n + Len(screen)
      /\ \A i \in 1..n : whole[i] = above[i]
      /\ \A i \in 1..Len(screen) : whole[n + i] = screen[i]
  BY <1>1, LinesBelow
<1> HIDE DEF whole, n
<1>4. \A j \in Nat : j \in J <=> j - n \in I
  <2> SUFFICES ASSUME NEW j \in Nat
               PROVE  j \in J <=> j - n \in I
    OBVIOUS
  <2>1. CASE j <= n
    BY <1>1, <1>2, <1>3, <2>1
  <2>2. CASE j > n
    <3>1. j - n \in Nat \ {0} /\ n + (j - n) = j
      BY <1>1, <2>2
    <3>2. j \in 1..Len(whole) <=> j - n \in 1..Len(screen)
      BY <1>1, <1>3, <3>1
    <3>3. QED
      BY <1>3, <3>1, <3>2
  <2>3. QED
    BY <1>1, <2>1, <2>2
<1>5. /\ SelectInSeq(screen, LAMBDA line : line.access) = IF I # {} THEN Min(I) ELSE 0
      /\ SelectInSeq(whole, LAMBDA line : line.access) = IF J # {} THEN Min(J) ELSE 0
  BY DEF SelectInSeq
<1>6. CASE I = {}
  <2>1. J = {}
    <3>1. J \subseteq Nat
      BY <1>1, <1>3
    <3>2. QED
      BY <1>4, <1>6, <3>1
  <2>2. QED
    BY <1>5, <1>6, <2>1 DEF DirectoryAccess, whole
<1>7. CASE I # {}
  <2>1. I \subseteq Nat /\ J \subseteq Nat /\ I \subseteq 1..Len(screen)
    BY <1>1, <1>3
  <2>2. \A i \in I : n + i \in J
    <3> SUFFICES ASSUME NEW i \in I
                 PROVE  n + i \in J
      OBVIOUS
    <3>1. n + i \in Nat /\ (n + i) - n = i
      BY <1>1, <2>1
    <3>2. QED
      BY <1>4, <3>1, Zenon
  <2> HIDE DEF I, J
  <2>3. J # {}
    BY <1>7, <2>2
  <2>4. /\ Min(I) \in I /\ \A i \in I : Min(I) <= i
        /\ Min(J) \in J /\ \A j \in J : Min(J) <= j
    BY <1>7, <2>1, <2>3, LeastNumber
  <2>5. Min(J) - n \in I
    BY <1>4, <2>1, <2>4
  <2>6. Min(J) = n + Min(I)
    <3>1. Min(J) <= n + Min(I) /\ Min(I) <= Min(J) - n
      BY <2>2, <2>4, <2>5
    <3>2. Min(J) \in Nat /\ Min(I) \in Nat
      BY <2>1, <2>4
    <3>3. QED
      BY <1>1, <3>1, <3>2
  <2>7. whole[Min(J)] = screen[Min(I)]
    BY <1>3, <2>1, <2>4, <2>6
  <2>8. Min(I) # 0 /\ Min(J) # 0
    <3>1. Min(I) \in 1..Len(screen)
      BY <2>1, <2>4
    <3>2. QED
      BY <1>1, <2>6, <3>1
  <2>9. QED
    BY <1>5, <1>7, <2>3, <2>7, <2>8 DEF DirectoryAccess, whole
<1>8. QED
  BY <1>6, <1>7

LEMMA ScrollbackDecidesNothing ==
  ASSUME NEW s \in Settings, NEW screen \in Screens
  PROVE  Steady(s, screen)
<1> SUFFICES ASSUME Approvals(screen) # {}, NEW above \in Prose
             PROVE  Decision(s, above \o screen) = Decision(s, screen)
  BY DEF Steady
<1>1. Scope(above \o screen) = Scope(screen) /\ DirectoryAccess(above \o screen) = DirectoryAccess(screen)
  BY SameScope, SameAccess, ScreensAssumption
<1>2. Parse(above \o screen) = Parse(screen)
  BY <1>1, Zenon DEF Parse
<1>3. QED
  BY <1>1, <1>2, Zenon DEF Decision, Evaluate

(* Whatever is on screen above a dialog, no poll decides it otherwise.     *)
THEOREM ScrollbackIgnored == DialogSpec => []ScrollbackIsContext
<1>1. PollInit => ScrollbackIsContext
  BY DEF PollInit, ScrollbackIsContext
<1>2. ScrollbackIsContext /\ [PollNext]_dvars => ScrollbackIsContext'
  <2> SUFFICES ASSUME steady, [PollNext]_dvars
               PROVE  steady'
    BY DEF ScrollbackIsContext
  <2>1. CASE UNCHANGED steady
    BY <2>1
  <2>2. CASE \E outcome \in Outcomes : steady' = outcome.steady
    <3>1. PICK s \in Settings, screen \in Screens : steady' = Steady(s, screen)
      BY <2>2 DEF Outcomes
    <3>2. QED
      BY <3>1, ScrollbackDecidesNothing
  <2>3. QED
    BY <2>1, <2>2, Zenon DEF PollNext, Configure, Poll, Answered, dvars
<1>3. QED
  BY <1>1, <1>2, PTL DEF DialogSpec
=============================================================================
