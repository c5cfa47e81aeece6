------------------------------ MODULE Approval ------------------------------
(***************************************************************************)
(* How the watcher treats a permission dialog in the provider session      *)
(* (_handle_approval in ariadex/robot.py): approvals for what the policy   *)
(* allows, questions about what it cannot read, waiting for the rest.      *)
(*                                                                         *)
(* A step is one poll, or one question of a poll.  The screen of each poll *)
(* is arbitrary: an episode is a run of polls that all saw a dialog.  What *)
(* lies around the dialogs is module Watcher.                              *)
(***************************************************************************)
EXTENDS Naturals

CONSTANTS
  Requests,    \* what a dialog the policy reads and allows may ask for
  NoKey,
  PERMISSION_MAX_SENDS, PERMISSION_RETRY_QUIET_POLLS, APPROVAL_REASK_QUIET_POLLS

ASSUME NoKeyAssumption == NoKey \notin Requests
ASSUME LimitsAssumption ==
  /\ PERMISSION_MAX_SENDS \in Nat \ {0}
  /\ PERMISSION_RETRY_QUIET_POLLS \in Nat \ {0}
  /\ APPROVAL_REASK_QUIET_POLLS \in Nat \ {0}

VARIABLES
  turn,        \* "poll", or the question under way: "first" or "backup"
  key,         \* _last_permission_key
  sends,       \* _permission_sends
  quiet,       \* _permission_quiet, up to its threshold
  asks,        \* _approval_asks
  askQuiet,    \* _approval_quiet
  rearm,       \* _approval_rearm
  escalated,   \* _approval_escalated
  approved,    \* history: approvals sent for this request in this episode
  questions,   \* history: questions sent in this episode
  gap          \* history: polls since the last approval for this request, up to the threshold

sending == <<key, sends, quiet, approved, gap>>
asking == <<asks, askQuiet, rearm, escalated, questions>>
approvalVars == <<turn, sending, asking>>

UpTo(bound, n) == IF n < bound THEN n ELSE bound

(* The histories stop counting one past what they are to be bounded by.    *)
Counted(n, bound) == UpTo(bound + 1, n + 1)

ApprovalInit ==
  /\ turn = "poll"
  /\ key = NoKey /\ sends = 0 /\ quiet = 0 /\ approved = 0 /\ gap = 0
  /\ asks = 0 /\ askQuiet = 0 /\ rearm = FALSE /\ escalated = FALSE /\ questions = 0

(* Any other screen ends the episode.                                      *)
OtherScreen ==
  /\ turn = "poll"
  /\ key' = NoKey /\ sends' = 0 /\ quiet' = 0 /\ approved' = 0 /\ gap' = 0
  /\ asks' = 0 /\ askQuiet' = 0 /\ rearm' = FALSE /\ escalated' = FALSE /\ questions' = 0
  /\ UNCHANGED turn

(* The dialog is the human's: denied, or allowed without a safe answer.    *)
HumanDecides ==
  /\ turn = "poll"
  /\ UNCHANGED approvalVars

-----------------------------------------------------------------------------
(* The policy allows the request on screen.                                *)

(* The first send for a request; it counts only when it was delivered.     *)
ApproveFirst ==
  /\ turn = "poll"
  /\ \E request \in Requests \ {key} :
       \/ key' = request /\ sends' = 1 /\ quiet' = 0 /\ approved' = 1 /\ gap' = 0
       \/ UNCHANGED sending
  /\ UNCHANGED <<turn, asking>>

SendsLeft_OffByOne == sends <= PERMISSION_MAX_SENDS

SendsLeft == sends < PERMISSION_MAX_SENDS

QuietNow == UpTo(PERMISSION_RETRY_QUIET_POLLS, quiet + 1)

GapNow == UpTo(PERMISSION_RETRY_QUIET_POLLS, gap + 1)

(* Already answered: wait for the provider, or for the human for good.     *)
ApproveWaits ==
  /\ turn = "poll" /\ key # NoKey
  /\ ~SendsLeft \/ QuietNow < PERMISSION_RETRY_QUIET_POLLS
  /\ quiet' = QuietNow /\ gap' = GapNow
  /\ UNCHANGED <<turn, key, sends, approved, asking>>

(* A retry, of the same input and then of the other one, delivered or not. *)
ApproveRetry ==
  /\ turn = "poll" /\ key # NoKey
  /\ SendsLeft /\ QuietNow >= PERMISSION_RETRY_QUIET_POLLS
  /\ \/ /\ sends' = sends + 1 /\ quiet' = 0
        /\ gap' = 0 /\ approved' = Counted(approved, PERMISSION_MAX_SENDS)
     \/ quiet' = QuietNow /\ gap' = GapNow /\ UNCHANGED <<sends, approved>>
  /\ UNCHANGED <<turn, key, asking>>

-----------------------------------------------------------------------------
(* The policy cannot read the dialog: ask, and after quiet polls ask once  *)
(* more when the answer was no.                                            *)

(* _ask_confirm sends the question; the transport may fail before that.    *)
Question(n) ==
  /\ asks' = n
  /\ rearm' = FALSE
  /\ \/ turn' = "first" /\ questions' = Counted(questions, 4)
     \/ UNCHANGED <<turn, questions>>
  /\ UNCHANGED <<sending, askQuiet, escalated>>

AskFirst ==
  /\ turn = "poll" /\ ~escalated
  /\ asks = 0
  /\ Question(1)

AskAgain_Uncounted ==
  /\ turn = "poll" /\ ~escalated
  /\ asks = 1 /\ rearm /\ askQuiet >= APPROVAL_REASK_QUIET_POLLS
  /\ Question(1)

AskAgain ==
  /\ turn = "poll" /\ ~escalated
  /\ asks = 1 /\ rearm /\ askQuiet >= APPROVAL_REASK_QUIET_POLLS
  /\ Question(2)

AskWaits ==
  /\ turn = "poll" /\ ~escalated
  /\ asks = 1 /\ rearm /\ askQuiet < APPROVAL_REASK_QUIET_POLLS
  /\ askQuiet' = askQuiet + 1
  /\ UNCHANGED <<turn, sending, asks, rearm, escalated, questions>>

(* Asked, and nothing more to ask: the human decides.                      *)
AskedEnough ==
  /\ turn = "poll"
  /\ escalated \/ asks = 2 \/ (asks = 1 /\ ~rearm)
  /\ UNCHANGED approvalVars

Asking == turn \in {"first", "backup"}

Outcome(rearmed, gaveUp) ==
  /\ rearm' = rearmed /\ escalated' = gaveUp
  /\ turn' = "poll"
  /\ UNCHANGED <<sending, asks, askQuiet, questions>>

(* No answer, or none that can be read: the stricter question.             *)
Unclear ==
  /\ turn = "first"
  /\ turn' = "backup"
  /\ questions' = Counted(questions, 4)
  /\ UNCHANGED <<sending, asks, askQuiet, rearm, escalated>>

AnsweredDone == Asking /\ Outcome(FALSE, escalated)

AnsweredNotDone == Asking /\ Outcome(asks = 1, escalated \/ asks = 2)

(* Unclear again, or the operator paused or stopped during the wait.       *)
Undecided == Asking /\ Outcome(FALSE, escalated \/ asks = 2)

(* The session is lost during a question: the poll ends as it is.          *)
QuestionLost == Asking /\ turn' = "poll" /\ UNCHANGED <<sending, asking>>

ApprovalNext ==
  \/ OtherScreen \/ HumanDecides
  \/ ApproveFirst \/ ApproveWaits \/ ApproveRetry
  \/ AskFirst \/ AskAgain \/ AskWaits \/ AskedEnough
  \/ Unclear \/ AnsweredDone \/ AnsweredNotDone \/ Undecided \/ QuestionLost

ApprovalSpec == ApprovalInit /\ [][ApprovalNext]_approvalVars

-----------------------------------------------------------------------------
(* Every variable has the values the code writes.                          *)
ApprovalTypeOK ==
  /\ turn \in {"poll", "first", "backup"}
  /\ key \in Requests \cup {NoKey}
  /\ sends \in 0..PERMISSION_MAX_SENDS
  /\ quiet \in 0..PERMISSION_RETRY_QUIET_POLLS /\ gap \in 0..PERMISSION_RETRY_QUIET_POLLS
  /\ asks \in 0..2 /\ askQuiet \in 0..APPROVAL_REASK_QUIET_POLLS
  /\ rearm \in BOOLEAN /\ escalated \in BOOLEAN
  /\ approved \in 0..(PERMISSION_MAX_SENDS + 1) /\ questions \in 0..5

(* "At most three sends per distinct request" (robot.py:1546), counted on  *)
(* the session's side: while a request stays the last one answered and no  *)
(* other screen was seen, failed deliveries and questions in between       *)
(* included.                                                               *)
ApprovalsAreBounded == approved <= PERMISSION_MAX_SENDS

(* An unreadable dialog gets two questions with one stricter repetition    *)
(* each, however long it stays, fails, or alternates with readable ones.   *)
QuestionsAreBounded == questions <= 4

(* A repeated approval comes only after quiet polls that saw the dialog    *)
(* stay, so that one answer is never typed twice into two dialogs.         *)
RetriesAreSpaced ==
  [][approved' > approved /\ key' = key => gap + 1 >= PERMISSION_RETRY_QUIET_POLLS]_approvalVars
=============================================================================
