-------------------------- MODULE PermissionDialog --------------------------
(***************************************************************************)
(* The watcher at a permission dialog: each poll reads the settings again, *)
(* reads the screen, and what the policy decides (Permissions) chooses     *)
(* which of the steps of Approval the poll takes.                          *)
(***************************************************************************)
EXTENDS Approval, Permissions

CONSTANTS
  Lines, Screens,   \* the lines of a screen, the screens a poll may see
  Settings          \* configurations an operator may write

ASSUME ScreensAssumption ==
  /\ Lines \subseteq [approval : BOOLEAN, privileged : BOOLEAN, ops : SUBSET {"read", "write", "create", "delete"},
                     paths : SUBSET Paths, access : BOOLEAN]
  /\ Screens \subseteq Seq(Lines)

(* What the configuration's validation lets through.                       *)
ASSUME SettingsAssumption ==
  \A s \in Settings : s.policy \in {"prompt", "project-temp-auto", "allowlist", "deny", "auto"}

VARIABLES
  config,    \* permission_policy, permission_temp_root, permission_actions
  steady     \* history: no scrollback above the last dialog would have changed its decision

dvars == <<approvalVars, config, steady>>

PollInit == ApprovalInit /\ steady = TRUE /\ config \in Settings

Configure == config' \in Settings /\ UNCHANGED <<approvalVars, steady>>

Prose == {screen \in Screens : \A line \in ToSet(screen) : ~line.approval /\ ~line.access}

Steady(s, screen) ==
  Approvals(screen) # {} =>
    \A above \in Prose : Decision(s, above \o screen) = Decision(s, screen)

(* What a poll can decide under the possible settings, over all screens.   *)
Outcomes ==
  {LET decision == Decision(s, screen)
   IN  [settings |-> s, result |-> decision.result, request |-> decision.request,
        steady |-> Steady(s, screen)] :
     s \in Settings, screen \in Screens}

Repeats_AnyRequest(request) == key # NoKey

Repeats(request) == key = request

(* Allowed, and the adapter has a safe answer for the dialog.              *)
Approves(outcome) ==
  /\ outcome.result = "allow"
  /\ \/ /\ ~Repeats(outcome.request)
        /\ ApproveFirst /\ key' \in {key, outcome.request}
     \/ Repeats(outcome.request) /\ (ApproveWaits \/ ApproveRetry)

Unreadable(outcome) == outcome.result = "waiting" /\ outcome.request = NoRequest

(* Waiting without a request: the policy could not read the dialog.        *)
NotRead(outcome) ==
  /\ Unreadable(outcome)
  /\ AskFirst \/ AskAgain \/ AskWaits \/ AskedEnough

LeftToHuman(outcome) ==
  /\ ~Unreadable(outcome)
  /\ HumanDecides

Poll ==
  /\ \/ OtherScreen /\ UNCHANGED steady
     \/ \E outcome \in {o \in Outcomes : o.settings = config} :
          /\ Approves(outcome) \/ NotRead(outcome) \/ LeftToHuman(outcome)
          /\ steady' = outcome.steady
  /\ UNCHANGED config

Answered ==
  /\ Unclear \/ AnsweredDone \/ AnsweredNotDone \/ Undecided \/ QuestionLost
  /\ UNCHANGED <<config, steady>>

PollNext == Configure \/ Poll \/ Answered

DialogSpec == PollInit /\ [][PollNext]_dvars

-----------------------------------------------------------------------------
(* Each answer typed into the session, a first one or a repetition, is     *)
(* permitted by the configuration of that poll: an operator who turned the *)
(* policy off, removed an action or a root is never overruled by an        *)
(* approval that was under way.                                            *)
PermittedNow(request) ==
  /\ config.policy \in {"project-temp-auto", "allowlist", "auto"}
  /\ request.op \in config.actions
  /\ \/ config.policy = "auto"
     \/ request.place \in InAllowlist
     \/ config.policy = "project-temp-auto" /\ config.temp /\ request.place \in InTempRoot

ApprovalsArePermitted == [][sends' > sends \/ key' \notin {key, NoKey} => PermittedNow(key')]_dvars

(* "SHALL NOT deny a parsed file request solely because unrelated          *)
(* scrollback context lines contain such words" (configurable-permissions  *)
(* spec:54): lines above the dialog that are no part of it and name no     *)
(* directory access, whatever words and paths they have, change no         *)
(* decision about it.                                                      *)
ScrollbackIsContext == steady
=============================================================================
