---------------------------- MODULE DesktopProofs ----------------------------
(***************************************************************************)
(* Theorems about Companion, Hub and Keymap, for any number of presses,    *)
(* messages and events, of hubs and projects, of windows, keys and saves.  *)
(***************************************************************************)
EXTENDS Companion, Hub, Keymap, SequenceTheorems, TLAPS

-----------------------------------------------------------------------------
(* The window of a project.                                                *)

Buttons == {"pause", "resume", "reconcile", "retry", "switch", "close"}
Views == [mode : Modes \cup {"unknown"}, alive : BOOLEAN, manual : BOOLEAN]

Presses ==
  [action : Buttons \cup {"none", "send", "stop"}, text : Messages \cup {Empty},
   step : {"none", "sent", "answered"}, ok : BOOLEAN, view : Views, generation : Nat]

Polls == [step : {"none", "sent", "answered"}, ok : BOOLEAN, view : Views]

Daemons ==
  [generation : Nat \ {0}, up : {"running", "ending", "stopping", "down"}, mode : Modes, watcher : BOOLEAN]

CompanionTypeOK ==
  /\ daemon \in Daemons
  /\ shown \in Views /\ armed \in BOOLEAN
  /\ press \in Presses /\ late \in Presses /\ poll \in Polls
  /\ box \in Messages \cup {Empty} /\ display \in {"collapsed", "full", "strip"}
  /\ open \in BOOLEAN /\ delivered \subseteq Messages \cup {Empty}
  /\ presses \in Nat /\ events \in Nat

(* A request is not granted before it is answered.                         *)
AnswerComesLater == press.step = "sent" => ~press.ok

(* A close that was granted has taken the daemon it reached out of         *)
(* service, for good: only a later generation can run.                     *)
CloseWasGranted ==
  press.step = "answered" /\ press.ok /\ press.action = "close" =>
    /\ press.generation \in 1..daemon.generation
    /\ press.generation = daemon.generation => daemon.up # "running"

(* A send that was granted was taken by the daemon.                        *)
SendWasGranted ==
  press.step = "answered" /\ press.ok /\ press.action = "send" => press.text \in delivered

CompanionInv == CompanionTypeOK /\ AnswerComesLater /\ CloseWasGranted /\ SendWasGranted

LEMMA NoPressType == NoPress \in Presses /\ NoPoll \in Polls /\ Unreachable \in Views
BY DEF NoPress, NoPoll, Unreachable, Presses, Polls, Views

LEMMA ViewOf ==
  ASSUME NEW mode \in Modes, NEW alive \in BOOLEAN, NEW manual \in BOOLEAN
  PROVE  [mode |-> mode, alive |-> alive, manual |-> manual] \in Views
BY DEF Views

LEMMA ViewType ==
  ASSUME daemon \in Daemons
  PROVE  View \in Views
<1>1. daemon.mode \in Modes /\ daemon.watcher \in BOOLEAN /\ (daemon.up \in {"running", "ending"}) \in BOOLEAN
  BY DEF Daemons
<1>2. QED
  BY <1>1, ViewOf, Zenon DEF View

LEMMA ViewTypeNext ==
  ASSUME daemon' \in Daemons
  PROVE  View' \in Views
<1>1. /\ daemon'.mode \in Modes /\ daemon'.watcher \in BOOLEAN
      /\ (daemon'.up \in {"running", "ending"}) \in BOOLEAN
  BY DEF Daemons
<1>2. QED
  BY <1>1, ViewOf, Zenon DEF View

LEMMA CompanionStarts == CompanionInit => CompanionInv
<1> SUFFICES ASSUME CompanionInit
             PROVE  CompanionInv
  OBVIOUS
<1>1. daemon \in Daemons
  BY DEF CompanionInit, Daemons
<1>2. shown \in Views
  <2>1. View \in Views
    BY <1>1, ViewType
  <2>2. QED
    BY <2>1, NoPressType DEF CompanionInit
<1>3. CompanionTypeOK
  BY <1>1, <1>2, NoPressType DEF CompanionInit, CompanionTypeOK
<1>4. QED
  BY <1>3 DEF CompanionInit, CompanionInv, NoPress, AnswerComesLater, CloseWasGranted, SendWasGranted

(* What a request does to the daemon, whoever waits for the answer.        *)
LEMMA HandledType ==
  ASSUME CompanionTypeOK, NEW p \in Presses, NEW ok \in BOOLEAN, Handles(p.action, p.text, ok)
  PROVE  /\ daemon' \in Daemons
         /\ daemon'.generation = daemon.generation
         /\ daemon.up # "running" => daemon'.up # "running"
         /\ p.action = "close" => daemon'.up # "running"
         /\ delivered' \subseteq Messages \cup {Empty} /\ delivered \subseteq delivered'
         /\ ok /\ p.action = "send" => p.text \in delivered'
<1>1. /\ delivered' \subseteq Messages \cup {Empty} /\ delivered \subseteq delivered'
      /\ ok /\ p.action = "send" => p.text \in delivered'
  BY DEF CompanionTypeOK, Handles, Presses
<1>2. CASE UNCHANGED daemon /\ p.action # "close"
  BY <1>1, <1>2 DEF CompanionTypeOK
<1>3. CASE p.action # "close" /\ \E mode \in Modes : daemon' = [daemon EXCEPT !.mode = mode]
  BY <1>1, <1>3 DEF CompanionTypeOK, Daemons
<1>4. CASE \E up \in {"ending", "stopping"} : daemon' = [daemon EXCEPT !.up = up]
  BY <1>1, <1>4 DEF CompanionTypeOK, Daemons
<1>5. QED
  BY <1>2, <1>3, <1>4 DEF Handles, Modes

(* A press puts one request of its own on its way.                         *)
LEMMA AskedType ==
  ASSUME CompanionInv, NEW action \in Buttons \cup {"send", "stop"}, NEW text \in Messages \cup {Empty},
         Asks(action, text), UNCHANGED <<daemon, late, poll, delivered>>
  PROVE  /\ press' \in Presses /\ presses' \in Nat
         /\ AnswerComesLater' /\ CloseWasGranted' /\ SendWasGranted'
<1>1. press' = [NoPress EXCEPT !.action = action, !.text = text, !.step = "sent"] /\ presses' = presses + 1
  BY DEF Asks
<1>2. press' \in Presses /\ press'.step = "sent" /\ press'.ok = FALSE
  BY <1>1, NoPressType DEF NoPress, Presses, Views, Unreachable
<1>3. QED
  BY <1>1, <1>2 DEF CompanionInv, CompanionTypeOK, AnswerComesLater, CloseWasGranted, SendWasGranted

LEMMA ButtonsKeep ==
  ASSUME CompanionInv,
         (\E action \in Buttons : OnButton(action)) \/ OnHotkey \/ OnSend \/ OnStop \/ OnStopAgain \/ DisarmStop
  PROVE  CompanionInv'
<1> USE DEF CompanionInv, CompanionTypeOK
<1>1. CASE OnStop \/ DisarmStop \/ (OnStopAgain /\ UNCHANGED <<press, presses>>)
  BY <1>1 DEF OnStop, DisarmStop, OnStopAgain, AnswerComesLater, CloseWasGranted, SendWasGranted
<1>2. CASE OnSend
  BY <1>2, AskedType DEF OnSend
<1>3. CASE OnHotkey
  BY <1>3, AskedType DEF OnHotkey, Buttons
<1>4. CASE OnStopAgain /\ Asks("stop", Empty)
  BY <1>4, AskedType DEF OnStopAgain
<1>5. CASE \E action \in Buttons : OnButton(action)
  BY <1>5, AskedType DEF OnButton
<1>6. QED
  BY <1>1, <1>2, <1>3, <1>4, <1>5 DEF OnStopAgain

(* The request in flight: answered, given up, and shown.                   *)
LEMMA RequestKeeps ==
  ASSUME CompanionInv, Serves \/ GivesUp \/ ServesLate \/ Finish
  PROVE  CompanionInv'
<1> USE DEF CompanionInv, CompanionTypeOK
<1>1. CASE Serves
  <2>1. PICK ok \in BOOLEAN :
          /\ Handles(press.action, press.text, ok)
          /\ press' = [press EXCEPT !.step = "answered", !.ok = ok, !.view = View',
                                    !.generation = daemon.generation]
    BY <1>1 DEF Serves
  <2>2. View' \in Views
    BY <2>1, HandledType, ViewTypeNext
  <2>3. press' \in Presses
    <3>1. daemon.generation \in Nat /\ press \in Presses
      BY DEF Daemons
    <3>2. QED
      BY <2>1, <2>2, <3>1 DEF Presses
  <2>4. CompanionTypeOK'
    BY <1>1, <2>1, <2>3, HandledType DEF Serves
  <2>5. CloseWasGranted' /\ SendWasGranted' /\ AnswerComesLater'
    <3>1. /\ press'.step = "answered" /\ press'.ok = ok /\ press'.generation = daemon.generation
          /\ press'.action = press.action /\ press'.text = press.text
      BY <2>1 DEF Presses
    <3>2. daemon.generation \in 1..daemon.generation
      BY DEF Daemons
    <3>3. QED
      BY <2>1, <3>1, <3>2, HandledType DEF CloseWasGranted, SendWasGranted, AnswerComesLater
  <2>6. QED
    BY <2>4, <2>5
<1>2. CASE GivesUp
  <2>1. press' \in Presses /\ late' \in Presses /\ events' \in Nat
    BY <1>2 DEF GivesUp, Presses
  <2>2. CloseWasGranted' /\ SendWasGranted' /\ AnswerComesLater'
    BY <1>2 DEF GivesUp, Presses, CloseWasGranted, SendWasGranted, AnswerComesLater
  <2>3. QED
    BY <1>2, <2>1, <2>2 DEF GivesUp
<1>3. CASE ServesLate
  <2>1. PICK ok \in BOOLEAN : Handles(late.action, late.text, ok)
    BY <1>3 DEF ServesLate
  <2>2. CompanionTypeOK'
    BY <1>3, <2>1, HandledType, NoPressType DEF ServesLate
  <2>3. CloseWasGranted' /\ SendWasGranted' /\ AnswerComesLater'
    BY <1>3, <2>1, HandledType DEF ServesLate, Presses, CloseWasGranted, SendWasGranted, AnswerComesLater
  <2>4. QED
    BY <2>2, <2>3
<1>4. CASE Finish
  <2>1. CompanionTypeOK'
    BY <1>4, NoPressType DEF Finish, Presses
  <2>2. QED
    BY <1>4, <2>1 DEF Finish, NoPress, CloseWasGranted, SendWasGranted, AnswerComesLater
<1>5. QED
  BY <1>1, <1>2, <1>3, <1>4

(* The poll, and what the operator does to the window itself.              *)
LEMMA PollKeeps ==
  ASSUME CompanionInv, PollBegins \/ PollAnswered \/ PollFails \/ PollFinishes \/ Types \/ Toggles
  PROVE  CompanionInv'
<1>1. CompanionTypeOK'
  <2>1. poll' \in Polls
    <3>1. CASE PollBegins \/ PollFails
      BY <3>1, NoPressType DEF PollBegins, PollFails, Polls
    <3>2. CASE PollAnswered
      BY <3>2, ViewType DEF CompanionInv, CompanionTypeOK, PollAnswered, Polls
    <3>3. CASE PollFinishes \/ Types \/ Toggles
      BY <3>3, NoPressType DEF CompanionInv, CompanionTypeOK, PollFinishes, Types, Toggles
    <3>4. QED
      BY <3>1, <3>2, <3>3
  <2>2. shown' \in Views
    BY DEF CompanionInv, CompanionTypeOK, PollBegins, PollAnswered, PollFails, PollFinishes, Types, Toggles, Polls
  <2>3. events' \in Nat /\ box' \in Messages \cup {Empty} /\ display' \in {"collapsed", "full", "strip"}
    BY DEF CompanionInv, CompanionTypeOK, PollBegins, PollAnswered, PollFails, PollFinishes, Types, Toggles
  <2>4. QED
    BY <2>1, <2>2, <2>3 DEF CompanionInv, CompanionTypeOK, PollBegins, PollAnswered, PollFails,
       PollFinishes, Types, Toggles
<1>2. UNCHANGED <<press, daemon, delivered>>
  BY DEF PollBegins, PollAnswered, PollFails, PollFinishes, Types, Toggles
<1>3. QED
  BY <1>1, <1>2 DEF CompanionInv, AnswerComesLater, CloseWasGranted, SendWasGranted

(* What others do to the daemon: a generation that is out of service       *)
(* stays so.                                                               *)
LEMMA DaemonKeeps ==
  ASSUME CompanionInv, ModeChanges \/ WatcherLeaves \/ DaemonEnds \/ DaemonDies \/ DaemonStarts
  PROVE  CompanionInv'
<1>1. CompanionTypeOK'
  <2>1. daemon' \in Daemons
    <3>1. CASE ModeChanges
      BY <3>1 DEF CompanionInv, CompanionTypeOK, ModeChanges, Daemons
    <3>2. CASE WatcherLeaves \/ DaemonEnds \/ DaemonDies
      BY <3>2 DEF CompanionInv, CompanionTypeOK, WatcherLeaves, DaemonEnds, DaemonDies, Daemons
    <3>3. CASE DaemonStarts
      <4>1. daemon.generation + 1 \in Nat \ {0} /\ daemon \in Daemons
        BY DEF CompanionInv, CompanionTypeOK, Daemons
      <4>2. daemon' = [daemon EXCEPT !.generation = daemon.generation + 1, !.up = "running", !.watcher = TRUE]
        BY <3>3 DEF DaemonStarts
      <4>3. QED
        BY <4>1, <4>2 DEF Daemons
    <3>4. QED
      BY <3>1, <3>2, <3>3
  <2>2. late' \in Presses /\ events' \in Nat /\ open' \in BOOLEAN
    <3>1. CASE ModeChanges \/ WatcherLeaves \/ DaemonStarts
      BY <3>1 DEF CompanionInv, CompanionTypeOK, ModeChanges, WatcherLeaves, DaemonStarts, Happens
    <3>2. CASE DaemonEnds \/ DaemonDies
      <4>1. late' = NoPress /\ (events' = events \/ events' = events + 1)
        BY <3>2, Zenon DEF DaemonEnds, DaemonDies, Happens
      <4>2. open' \in BOOLEAN
        BY <3>2, Zenon DEF CompanionInv, CompanionTypeOK, DaemonEnds, DaemonDies
      <4>3. QED
        BY <4>1, <4>2, NoPressType DEF CompanionInv, CompanionTypeOK
    <3>3. QED
      BY <3>1, <3>2
  <2>3. QED
    BY <2>1, <2>2 DEF CompanionInv, CompanionTypeOK, ModeChanges, WatcherLeaves, DaemonEnds, DaemonDies,
       DaemonStarts
<1>2. UNCHANGED <<press, delivered>>
  BY DEF ModeChanges, WatcherLeaves, DaemonEnds, DaemonDies, DaemonStarts
<1>3. \/ daemon'.generation = daemon.generation /\ (daemon.up # "running" => daemon'.up # "running")
      \/ daemon'.generation = daemon.generation + 1
  BY DEF CompanionInv, CompanionTypeOK, Daemons, ModeChanges, WatcherLeaves, DaemonEnds, DaemonDies, DaemonStarts
<1>4. daemon.generation \in Nat /\ press.generation \in Nat
  BY DEF CompanionInv, CompanionTypeOK, Daemons, Presses
<1>5. QED
  BY <1>1, <1>2, <1>3, <1>4 DEF CompanionInv, AnswerComesLater, CloseWasGranted, SendWasGranted

LEMMA CompanionStep == CompanionInv /\ [CompanionNext]_companionVars => CompanionInv'
<1> SUFFICES ASSUME CompanionInv, [CompanionNext]_companionVars
             PROVE  CompanionInv'
  OBVIOUS
<1>1. CASE UNCHANGED companionVars
  BY <1>1 DEF companionVars, CompanionInv, CompanionTypeOK, AnswerComesLater, CloseWasGranted, SendWasGranted
<1>2. CASE CompanionNext
  BY <1>2, ButtonsKeep, RequestKeeps, PollKeeps, DaemonKeeps DEF CompanionNext, Buttons
<1>3. QED
  BY <1>1, <1>2

(* What holds of a window, its request and its daemon in every state.      *)
THEOREM CompanionInvariant == CompanionSpec => []CompanionInv
<1>1. QED
  BY CompanionStarts, CompanionStep, PTL DEF CompanionSpec

(* A window that closes leaves no daemon of the generation it asked to     *)
(* stop in service (_on_close, companion.py:2674).                         *)
THEOREM WindowClosesLast == CompanionSpec => WindowOutlivesDaemon
<1>1. CompanionInv /\ [CompanionNext]_companionVars
        => [open /\ ~open' => daemon.up # "running" \/ press.generation \in 1..(daemon.generation - 1)]_companionVars
  <2> SUFFICES ASSUME CompanionInv, CompanionNext, open, ~open', daemon.up = "running"
               PROVE  press.generation \in 1..(daemon.generation - 1)
    BY DEF companionVars
  <2>1. Finish
    BY DEF CompanionNext, OnButton, OnHotkey, Asks, OnSend, OnStop, OnStopAgain, DisarmStop, Types, Toggles,
           Serves, GivesUp, ServesLate, PollBegins, PollAnswered, PollFails, PollFinishes,
           ModeChanges, WatcherLeaves, DaemonEnds, DaemonDies, DaemonStarts
  <2>2. press.step = "answered" /\ press.ok /\ press.action = "close"
    BY <2>1 DEF Finish, CompanionInv, CompanionTypeOK, Presses
  <2>3. press.generation \in 1..daemon.generation /\ press.generation # daemon.generation
    BY <2>2 DEF CompanionInv, CloseWasGranted
  <2>4. daemon.generation \in Nat
    BY DEF CompanionInv, CompanionTypeOK, Daemons
  <2>5. QED
    BY <2>3, <2>4
<1>2. QED
  BY <1>1, CompanionInvariant, PTL DEF CompanionSpec, WindowOutlivesDaemon

-----------------------------------------------------------------------------
(* The hub.                                                                *)

(* Where a list without repetitions drops a member, it is a member less.   *)
LEMMA RemovedOnce ==
  ASSUME NEW S, NEW list \in Seq(S), IsInjective(list), NEW p
  PROVE  /\ RemoveFirst(list, p) \in Seq(S) /\ IsInjective(RemoveFirst(list, p))
         /\ ToSet(RemoveFirst(list, p)) = ToSet(list) \ {p}
<1>1. CASE ~ \E i \in 1..Len(list) : list[i] = p
  <2>1. RemoveFirst(list, p) = list
    BY <1>1 DEF RemoveFirst
  <2>2. QED
    BY <1>1, <2>1 DEF ToSet
<1>2. CASE \E i \in 1..Len(list) : list[i] = p
  <2> DEFINE n == Len(list)
             r == RemoveFirst(list, p)
             front(i) == SubSeq(list, 1, i - 1)
             back(i) == SubSeq(list, i + 1, n)
  <2>1. PICK i \in 1..n : list[i] = p
    BY <1>2
  <2>2. {j \in 1..n : list[j] = p} = {i}
    BY <2>1 DEF IsInjective
  <2>3. Min({i}) = i
    BY DEF Min
  <2>4. SelectInSeq(list, LAMBDA v : v = p) = i
    BY <2>2, <2>3 DEF SelectInSeq
  <2>5. r = front(i) \o back(i)
    BY <1>2, <2>4 DEF RemoveFirst, RemoveAt
  <2>6. /\ front(i) \in Seq(S) /\ Len(front(i)) = i - 1
        /\ \A j \in 1..(i - 1) : front(i)[j] = list[j]
    BY <2>1, SubSeqProperties
  <2>7. /\ back(i) \in Seq(S) /\ Len(back(i)) = n - i
        /\ \A j \in 1..(n - i) : back(i)[j] = list[i + j]
    BY <2>1, SubSeqProperties
  <2>8. /\ r \in Seq(S) /\ Len(r) = n - 1
        /\ \A j \in 1..(n - 1) : r[j] = IF j < i THEN list[j] ELSE list[j + 1]
    <3> HIDE DEF front, back, r
    <3>1. /\ front(i) \o back(i) \in Seq(S) /\ Len(front(i) \o back(i)) = (i - 1) + (n - i)
          /\ \A j \in 1..((i - 1) + (n - i)) :
               (front(i) \o back(i))[j] = IF j <= i - 1 THEN front(i)[j] ELSE back(i)[j - (i - 1)]
      <4>1. front(i) \in Seq(S) /\ back(i) \in Seq(S)
        BY <2>6, <2>7
      <4>2. /\ front(i) \o back(i) \in Seq(S) /\ Len(front(i) \o back(i)) = Len(front(i)) + Len(back(i))
            /\ \A j \in 1..(Len(front(i)) + Len(back(i))) :
                 (front(i) \o back(i))[j]
                   = IF j <= Len(front(i)) THEN front(i)[j] ELSE back(i)[j - Len(front(i))]
        BY <4>1, ConcatProperties, Zenon
      <4>3. QED
        BY <2>6, <2>7, <4>2
    <3>2. n \in Nat /\ (i - 1) + (n - i) = n - 1
      OBVIOUS
    <3>3. \A j \in 1..(n - 1) : r[j] = IF j < i THEN list[j] ELSE list[j + 1]
      <4> SUFFICES ASSUME NEW j \in 1..(n - 1)
                   PROVE  r[j] = IF j < i THEN list[j] ELSE list[j + 1]
        OBVIOUS
      <4>1. CASE j < i
        BY <2>5, <2>6, <3>1, <3>2, <4>1
      <4>2. CASE ~(j < i)
        <5>1. j - (i - 1) \in 1..(n - i) /\ i + (j - (i - 1)) = j + 1
          BY <3>2, <4>2
        <5>2. QED
          BY <2>5, <2>7, <3>1, <3>2, <4>2, <5>1
      <4>3. QED
        BY <4>1, <4>2
    <3>4. QED
      BY <2>5, <3>1, <3>2, <3>3
  <2>9. IsInjective(r)
    BY <2>1, <2>8 DEF IsInjective
  <2>10. ToSet(r) \subseteq ToSet(list) \ {p}
    BY <2>1, <2>8 DEF IsInjective, ToSet
  <2>11. ToSet(list) \ {p} \subseteq ToSet(r)
    <3> SUFFICES ASSUME NEW k \in 1..n, list[k] # p
                 PROVE  \E j \in 1..(n - 1) : r[j] = list[k]
      BY <2>8 DEF ToSet
    <3>1. CASE k < i
      BY <2>1, <2>8, <3>1
    <3>2. CASE k > i
      <4>1. k - 1 \in 1..(n - 1) /\ r[k - 1] = list[k]
        BY <2>1, <2>8, <3>2
      <4>2. QED
        BY <4>1
    <3>3. QED
      BY <2>1, <3>1, <3>2
  <2>12. QED
    BY <2>8, <2>9, <2>10, <2>11
<1>3. QED
  BY <1>1, <1>2

HubSteps == {"idle", "bind", "reclaim", "rebind", "open", "closing", "failed", "gone", "crashed"}
Indicators == {"unreachable", "paused", "waiting", "working"}

HubTypeOK ==
  /\ hubSock \in Hubs \cup {NoHub} /\ hub \in [Hubs -> HubSteps]
  /\ registry \in [Hubs -> SUBSET Projects] /\ tabs \in [Hubs -> Seq(Projects)]
  /\ models \in [Hubs -> Seq(Indicators)] /\ active \in [Hubs -> Nat \ {0}]
  /\ modes \in [Projects -> {"AUTO", "PAUSE", "MANUAL", "down"}]

(* The two sides agree in every process, whether or not its window is      *)
(* open: after the loop that quits every second tab too.                   *)
ViewsAgree ==
  \A h \in Hubs :
    /\ ToSet(tabs[h]) = registry[h] /\ IsInjective(tabs[h])
    /\ Len(models[h]) = Len(tabs[h])
    /\ tabs[h] # <<>> => active[h] \in DOMAIN tabs[h]

HubInv == HubTypeOK /\ ViewsAgree

(* What is known of one process.                                           *)
Agreed(projects, list, model, tab) ==
  /\ projects \subseteq Projects /\ list \in Seq(Projects) /\ model \in Seq(Indicators) /\ tab \in Nat \ {0}
  /\ ToSet(list) = projects /\ IsInjective(list)
  /\ Len(model) = Len(list)
  /\ list # <<>> => tab \in DOMAIN list

LEMMA AgreedOfAll ==
  HubInv <=>
    /\ hubSock \in Hubs \cup {NoHub} /\ hub \in [Hubs -> HubSteps]
    /\ modes \in [Projects -> {"AUTO", "PAUSE", "MANUAL", "down"}]
    /\ registry = [h \in Hubs |-> registry[h]] /\ tabs = [h \in Hubs |-> tabs[h]]
    /\ models = [h \in Hubs |-> models[h]] /\ active = [h \in Hubs |-> active[h]]
    /\ \A h \in Hubs : Agreed(registry[h], tabs[h], models[h], active[h])
BY DEF HubInv, HubTypeOK, ViewsAgree, Agreed

LEMMA NothingAgreed == Agreed({}, <<>>, <<>>, 1)
BY DEF Agreed, ToSet, IsInjective

LEMMA HubStarts == HubInit => HubInv
BY NothingAgreed, AgreedOfAll DEF HubInit, HubSteps

LEMMA IndicatorType ==
  ASSUME NEW mode \in {"AUTO", "PAUSE", "MANUAL", "down"}
  PROVE  Indicator(mode) \in Indicators
BY DEF Indicator, Indicators

(* Whatever list of tabs a refresh is given, what it leaves agrees.        *)
LEMMA RefreshedAgrees ==
  ASSUME HubInv, NEW h \in Hubs, NEW list \in Seq(Projects), IsInjective(list),
         modes' \in [Projects -> {"AUTO", "PAUSE", "MANUAL", "down"}]
  PROVE  /\ [i \in 1..Len(list) |-> Indicator(modes[list[i]])] \in Seq(Indicators)
         /\ [i \in 1..Len(list) |-> Indicator(modes'[list[i]])] \in Seq(Indicators)
         /\ Agreed(ToSet(list), list, [i \in 1..Len(list) |-> Indicator(modes[list[i]])],
                   Clamped(active[h], Len(list)))
<1>1. Len(list) \in Nat /\ DOMAIN list = 1..Len(list) /\ \A i \in 1..Len(list) : list[i] \in Projects
  OBVIOUS
<1>2. \A i \in 1..Len(list) : Indicator(modes[list[i]]) \in Indicators /\ Indicator(modes'[list[i]]) \in Indicators
  BY <1>1, IndicatorType DEF HubInv, HubTypeOK
<1>3. /\ [i \in 1..Len(list) |-> Indicator(modes[list[i]])] \in [1..Len(list) -> Indicators]
      /\ [i \in 1..Len(list) |-> Indicator(modes'[list[i]])] \in [1..Len(list) -> Indicators]
  BY <1>2
<1>4. /\ [i \in 1..Len(list) |-> Indicator(modes[list[i]])] \in Seq(Indicators)
      /\ [i \in 1..Len(list) |-> Indicator(modes'[list[i]])] \in Seq(Indicators)
      /\ Len([i \in 1..Len(list) |-> Indicator(modes[list[i]])]) = Len(list)
  BY <1>1, <1>3
<1>5. Clamped(active[h], Len(list)) \in Nat \ {0} /\ (Len(list) # 0 => Clamped(active[h], Len(list)) \in 1..Len(list))
  BY <1>1 DEF HubInv, HubTypeOK, Clamped
<1>6. ToSet(list) \subseteq Projects
  BY <1>1 DEF ToSet
<1>7. QED
  BY <1>1, <1>4, <1>5, <1>6 DEF Agreed

(* A step of one process that leaves it agreed keeps the invariant.        *)
LEMMA OneHubChanges ==
  ASSUME HubInv, NEW h \in Hubs, NEW projects, NEW list, NEW model, NEW tab,
         Agreed(projects, list, model, tab),
         registry' = [registry EXCEPT ![h] = projects], tabs' = [tabs EXCEPT ![h] = list],
         models' = [models EXCEPT ![h] = model], active' = [active EXCEPT ![h] = tab],
         hubSock' \in Hubs \cup {NoHub}, hub' \in [Hubs -> HubSteps],
         modes' \in [Projects -> {"AUTO", "PAUSE", "MANUAL", "down"}]
  PROVE  HubInv'
BY DEF HubInv, HubTypeOK, ViewsAgree, Agreed

(* The steps of the process: where the views change, they are forgotten.   *)
LEMMA ProcessKeeps ==
  ASSUME HubInv, NEW h \in Hubs,
         \/ Launches(h) \/ ListenBinds(h) \/ ListenReclaims(h) \/ ListenRebinds(h)
         \/ HubExits(h) \/ HubCrashes(h) \/ OnCloseWindow(h)
  PROVE  HubInv'
<1>1. hubSock' \in Hubs \cup {NoHub} /\ hub' \in [Hubs -> HubSteps]
  BY DEF HubInv, HubTypeOK, HubSteps, Moves, Launches, ListenBinds, ListenReclaims, ListenRebinds,
         HubExits, HubCrashes, OnCloseWindow, processes
<1>2. UNCHANGED modes
  BY DEF Launches, ListenBinds, ListenReclaims, ListenRebinds, HubExits, HubCrashes, OnCloseWindow
<1>3. CASE UNCHANGED views
  BY <1>1, <1>2, <1>3 DEF HubInv, HubTypeOK, ViewsAgree, views
<1>4. CASE Forgotten(h)
  BY <1>1, <1>2, <1>4, NothingAgreed, OneHubChanges DEF Forgotten, HubInv, HubTypeOK
<1>5. QED
  BY <1>3, <1>4 DEF Launches, ListenBinds, ListenReclaims, ListenRebinds, HubExits, HubCrashes, OnCloseWindow

LEMMA RemovalKeeps ==
  ASSUME HubInv, NEW h \in Hubs, NEW p \in Projects, Unregistered(h, p), hub[h] \in HubSteps
  PROVE  HubInv'
<1> DEFINE list == RemoveFirst(tabs[h], p)
<1>1. list \in Seq(Projects) /\ IsInjective(list) /\ ToSet(list) = registry[h] \ {p}
  BY RemovedOnce DEF HubInv, HubTypeOK, ViewsAgree
<1>2. modes' \in [Projects -> {"AUTO", "PAUSE", "MANUAL", "down"}]
  BY DEF Unregistered, HubInv, HubTypeOK
<1>3. Agreed(registry[h] \ {p}, list, [i \in 1..Len(list) |-> Indicator(modes[list[i]])],
             Clamped(active[h], Len(list)))
  BY <1>1, <1>2, RefreshedAgrees
<1>4. hubSock' \in Hubs \cup {NoHub} /\ hub' \in [Hubs -> HubSteps]
  BY DEF Unregistered, HubInv, HubTypeOK, HubSteps, Moves, processes
<1>5. QED
  BY <1>2, <1>3, <1>4, OneHubChanges DEF Unregistered, Refreshed, HubInv, HubTypeOK

LEMMA SecondsFit ==
  ASSUME NEW n \in Nat
  PROVE  n \div 2 \in Nat /\ \A i \in 1..(n \div 2) : i \in Nat /\ 2 * i \in 1..n
OBVIOUS

LEMMA TabsKeep ==
  ASSUME HubInv, NEW h \in Hubs,
         HubPolls(h) \/ (\E p \in Projects : Registers(h, p) \/ Unregisters(h, p)) \/ OnQuitActive(h) \/ OnQuitAll(h)
  PROVE  HubInv'
<1>1. /\ tabs[h] \in Seq(Projects) /\ IsInjective(tabs[h]) /\ ToSet(tabs[h]) = registry[h]
      /\ modes \in [Projects -> {"AUTO", "PAUSE", "MANUAL", "down"}] /\ hub[h] \in HubSteps
      /\ tabs[h] # <<>> => active[h] \in DOMAIN tabs[h]
  BY DEF HubInv, HubTypeOK, ViewsAgree
<1>2. CASE HubPolls(h)
  <2>1. modes' \in [Projects -> {"AUTO", "PAUSE", "MANUAL", "down"}]
    BY <1>1, <1>2 DEF HubPolls
  <2>2. Agreed(registry[h], tabs[h], [i \in 1..Len(tabs[h]) |-> Indicator(modes[tabs[h][i]])],
               Clamped(active[h], Len(tabs[h])))
    BY <1>1, <2>1, RefreshedAgrees
  <2>3. /\ registry' = [registry EXCEPT ![h] = registry[h]] /\ tabs' = [tabs EXCEPT ![h] = tabs[h]]
        /\ models' = [models EXCEPT ![h] = [i \in 1..Len(tabs[h]) |-> Indicator(modes[tabs[h][i]])]]
        /\ active' = [active EXCEPT ![h] = Clamped(active[h], Len(tabs[h]))]
    BY <1>2 DEF HubPolls, Refreshed, HubInv, HubTypeOK
  <2>4. hubSock' \in Hubs \cup {NoHub} /\ hub' \in [Hubs -> HubSteps]
    BY <1>2 DEF HubPolls, HubInv, HubTypeOK, processes
  <2>5. QED
    BY <2>1, <2>2, <2>3, <2>4, OneHubChanges
<1>3. ASSUME NEW p \in Projects, Registers(h, p)
      PROVE  HubInv'
  <2> DEFINE list == Append(tabs[h], p)
  <2>1. p \notin ToSet(tabs[h]) /\ ~Contains(tabs[h], p)
    BY <1>1, <1>3 DEF Registers, ToSet, Contains
  <2>2. list \in Seq(Projects) /\ IsInjective(list) /\ ToSet(list) = registry[h] \cup {p}
    <3>1. /\ list \in Seq(Projects) /\ Len(list) = Len(tabs[h]) + 1 /\ list[Len(tabs[h]) + 1] = p
          /\ \A i \in 1..Len(tabs[h]) : list[i] = tabs[h][i]
      BY <1>1, AppendProperties
    <3>2. Len(tabs[h]) \in Nat /\ DOMAIN list = 1..(Len(tabs[h]) + 1) /\ DOMAIN tabs[h] = 1..Len(tabs[h])
      BY <1>1, <3>1
    <3>3. IsInjective(list)
      BY <1>1, <2>1, <3>1, <3>2 DEF IsInjective, ToSet
    <3>4. ToSet(list) = ToSet(tabs[h]) \cup {p}
      <4>1. \A i \in 1..(Len(tabs[h]) + 1) : list[i] \in ToSet(tabs[h]) \cup {p}
        BY <3>1, <3>2 DEF ToSet
      <4>2. \A i \in 1..Len(tabs[h]) : tabs[h][i] \in ToSet(list)
        BY <3>1, <3>2 DEF ToSet
      <4>3. p \in ToSet(list)
        BY <3>1, <3>2 DEF ToSet
      <4>4. QED
        BY <3>2, <4>1, <4>2, <4>3 DEF ToSet
    <3>5. QED
      BY <1>1, <3>1, <3>3, <3>4
  <2>3. modes' \in [Projects -> {"AUTO", "PAUSE", "MANUAL", "down"}]
    BY <1>1, <1>3 DEF Registers
  <2>4. Agreed(registry[h] \cup {p}, list, [i \in 1..Len(list) |-> Indicator(modes[list[i]])],
               Clamped(active[h], Len(list)))
    BY <2>2, <2>3, RefreshedAgrees
  <2>5. QED
    BY <1>3, <2>1, <2>3, <2>4, OneHubChanges DEF Registers, DaemonTab, Refreshed, HubInv, HubTypeOK, processes
<1>4. CASE \E p \in Projects : Unregisters(h, p)
  BY <1>1, <1>4, RemovalKeeps DEF Unregisters
<1>5. CASE OnQuitActive(h)
  <2>1. tabs[h][active[h]] \in Projects
    BY <1>1, <1>5 DEF OnQuitActive
  <2>2. QED
    BY <1>1, <1>5, <2>1, RemovalKeeps DEF OnQuitActive
<1>6. CASE OnQuitAll(h)
  <2> DEFINE n == Len(tabs[h]) \div 2
             list == [i \in 1..n |-> tabs[h][2 * i]]
  <2>1. n \in Nat /\ \A i \in 1..n : i \in Nat /\ 2 * i \in 1..Len(tabs[h])
    <3>1. Len(tabs[h]) \in Nat
      BY <1>1
    <3>2. QED
      BY <3>1, SecondsFit
  <2> HIDE DEF n
  <2>2. list \in Seq(Projects) /\ Len(list) = n
    <3>1. \A i \in 1..n : tabs[h][2 * i] \in Projects
      BY <1>1, <2>1, ElementOfSeq
    <3>2. list \in [1..n -> Projects]
      BY <3>1
    <3>3. QED
      BY <2>1, <3>2
  <2>3. IsInjective(list)
    <3> SUFFICES ASSUME NEW i \in 1..n, NEW j \in 1..n, tabs[h][2 * i] = tabs[h][2 * j]
                 PROVE  i = j
      BY <2>1 DEF IsInjective
    <3>1. DOMAIN tabs[h] = 1..Len(tabs[h])
      BY <1>1
    <3>2. 2 * i = 2 * j
      BY <1>1, <2>1, <3>1 DEF IsInjective
    <3>3. QED
      BY <2>1, <3>2
  <2>4. modes' \in [Projects -> {"AUTO", "PAUSE", "MANUAL", "down"}]
    BY <1>1, <1>6 DEF OnQuitAll
  <2>5. Agreed(ToSet(list), list, [i \in 1..Len(list) |-> Indicator(modes[list[i]])],
               Clamped(active[h], Len(list)))
    BY <2>2, <2>3, <2>4, RefreshedAgrees
  <2>6. hubSock' \in Hubs \cup {NoHub} /\ hub' \in [Hubs -> HubSteps]
    BY <1>6 DEF OnQuitAll, HubInv, HubTypeOK, HubSteps, Moves
  <2>7. /\ registry' = [registry EXCEPT ![h] = ToSet(list)] /\ tabs' = [tabs EXCEPT ![h] = list]
        /\ models' = [models EXCEPT ![h] = [i \in 1..Len(list) |-> Indicator(modes[list[i]])]]
        /\ active' = [active EXCEPT ![h] = Clamped(active[h], Len(list))]
    BY <1>6, Zenon DEF OnQuitAll, n
  <2>8. QED
    BY <2>4, <2>5, <2>6, <2>7, OneHubChanges
<1>7. QED
  BY <1>2, <1>3, <1>4, <1>5, <1>6

(* The buttons change modes, and what the tabs show of them.               *)
LEMMA ModesKeep ==
  ASSUME HubInv, (\E h \in Hubs : OnSelect(h) \/ OnPauseActive(h) \/ OnPauseAll(h)) \/ \E p \in Projects : ProjectChanges(p)
  PROVE  HubInv'
<1>1. modes' \in [Projects -> {"AUTO", "PAUSE", "MANUAL", "down"}]
  BY HubAssumption DEF HubInv, HubTypeOK, OnSelect, OnPauseActive, OnPauseAll, ProjectChanges, Paused, Resumed
<1>2. CASE \E h \in Hubs : OnSelect(h)
  <2>1. PICK h \in Hubs : OnSelect(h)
    BY <1>2
  <2>2. PICK i \in DOMAIN tabs[h] : active' = [active EXCEPT ![h] = i]
    BY <2>1 DEF OnSelect
  <2>3. i \in Nat \ {0}
    BY <2>2 DEF HubInv, HubTypeOK
  <2>4. QED
    BY <1>1, <2>1, <2>2, <2>3 DEF OnSelect, HubInv, HubTypeOK, ViewsAgree, processes
<1>3. CASE \E h \in Hubs : OnPauseActive(h) \/ OnPauseAll(h)
  <2>1. PICK h \in Hubs : RefreshedBy(h) /\ UNCHANGED <<processes, registry, tabs, active>>
    BY <1>3 DEF OnPauseActive, OnPauseAll
  <2> DEFINE model == [i \in 1..Len(tabs[h]) |-> Indicator(modes'[tabs[h][i]])]
  <2>2. model \in Seq(Indicators) /\ Len(model) = Len(tabs[h])
    <3>1. model \in Seq(Indicators)
      BY <1>1, RefreshedAgrees DEF HubInv, HubTypeOK, ViewsAgree
    <3>2. Len(tabs[h]) \in Nat
      BY DEF HubInv, HubTypeOK
    <3>3. QED
      BY <3>1, <3>2
  <2>3. models' = [models EXCEPT ![h] = model]
    <3>1. DOMAIN tabs[h] = 1..Len(tabs[h])
      BY DEF HubInv, HubTypeOK
    <3>2. QED
      BY <2>1, <3>1, Zenon DEF RefreshedBy
  <2> HIDE DEF model
  <2>4. QED
    BY <1>1, <2>1, <2>2, <2>3 DEF HubInv, HubTypeOK, ViewsAgree, processes
<1>4. CASE \E p \in Projects : ProjectChanges(p)
  BY <1>1, <1>4 DEF ProjectChanges, processes, views, HubInv, HubTypeOK, ViewsAgree
<1>5. QED
  BY <1>2, <1>3, <1>4

LEMMA HubStep == HubInv /\ [HubNext]_hubVars => HubInv'
<1> SUFFICES ASSUME HubInv, [HubNext]_hubVars
             PROVE  HubInv'
  OBVIOUS
<1>1. CASE UNCHANGED hubVars
  BY <1>1 DEF hubVars, processes, views, HubInv, HubTypeOK, ViewsAgree
<1>2. CASE HubNext
  BY <1>2, ProcessKeeps, TabsKeep, ModesKeep, Zenon DEF HubNext
<1>3. QED
  BY <1>1, <1>2

(* What holds of every hub process: its lists are of the same projects.    *)
THEOREM HubInvariant == HubSpec => []HubInv
BY HubStarts, HubStep, PTL DEF HubSpec

(* The server's registry and the window's tabs agree in every process,     *)
(* however many hubs start, and whoever takes over the socket.             *)
THEOREM RegistryIsKept == HubSpec => []RegistryIsShown
<1>1. HubInv => RegistryIsShown
  BY DEF HubInv, ViewsAgree, RegistryIsShown
<1>2. QED
  BY <1>1, HubInvariant, PTL

-----------------------------------------------------------------------------
(* The global keys.                                                        *)

MaybeKeys == Keys \cup {Unset}
Maps == [KEYMAP_ACTIONS -> MaybeKeys]
Bindings == [KEYMAP_ACTIONS -> Keys]

Saves ==
  [step : {"none", "merge", "load", "write", "reload", "rewrite"}, action : KEYMAP_ACTIONS \cup {Unset},
   key : MaybeKeys, map : Maps \cup {Unset}, old : MaybeKeys]

KeymapTypeOK ==
  /\ stored \in Maps \cup {Unset} /\ legacy \in MaybeKeys
  /\ save \in [Windows -> Saves]
  /\ keys \in [Windows -> Bindings \cup {Unset}]
  /\ hotkey \in MaybeKeys
  /\ grabbed \in [Keys -> (Windows \X KEYMAP_ACTIONS) \cup {Unset}]
  /\ saves \in Nat

(* A window that saves is open, and knows which of its actions it patches. *)
SavesAreOpen ==
  \A w \in Windows :
    /\ save[w].step # "none" => keys[w] # Unset
    /\ save[w].step \in {"merge", "load", "write"} => save[w].action \in ActionsOf(w) /\ save[w].key \in Keys
    /\ save[w].step \in {"load", "write"} => save[w].map \in Maps
    /\ save[w].step = "none" => save[w] = NoSave

KeymapInv == KeymapTypeOK /\ SavesAreOpen /\ NoStaleGrabs

LEMMA UnsetIsNone ==
  /\ Unset \notin Maps /\ Unset \notin Bindings /\ Unset \notin Windows \X KEYMAP_ACTIONS
  /\ Unset \notin Keys /\ Bindings \subseteq Maps
<1>1. Bindings \subseteq Maps
  BY DEF Bindings, Maps, MaybeKeys
<1>2. QED
  BY <1>1, KeymapAssumption DEF Maps, MaybeKeys, Windows

LEMMA NoSaveType == NoSave \in Saves /\ NoKeys \in Maps
BY DEF NoSave, Saves, MaybeKeys, NoKeys, Maps

LEMMA EffectiveType ==
  ASSUME NEW map \in Maps \cup {Unset}, NEW old \in MaybeKeys
  PROVE  Effective(map, old) \in Bindings
BY KeymapAssumption DEF Effective, Bindings, Maps, MaybeKeys

LEMMA OpenedType ==
  ASSUME NEW w \in Windows, NEW map \in Maps \cup {Unset}, NEW old \in MaybeKeys
  PROVE  Configured(map, old) \in Keys /\ Opened(w, map, old) \in Bindings
<1>1. Configured(map, old) \in Keys
  BY KeymapAssumption DEF Configured, Maps, MaybeKeys
<1>2. QED
  BY <1>1, EffectiveType DEF Opened, Bindings

LEMMA ActionsAreKnown == \A w \in Windows : ActionsOf(w) \subseteq KEYMAP_ACTIONS
BY KeymapAssumption DEF ActionsOf

LEMMA KeymapStarts == KeymapInit => KeymapInv
<1> SUFFICES ASSUME KeymapInit
             PROVE  KeymapInv
  OBVIOUS
<1>1. KeymapTypeOK
  BY NoSaveType, KeymapAssumption DEF KeymapInit, KeymapTypeOK, MaybeKeys
<1>2. SavesAreOpen
  BY DEF KeymapInit, SavesAreOpen, NoSave
<1>3. NoStaleGrabs
  BY DEF KeymapInit, NoStaleGrabs
<1>4. QED
  BY <1>1, <1>2, <1>3 DEF KeymapInv

(* After a window has given up its keys, the server holds those of others. *)
LEMMA ReleasedIsOthers ==
  ASSUME KeymapInv, NEW w \in Windows
  PROVE  /\ Released(w) \in [Keys -> (Windows \X KEYMAP_ACTIONS) \cup {Unset}]
         /\ \A k \in Keys : Released(w)[k] # Unset =>
              Released(w)[k] = grabbed[k] /\ grabbed[k][1] # w
BY DEF KeymapInv, KeymapTypeOK, Released

(* What a window asks for are keys for actions it knows.                   *)
LEMMA AskedActions ==
  ASSUME NEW w \in Windows, NEW map, NEW fixed
  PROVE  DOMAIN Asked(w, map, fixed) \subseteq KEYMAP_ACTIONS
<1>1. CASE w = SharedHub
  BY <1>1, KeymapAssumption DEF Asked
<1>2. CASE w # SharedHub
  BY <1>2, ActionsAreKnown DEF Asked
<1>3. QED
  BY <1>1, <1>2

(* The server adds grants to what it holds.                                *)
LEMMA GrantedKeys ==
  ASSUME NEW w \in Windows, NEW asked, DOMAIN asked \subseteq KEYMAP_ACTIONS,
         NEW before \in [Keys -> (Windows \X KEYMAP_ACTIONS) \cup {Unset}], NEW after \in Grabs(w, asked, before)
  PROVE  /\ after \in [Keys -> (Windows \X KEYMAP_ACTIONS) \cup {Unset}]
         /\ \A k \in Keys :
              \/ after[k] = before[k]
              \/ \E action \in DOMAIN asked : asked[action] = k /\ after[k] = <<w, action>>
<1>1. PICK granted \in SUBSET DOMAIN asked :
        after = [k \in Keys |-> IF \E action \in granted : asked[action] = k
                   THEN <<w, CHOOSE action \in granted : asked[action] = k>> ELSE before[k]]
  BY DEF Grabs
<1>2. ASSUME NEW k \in Keys, NEW a \in granted, asked[a] = k
      PROVE  \E action \in DOMAIN asked : asked[action] = k /\ after[k] = <<w, action>>
  <2>1. (CHOOSE action \in granted : asked[action] = k) \in {action \in granted : asked[action] = k}
    BY <1>2
  <2>2. QED
    BY <1>1, <1>2, <2>1
<1>3. ASSUME NEW k \in Keys, ~ \E action \in granted : asked[action] = k
      PROVE  after[k] = before[k]
  BY <1>1, <1>3
<1>4. \A k \in Keys : after[k] \in (Windows \X KEYMAP_ACTIONS) \cup {Unset}
  BY <1>2, <1>3
<1>5. after = [k \in Keys |-> after[k]]
  BY <1>1
<1>6. QED
  BY <1>2, <1>3, <1>4, <1>5

(* What a window holds after it has asked again are keys it asked for.     *)
LEMMA ReboundAreAsked ==
  ASSUME KeymapInv, NEW w \in Windows, NEW map \in Bindings, Rebinds(w, Asked(w, map, hotkey')),
         keys' = [keys EXCEPT ![w] = map], w # SharedHub => hotkey' = hotkey
  PROVE  /\ grabbed' \in [Keys -> (Windows \X KEYMAP_ACTIONS) \cup {Unset}]
         /\ NoStaleGrabs'
<1> DEFINE asked == Asked(w, map, hotkey')
<1>1. /\ grabbed' \in [Keys -> (Windows \X KEYMAP_ACTIONS) \cup {Unset}]
      /\ \A k \in Keys :
           \/ grabbed'[k] = Released(w)[k]
           \/ \E action \in DOMAIN asked : asked[action] = k /\ grabbed'[k] = <<w, action>>
  <2>1. DOMAIN asked \subseteq KEYMAP_ACTIONS
    BY AskedActions
  <2>2. grabbed' \in Grabs(w, asked, Released(w))
    BY DEF Rebinds
  <2> HIDE DEF asked
  <2>3. QED
    BY <2>1, <2>2, GrantedKeys, ReleasedIsOthers
<1> DEFINE holder(k) == grabbed'[k][1]
           wanted(k) == Asked(holder(k), keys'[holder(k)], hotkey')
<1>2. ASSUME NEW k \in Keys, grabbed'[k] # Unset
      PROVE  /\ keys'[holder(k)] # Unset
             /\ grabbed'[k][2] \in DOMAIN wanted(k) /\ wanted(k)[grabbed'[k][2]] = k
  <2>1. CASE grabbed'[k] = Released(w)[k]
    <3>1. grabbed'[k] = grabbed[k] /\ grabbed[k][1] # w /\ grabbed[k][1] \in Windows
      BY <1>2, <2>1, ReleasedIsOthers DEF KeymapInv, KeymapTypeOK
    <3>2. keys'[grabbed[k][1]] = keys[grabbed[k][1]]
      BY <3>1 DEF KeymapInv, KeymapTypeOK
    <3>3. wanted(k) = Asked(grabbed[k][1], keys[grabbed[k][1]], hotkey)
      BY <3>1, <3>2 DEF Asked
    <3>4. QED
      BY <1>2, <3>1, <3>2, <3>3 DEF KeymapInv, NoStaleGrabs
  <2>2. CASE \E action \in DOMAIN asked : asked[action] = k /\ grabbed'[k] = <<w, action>>
    <3>1. holder(k) = w /\ grabbed'[k][2] \in DOMAIN asked /\ asked[grabbed'[k][2]] = k
      BY <2>2
    <3>2. keys'[w] = map /\ map # Unset
      BY UnsetIsNone DEF KeymapInv, KeymapTypeOK
    <3>3. QED
      BY <3>1, <3>2
  <2>3. QED
    BY <1>1, <2>1, <2>2
<1>3. QED
  BY <1>1, <1>2 DEF NoStaleGrabs

(* A step of one window's save leaves everything else.                     *)
LEMMA OneSaves ==
  ASSUME KeymapInv, NEW w \in Windows, NEW s \in Saves, save' = [save EXCEPT ![w] = s],
         s.step # "none" => keys'[w] # Unset,
         s.step \in {"merge", "load", "write"} => s.action \in ActionsOf(w) /\ s.key \in Keys,
         s.step \in {"load", "write"} => s.map \in Maps,
         s.step = "none" => s = NoSave,
         \A v \in Windows \ {w} : keys'[v] = keys[v]
  PROVE  save' \in [Windows -> Saves] /\ SavesAreOpen'
<1>1. save' \in [Windows -> Saves]
  BY DEF KeymapInv, KeymapTypeOK
<1>2. ASSUME NEW v \in Windows
      PROVE  /\ save'[v].step # "none" => keys'[v] # Unset
             /\ save'[v].step \in {"merge", "load", "write"} => save'[v].action \in ActionsOf(v) /\ save'[v].key \in Keys
             /\ save'[v].step \in {"load", "write"} => save'[v].map \in Maps
             /\ save'[v].step = "none" => save'[v] = NoSave
  <2>1. CASE v = w
    BY <2>1 DEF KeymapInv, KeymapTypeOK
  <2>2. CASE v # w
    BY <2>2 DEF KeymapInv, KeymapTypeOK, SavesAreOpen
  <2>3. QED
    BY <2>1, <2>2
<1>3. QED
  BY <1>1, <1>2 DEF SavesAreOpen

LEMMA OpensKeeps ==
  ASSUME KeymapInv, NEW w \in Windows, Opens(w)
  PROVE  KeymapInv'
<1>1. Opened(w, stored, legacy) \in Bindings /\ Configured(stored, legacy) \in Keys
  BY OpenedType DEF KeymapInv, KeymapTypeOK
<1>2. grabbed' \in [Keys -> (Windows \X KEYMAP_ACTIONS) \cup {Unset}] /\ NoStaleGrabs'
  BY <1>1, ReboundAreAsked DEF Opens
<1>3. KeymapTypeOK'
  BY <1>1, <1>2 DEF KeymapInv, KeymapTypeOK, Opens, MaybeKeys
<1>4. SavesAreOpen'
  BY <1>1, UnsetIsNone DEF KeymapInv, KeymapTypeOK, SavesAreOpen, Opens
<1>5. QED
  BY <1>2, <1>3, <1>4 DEF KeymapInv

LEMMA ClosesKeeps ==
  ASSUME KeymapInv, NEW w \in Windows, Closes(w)
  PROVE  KeymapInv'
<1>1. KeymapTypeOK'
  BY NoSaveType, ReleasedIsOthers DEF KeymapInv, KeymapTypeOK, MaybeKeys, Closes
<1>2. SavesAreOpen'
  BY NoSaveType, OneSaves DEF KeymapInv, KeymapTypeOK, Closes, NoSave
<1>3. NoStaleGrabs'
  <2>1. ASSUME NEW k \in Keys, Released(w)[k] # Unset
        PROVE  /\ keys'[grabbed[k][1]] = keys[grabbed[k][1]]
               /\ Asked(grabbed[k][1], keys[grabbed[k][1]], hotkey') = Asked(grabbed[k][1], keys[grabbed[k][1]], hotkey)
    BY <2>1, ReleasedIsOthers DEF KeymapInv, KeymapTypeOK, Closes, Asked
  <2>2. QED
    BY <2>1, ReleasedIsOthers DEF KeymapInv, NoStaleGrabs, Closes
<1>4. QED
  BY <1>1, <1>2, <1>3 DEF KeymapInv

LEMMA WritesKeeps ==
  ASSUME KeymapInv, NEW w \in Windows, SaveWrites(w)
  PROVE  KeymapInv'
<1> DEFINE map == [keys[w] EXCEPT ![save[w].action] = save[w].key]
<1>1. /\ save[w] \in Saves /\ save[w].step = "write" /\ save[w].map \in Maps /\ save[w].key \in Keys
      /\ save[w].action \in KEYMAP_ACTIONS /\ keys[w] \in Bindings
  BY ActionsAreKnown DEF SaveWrites, KeymapInv, KeymapTypeOK, SavesAreOpen
<1>2. map \in Bindings
  BY <1>1 DEF Bindings
<1>3. keys' = [keys EXCEPT ![w] = map]
  BY <1>1 DEF SaveWrites, KeymapInv, KeymapTypeOK
<1>4. grabbed' \in [Keys -> (Windows \X KEYMAP_ACTIONS) \cup {Unset}] /\ NoStaleGrabs'
  BY <1>2, <1>3, ReboundAreAsked DEF SaveWrites
<1>5. PICK s \in {NoSave, [NoSave EXCEPT !.step = "reload", !.key = save[w].key]} : save' = [save EXCEPT ![w] = s]
  BY DEF SaveWrites
<1>6. s \in Saves /\ s.step \in {"none", "reload"} /\ (s.step = "none" => s = NoSave)
  <2>1. NoSave.step = "none" /\ [NoSave EXCEPT !.step = "reload", !.key = save[w].key].step = "reload"
    BY DEF NoSave
  <2>2. [NoSave EXCEPT !.step = "reload", !.key = save[w].key] \in Saves
    BY <1>1 DEF NoSave, Saves, MaybeKeys
  <2>3. QED
    BY <1>5, <2>1, <2>2, NoSaveType
<1>7. keys'[w] # Unset /\ \A v \in Windows \ {w} : keys'[v] = keys[v]
  BY <1>2, <1>3, UnsetIsNone DEF KeymapInv, KeymapTypeOK
<1>8. save' \in [Windows -> Saves] /\ SavesAreOpen'
  BY <1>5, <1>6, <1>7, OneSaves
<1>9. KeymapTypeOK'
  BY <1>1, <1>2, <1>3, <1>4, <1>8 DEF SaveWrites, KeymapInv, KeymapTypeOK, Saves
<1>10. QED
  BY <1>4, <1>8, <1>9 DEF KeymapInv

(* The other steps of a save change no key.                                *)
LEMMA SaveKeeps ==
  ASSUME KeymapInv, NEW w \in Windows,
         \/ SaveBegins(w) \/ SaveMerges(w) \/ SaveLoads(w) \/ SaveFails(w)
         \/ GeometryBegins(w) \/ OtherLoads(w) \/ OtherWrites(w)
  PROVE  KeymapInv'
<1>1. UNCHANGED <<keys, hotkey, grabbed>>
  BY DEF SaveBegins, SaveMerges, SaveLoads, SaveFails, GeometryBegins, OtherLoads, OtherWrites
<1>2. save[w] \in Saves /\ save \in [Windows -> Saves]
  BY DEF KeymapInv, KeymapTypeOK
<1>3. stored' \in Maps \cup {Unset} /\ legacy' \in MaybeKeys /\ saves' \in Nat
  <2>1. save[w].map \in Maps \cup {Unset} /\ save[w].old \in MaybeKeys
    BY <1>2 DEF Saves
  <2>2. \/ UNCHANGED <<stored, legacy>>
        \/ stored' = save[w].map /\ legacy' = save[w].old
    BY DEF SaveBegins, SaveMerges, SaveLoads, SaveFails, GeometryBegins, OtherLoads, OtherWrites
  <2>3. saves' = saves \/ saves' = saves + 1
    BY DEF SaveBegins, SaveMerges, SaveLoads, SaveFails, GeometryBegins, OtherLoads, OtherWrites
  <2>4. QED
    BY <2>1, <2>2, <2>3 DEF KeymapInv, KeymapTypeOK
<1>4. \E s \in Saves :
        /\ save' = [save EXCEPT ![w] = s]
        /\ s.step # "none" => keys[w] # Unset
        /\ s.step \in {"merge", "load", "write"} => s.action \in ActionsOf(w) /\ s.key \in Keys
        /\ s.step \in {"load", "write"} => s.map \in Maps
        /\ s.step = "none" => s = NoSave
  <2>1. CASE SaveBegins(w)
    <3>1. PICK action \in ActionsOf(w), key \in Keys :
            save' = [save EXCEPT ![w] = [NoSave EXCEPT !.step = "merge", !.action = action, !.key = key]]
      BY <2>1 DEF SaveBegins
    <3>2. [NoSave EXCEPT !.step = "merge", !.action = action, !.key = key] \in Saves
      BY ActionsAreKnown DEF NoSave, Saves, MaybeKeys
    <3>3. QED
      BY <2>1, <3>1, <3>2 DEF SaveBegins, Idle, NoSave
  <2>2. CASE SaveMerges(w)
    <3> DEFINE s == [save[w] EXCEPT !.step = "load",
                       !.map = [IF stored = Unset THEN NoKeys ELSE stored EXCEPT ![save[w].action] = save[w].key]]
    <3>1. save[w].step = "merge" /\ save[w].action \in ActionsOf(w) /\ save[w].key \in Keys /\ keys[w] # Unset
      BY <2>2 DEF SaveMerges, KeymapInv, SavesAreOpen
    <3>2. s.map \in Maps
      <4>1. (IF stored = Unset THEN NoKeys ELSE stored) \in Maps
        BY NoSaveType DEF KeymapInv, KeymapTypeOK
      <4>2. s.map = [IF stored = Unset THEN NoKeys ELSE stored EXCEPT ![save[w].action] = save[w].key]
        BY <1>2 DEF Saves
      <4>3. QED
        BY <3>1, <4>1, <4>2 DEF Maps, MaybeKeys
    <3>3. s \in Saves
      BY <1>2, <3>2 DEF Saves
    <3>4. save' = [save EXCEPT ![w] = s]
      BY <1>2, <2>2 DEF SaveMerges
    <3>5. s.step = "load" /\ s.action = save[w].action /\ s.key = save[w].key
      BY <1>2 DEF Saves
    <3> HIDE DEF s
    <3>6. QED
      BY <3>1, <3>2, <3>3, <3>4, <3>5
  <2>3. CASE SaveLoads(w)
    <3> DEFINE s == [save[w] EXCEPT !.step = "write", !.old = legacy]
    <3>1. s \in Saves /\ s.step = "write" /\ s.action = save[w].action /\ s.key = save[w].key /\ s.map = save[w].map
      BY <1>2 DEF Saves, KeymapInv, KeymapTypeOK
    <3>2. save[w].step = "load" /\ save' = [save EXCEPT ![w] = s]
      BY <1>2, <2>3 DEF SaveLoads
    <3> HIDE DEF s
    <3>3. QED
      BY <3>1, <3>2 DEF KeymapInv, SavesAreOpen
  <2>4. CASE SaveFails(w) \/ OtherWrites(w)
    BY <2>4, NoSaveType DEF SaveFails, OtherWrites, NoSave
  <2>5. CASE GeometryBegins(w)
    <3> DEFINE s == [NoSave EXCEPT !.step = "reload"]
    <3>1. s \in Saves /\ s.step = "reload"
      BY NoSaveType DEF Saves, NoSave
    <3>2. keys[w] # Unset /\ save' = [save EXCEPT ![w] = s]
      BY <2>5 DEF GeometryBegins, Idle
    <3> HIDE DEF s
    <3>3. QED
      BY <3>1, <3>2
  <2>6. CASE OtherLoads(w)
    <3> DEFINE s == [save[w] EXCEPT !.step = "rewrite", !.map = stored,
                       !.old = IF save[w].key # Unset THEN save[w].key ELSE legacy]
    <3>1. s \in Saves /\ s.step = "rewrite"
      BY <1>2 DEF Saves, KeymapInv, KeymapTypeOK
    <3>2. save[w].step = "reload" /\ save' = [save EXCEPT ![w] = s]
      BY <1>2, <2>6 DEF OtherLoads
    <3> HIDE DEF s
    <3>3. QED
      BY <3>1, <3>2 DEF KeymapInv, SavesAreOpen
  <2>7. QED
    BY <2>1, <2>2, <2>3, <2>4, <2>5, <2>6
<1>5. save' \in [Windows -> Saves] /\ SavesAreOpen'
  BY <1>1, <1>4, OneSaves
<1>6. QED
  BY <1>1, <1>3, <1>5 DEF KeymapInv, KeymapTypeOK, NoStaleGrabs

LEMMA KeymapStep == KeymapInv /\ [KeymapNext]_keymapVars => KeymapInv'
<1> SUFFICES ASSUME KeymapInv, [KeymapNext]_keymapVars
             PROVE  KeymapInv'
  OBVIOUS
<1>1. CASE UNCHANGED keymapVars
  BY <1>1 DEF keymapVars, KeymapInv, KeymapTypeOK, SavesAreOpen, NoStaleGrabs
<1>2. CASE KeymapNext
  BY <1>2, OpensKeeps, ClosesKeeps, WritesKeeps, SaveKeeps, Zenon DEF KeymapNext
<1>3. QED
  BY <1>1, <1>2

(* What holds of the settings, the saves under way and the grabs.          *)
THEOREM KeymapInvariant == KeymapSpec => []KeymapInv
BY KeymapStarts, KeymapStep, PTL DEF KeymapSpec

(* A window holds no key but those of its last request, a closed one none, *)
(* however saves overlap and whatever the server refuses.                  *)
THEOREM GrabsAreCurrent == KeymapSpec => []NoStaleGrabs
<1>1. KeymapInv => NoStaleGrabs
  BY DEF KeymapInv
<1>2. QED
  BY <1>1, KeymapInvariant, PTL
=============================================================================
