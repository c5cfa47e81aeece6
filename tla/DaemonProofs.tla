---------------------------- MODULE DaemonProofs ----------------------------
(***************************************************************************)
(* Theorems about Daemon, for any number of clients, of daemon processes   *)
(* and of crashes.                                                         *)
(***************************************************************************)
EXTENDS Daemon, TLAPS

(* The steps of clients that touch neither a file, nor a daemon, nor a     *)
(* request: all that they change is where a command is and what it read.   *)
Looks(c) ==
  \/ WidgetBegins(c) \/ WidgetLooks(c) \/ StarterReads(c) \/ StarterRefused(c)
  \/ StarterReady(c) \/ StarterGivesUp(c) \/ Leaves(c) \/ StopBegins(c)
  \/ SendFails(c) \/ AnswerLost(c) \/ StopWaited(c) \/ StopWaitsTooLong(c)

LEMMA LooksOnly ==
  ASSUME NEW c \in Clients, Looks(c)
  PROVE  UNCHANGED <<files, daemons, parent, requests, crashes>>
BY Zenon DEF Looks, WidgetBegins, WidgetLooks, StarterReads, StarterRefused, StarterReady,
     StarterGivesUp, Leaves, StopBegins, SendFails, AnswerLost, StopWaited, StopWaitsTooLong

(* The steps of Next, with the looking ones in one.                        *)
LEMMA StepCases ==
  ASSUME [DaemonNext]_daemonVars
  PROVE  \/ \E c \in Clients :
              \/ Looks(c) \/ StartBegins(c) \/ StarterRecovers(c) \/ StarterCleans(c)
              \/ StarterSpawns(c) \/ StopWritesStale(c) \/ StopUnlinks(c) \/ SendStop(c)
              \/ HandlerMarks(c) \/ HandlerAnswers(c) \/ HandlerRefuses(c)
         \/ \E p \in Pids : DaemonStep(p) \/ Fault(p)
         \/ UNCHANGED daemonVars
BY Zenon DEF DaemonNext, Command, Handler, Looks

-----------------------------------------------------------------------------
(* Every variable has the values the code writes.                          *)

LEMMA StatusType ==
  ASSUME NEW r \in Records, r # Nil, NEW s \in Statuses
  PROVE  [r EXCEPT !.status = s] \in Records
BY DEF Records

LEMMA TypeInit == DaemonInit => DaemonTypeOK
<1> SUFFICES ASSUME DaemonInit
             PROVE  DaemonTypeOK
  OBVIOUS
<1>1. crashes \in 0..MaxCrashes
  BY BoundsAssumption DEF BoundsAssumption, DaemonInit
<1>2. cpc \in [Clients -> CommandLabels]
  BY DEF DaemonInit, CommandLabels
<1>3. QED
  BY <1>1, <1>2 DEF DaemonInit, DaemonTypeOK, Records

LEMMA LooksType ==
  ASSUME DaemonTypeOK, NEW c \in Clients, Looks(c)
  PROVE  DaemonTypeOK'
<1>1. cpc' \in [Clients -> CommandLabels]
  BY DEF Looks, WidgetBegins, WidgetLooks, StarterReads, StarterRefused, StarterReady,
       StarterGivesUp, Leaves, StopBegins, SendFails, AnswerLost, StopWaited, StopWaitsTooLong,
       GoesTo, DaemonTypeOK, CommandLabels
<1>2. seen' \in [Clients -> Records]
  BY DEF Looks, WidgetBegins, WidgetLooks, StarterReads, StarterRefused, StarterReady,
       StarterGivesUp, Leaves, StopBegins, SendFails, AnswerLost, StopWaited, StopWaitsTooLong,
       DaemonTypeOK, Records
<1>3. QED
  BY <1>1, <1>2, LooksOnly DEF DaemonTypeOK, files, daemons, requests

LEMMA ClientType ==
  ASSUME DaemonTypeOK, NEW c \in Clients,
         \/ StartBegins(c) \/ StarterRecovers(c) \/ StarterCleans(c) \/ StarterSpawns(c)
         \/ StopWritesStale(c) \/ StopUnlinks(c) \/ SendStop(c)
         \/ HandlerMarks(c) \/ HandlerAnswers(c) \/ HandlerRefuses(c)
  PROVE  DaemonTypeOK'
<1> USE DEF DaemonTypeOK, files, daemons, clients, requests, GoesTo, CommandLabels
<1>1. CASE StartBegins(c)
  BY <1>1 DEF StartBegins
<1>2. CASE StarterRecovers(c)
  BY <1>2 DEF StarterRecovers
<1>3. CASE StarterCleans(c)
  BY <1>3 DEF StarterCleans, Records
<1>4. CASE StarterSpawns(c)
  BY <1>4 DEF StarterSpawns, At, Owning
<1>5. CASE StopWritesStale(c)
  <2>1. record' \in Records
    BY <1>5, StatusType DEF StopWritesStale, Statuses
  <2>2. seen' \in [Clients -> Records]
    BY <1>5 DEF StopWritesStale, Records
  <2>3. QED
    BY <1>5, <2>1, <2>2 DEF StopWritesStale
<1>6. CASE StopUnlinks(c)
  BY <1>6 DEF StopUnlinks
<1>7. CASE SendStop(c)
  BY <1>7 DEF SendStop, Reachable
<1>8. CASE HandlerMarks(c)
  <2>1. record' \in Records
    BY <1>8, StatusType DEF HandlerMarks, Statuses, Records
  <2>2. QED
    BY <1>8, <2>1 DEF HandlerMarks
<1>9. CASE HandlerAnswers(c)
  BY <1>9 DEF HandlerAnswers, Handling
<1>10. CASE HandlerRefuses(c)
  <2>1. asked[c] \in Pids
    BY <1>10 DEF HandlerRefuses, Handling
  <2>2. stopEvent' \in [Pids -> BOOLEAN]
    <3>1. PICK set \in {stopEvent[asked[c]], TRUE} : stopEvent' = [stopEvent EXCEPT ![asked[c]] = set]
      BY <1>10, Zenon DEF HandlerRefuses
    <3>2. set \in BOOLEAN
      BY <2>1, <3>1, Zenon
    <3>3. QED
      BY <2>1, <3>1, <3>2
  <2>3. QED
    BY <1>10, <2>2 DEF HandlerRefuses
<1>11. QED
  BY <1>1, <1>2, <1>3, <1>4, <1>5, <1>6, <1>7, <1>8, <1>9, <1>10

LEMMA MarkStoppedType == gen \in Records => MarkStopped \in Records
BY StatusType DEF MarkStopped, Statuses, Records

LEMMA ForgetsType ==
  ASSUME DaemonTypeOK, NEW p \in Pids, Forgets(p)
  PROVE  /\ asked' \in [Clients -> Pids \cup {Nil}] /\ hpc' \in [Clients -> {"none", "read", "event"}]
         /\ child' \in [Pids -> Clients \cup {Nil}]
BY DEF Forgets, DaemonTypeOK

LEMMA DaemonType ==
  ASSUME DaemonTypeOK, NEW p \in Pids, DaemonStep(p) \/ Fault(p)
  PROVE  DaemonTypeOK'
<1> USE DEF DaemonTypeOK, files, daemons, clients, requests, At, Owning
<1>1. CASE Acquires(p) \/ LeaseRefused(p) \/ UnlinksOldSocket(p) \/ KeepsWidget(p)
  BY <1>1 DEF Acquires, LeaseRefused, UnlinksOldSocket, KeepsWidget
<1>2. CASE WritesRecord(p)
  BY <1>2 DEF WritesRecord, Records, Entry, Statuses
<1>3. CASE SpawnsWidget(p)
  BY <1>3 DEF SpawnsWidget, GoesTo, CommandLabels
<1>4. CASE RecordsWidget(p)
  BY <1>4 DEF RecordsWidget
<1>5. CASE StartsWatcher(p)
  BY <1>5 DEF StartsWatcher, Records, Entry, Statuses
<1>6. CASE Binds(p) \/ SeesStop(p) \/ ServerCloses(p) \/ ClosesSocket(p)
  BY <1>6 DEF Binds, SeesStop, ServerCloses, ClosesSocket
<1>7. CASE TearsDown(p)
  <2>1. cpc' \in [Clients -> CommandLabels]
    BY <1>7 DEF TearsDown, Ends, CommandLabels
  <2>2. gen' \in Records
    BY <1>7, MarkStoppedType DEF TearsDown
  <2>3. QED
    BY <1>7, <2>1, <2>2 DEF TearsDown
<1>8. CASE WritesStopped(p)
  BY <1>8 DEF WritesStopped, Records, Entry, Statuses
<1>9. CASE Releases(p)
  BY <1>9, ForgetsType DEF Releases
<1>10. CASE RuntimeFails(p) \/ GenerationFails(p) \/ BindFails(p)
  BY <1>10 DEF RuntimeFails, GenerationFails, BindFails
<1>11. CASE Dies(p)
  BY <1>11, ForgetsType, BoundsAssumption DEF BoundsAssumption, Dies
<1>12. QED
  BY <1>1, <1>2, <1>3, <1>4, <1>5, <1>6, <1>7, <1>8, <1>9, <1>10, <1>11
     DEF DaemonStep, Startup, Shutdown, Fault

LEMMA TypeStep == DaemonTypeOK /\ [DaemonNext]_daemonVars => DaemonTypeOK'
<1> SUFFICES ASSUME DaemonTypeOK, [DaemonNext]_daemonVars
             PROVE  DaemonTypeOK'
  OBVIOUS
<1>1. CASE UNCHANGED daemonVars
  BY <1>1 DEF DaemonTypeOK, daemonVars, files, daemons, clients, requests
<1>2. QED
  BY <1>1, StepCases, LooksType, ClientType, DaemonType

THEOREM DaemonTypeCorrect == DaemonSpec => []DaemonTypeOK
BY TypeInit, TypeStep, PTL DEF DaemonSpec

-----------------------------------------------------------------------------
(* Who owns the project, and what of it is visible in the files.           *)

(* The lock names the daemon from its acquire to its release: nobody else  *)
(* drops it, since only a lease whose owner is gone is recovered.          *)
LeaseHeld == \A p \in Pids : dpc[p] \in Owning => lease = p

(* A control socket is only open while its daemon is past startup.         *)
ServingInside == \A p \in Pids : serving[p] => dpc[p] \in {"loop", "teardown"}

(* Before its socket is bound nobody has told a daemon to stop.            *)
Early == {"unborn", "new", "record", "unlink", "widget", "widgetRecord", "watcher", "bind"}

Untold(p) == ~stopEvent[p] /\ \A c \in Clients : asked[c] # p

EarlyUntold == \A p \in Pids : dpc[p] \in Early => Untold(p)

(* A running record is of a daemon that owns the project, or that crashed. *)
RecordOwned ==
  record # Nil /\ record.status = "running"
    => dpc[record.pid] \in (Owning \ {"release"}) \cup {"crashed"}

(* And a running generation of one whose runtime is started, or crashed.   *)
GenerationOwned ==
  gen # Nil /\ gen.status = "running"
    => \/ dpc[gen.pid] = "crashed"
       \/ started[gen.pid] /\ dpc[gen.pid] \in {"bind", "loop", "teardown"}

OwnerInv == LeaseHeld /\ ServingInside /\ EarlyUntold /\ RecordOwned /\ GenerationOwned

LEMMA OwnerInit == DaemonInit => OwnerInv
BY BoundsAssumption DEF BoundsAssumption, DaemonInit, OwnerInv, LeaseHeld, ServingInside,
   EarlyUntold, Untold, Early, RecordOwned, GenerationOwned, Owning, Clients, Pids

(* What no step of a client may change for the invariant to stay.          *)
LEMMA OwnerStays ==
  ASSUME OwnerInv, UNCHANGED <<record, lease, gen, daemons, requests>>
  PROVE  OwnerInv'
BY Zenon DEF OwnerInv, LeaseHeld, ServingInside, EarlyUntold, Untold, RecordOwned,
   GenerationOwned, daemons, requests

LEMMA OwnerClient ==
  ASSUME DaemonTypeOK, OwnerInv, NEW c \in Clients,
         \/ Looks(c) \/ StartBegins(c) \/ StarterRecovers(c) \/ StarterCleans(c)
         \/ StarterSpawns(c) \/ StopWritesStale(c) \/ StopUnlinks(c) \/ SendStop(c)
         \/ HandlerMarks(c) \/ HandlerAnswers(c) \/ HandlerRefuses(c)
  PROVE  OwnerInv'
<1>1. CASE Looks(c) \/ StartBegins(c) \/ StarterCleans(c) \/ StopUnlinks(c)
  BY <1>1, OwnerStays, LooksOnly, Zenon DEF StartBegins, StarterCleans, StopUnlinks, files
<1>2. CASE StarterRecovers(c)
  <2>1. \A p \in Pids : dpc[p] \notin Owning
    BY <1>2, BoundsAssumption
       DEF BoundsAssumption, StarterRecovers, LeaseIsLive, Lives, OwnerInv, LeaseHeld, Owning, Pids
  <2>2. LeaseHeld'
    BY <1>2, <2>1, Zenon DEF StarterRecovers, LeaseHeld, daemons
  <2>3. QED
    BY <1>2, <2>2, Zenon DEF StarterRecovers, OwnerInv, ServingInside, EarlyUntold, Untold,
       RecordOwned, GenerationOwned, daemons, requests
<1>3. CASE StarterSpawns(c)
  <2>1. PICK p \in Pids : dpc[p] = "unborn" /\ At(p, "new")
    BY <1>3 DEF StarterSpawns
  <2>2. UNCHANGED <<record, lease, gen, serving, stopEvent, started, requests>>
    BY <1>3 DEF StarterSpawns, files
  <2>3. LeaseHeld' /\ ServingInside' /\ RecordOwned' /\ GenerationOwned'
    BY <2>1, <2>2 DEF At, DaemonTypeOK, OwnerInv, LeaseHeld, ServingInside, RecordOwned,
       GenerationOwned, Owning, Records
  <2>4. EarlyUntold'
    BY <2>1, <2>2 DEF At, DaemonTypeOK, OwnerInv, EarlyUntold, Untold, Early, requests
  <2>5. QED
    BY <2>3, <2>4 DEF OwnerInv
<1>4. CASE StopWritesStale(c) \/ HandlerMarks(c)
  <2>1. record' # Nil => record' = record \/ record'.status # "running"
    BY <1>4 DEF StopWritesStale, HandlerMarks, DaemonTypeOK, Records
  <2>2. EarlyUntold'
    BY <1>4, Zenon DEF StopWritesStale, HandlerMarks, OwnerInv, EarlyUntold, Untold, daemons, requests
  <2>3. QED
    BY <1>4, <2>1, <2>2, Zenon DEF StopWritesStale, HandlerMarks, OwnerInv, LeaseHeld, ServingInside,
       RecordOwned, GenerationOwned, daemons
<1>5. CASE SendStop(c)
  <2>1. dpc[sock] \notin Early /\ sock \in Pids
    BY <1>5 DEF SendStop, Reachable, OwnerInv, ServingInside, Early, DaemonTypeOK
  <2>2. EarlyUntold'
    BY <1>5, <2>1 DEF SendStop, OwnerInv, EarlyUntold, Untold, daemons, DaemonTypeOK
  <2>3. QED
    BY <1>5, <2>2, Zenon DEF SendStop, OwnerInv, LeaseHeld, ServingInside, RecordOwned,
       GenerationOwned, daemons, files
<1>6. CASE HandlerAnswers(c) \/ HandlerRefuses(c)
  <2>1. asked[c] \in Pids /\ dpc[asked[c]] \notin Early
    BY <1>6 DEF HandlerAnswers, HandlerRefuses, Handling, OwnerInv, EarlyUntold, Untold, DaemonTypeOK
  <2>2. \A p \in Pids : p # asked[c] => stopEvent'[p] = stopEvent[p]
    <3>1. PICK set : stopEvent' = [stopEvent EXCEPT ![asked[c]] = set]
      BY <1>6, Zenon DEF HandlerAnswers, HandlerRefuses
    <3>2. QED
      BY <3>1 DEF DaemonTypeOK
  <2>3. \A b \in Clients : asked'[b] \in {asked[b], Nil}
    BY <1>6 DEF HandlerAnswers, HandlerRefuses, DaemonTypeOK
  <2>4. EarlyUntold'
    BY <1>6, <2>1, <2>2, <2>3, BoundsAssumption
       DEF BoundsAssumption, HandlerAnswers, HandlerRefuses, OwnerInv, EarlyUntold, Untold, Pids
  <2>5. QED
    BY <1>6, <2>4, Zenon DEF HandlerAnswers, HandlerRefuses, OwnerInv, LeaseHeld, ServingInside,
       RecordOwned, GenerationOwned, files
<1>7. QED
  BY <1>1, <1>2, <1>3, <1>4, <1>5, <1>6

(* The steps of one daemon: only Acquires makes an owner, only Binds       *)
(* opens a socket, and every way out passes through the state that the     *)
(* record and the generation say.                                          *)
LEMMA LeaseHeldStep ==
  ASSUME DaemonTypeOK, OwnerInv, NEW p \in Pids, DaemonStep(p) \/ Fault(p)
  PROVE  LeaseHeld'
<1> USE DEF OwnerInv, LeaseHeld, At, DaemonTypeOK, Owning, files
<1>1. CASE Acquires(p)
  BY <1>1, BoundsAssumption DEF BoundsAssumption, Acquires, Pids
<1>2. CASE Startup(p) /\ ~Acquires(p)
  BY <1>2 DEF Startup, LeaseRefused, WritesRecord, UnlinksOldSocket, KeepsWidget, SpawnsWidget,
     RecordsWidget, StartsWatcher, Binds
<1>3. CASE Shutdown(p) /\ ~Releases(p)
  BY <1>3 DEF Shutdown, SeesStop, ServerCloses, TearsDown, ClosesSocket, WritesStopped
<1>4. CASE Releases(p)
  BY <1>4 DEF Releases
<1>5. CASE Fault(p)
  BY <1>5 DEF Fault, RuntimeFails, GenerationFails, BindFails, Dies
<1>6. QED
  BY <1>1, <1>2, <1>3, <1>4, <1>5 DEF DaemonStep

LEMMA ServingInsideStep ==
  ASSUME DaemonTypeOK, OwnerInv, NEW p \in Pids, DaemonStep(p) \/ Fault(p)
  PROVE  ServingInside'
<1> USE DEF OwnerInv, ServingInside, At, DaemonTypeOK
<1>1. CASE Startup(p)
  BY <1>1 DEF Startup, Acquires, LeaseRefused, WritesRecord, UnlinksOldSocket, KeepsWidget,
     SpawnsWidget, RecordsWidget, StartsWatcher, Binds
<1>2. CASE Shutdown(p)
  BY <1>2 DEF Shutdown, SeesStop, ServerCloses, TearsDown, ClosesSocket, WritesStopped, Releases
<1>3. CASE Fault(p)
  BY <1>3 DEF Fault, RuntimeFails, GenerationFails, BindFails, Dies
<1>4. QED
  BY <1>1, <1>2, <1>3 DEF DaemonStep

LEMMA EarlyUntoldStep ==
  ASSUME DaemonTypeOK, OwnerInv, NEW p \in Pids, DaemonStep(p) \/ Fault(p)
  PROVE  EarlyUntold'
<1> USE DEF OwnerInv, EarlyUntold, Untold, At, DaemonTypeOK, Early
<1>1. CASE Startup(p)
  BY <1>1 DEF Startup, Acquires, LeaseRefused, WritesRecord, UnlinksOldSocket, KeepsWidget,
     SpawnsWidget, RecordsWidget, StartsWatcher, Binds, requests
<1>2. CASE Shutdown(p) /\ ~Releases(p)
  BY <1>2 DEF Shutdown, SeesStop, ServerCloses, TearsDown, ClosesSocket, WritesStopped, requests
<1>3. CASE RuntimeFails(p) \/ GenerationFails(p) \/ BindFails(p)
  BY <1>3 DEF RuntimeFails, GenerationFails, BindFails, requests
<1>4. CASE Releases(p) \/ Dies(p)
  <2>1. \A c \in Clients : asked'[c] \in {asked[c], Nil}
    BY <1>4 DEF Releases, Dies, Forgets
  <2>2. QED
    BY <1>4, <2>1, BoundsAssumption DEF BoundsAssumption, Releases, Dies, Pids
<1>5. QED
  BY <1>1, <1>2, <1>3, <1>4 DEF DaemonStep, Fault

LEMMA RecordOwnedStep ==
  ASSUME DaemonTypeOK, OwnerInv, NEW p \in Pids, DaemonStep(p) \/ Fault(p)
  PROVE  RecordOwned'
<1> USE DEF OwnerInv, RecordOwned, At, DaemonTypeOK, Records, Owning, files
<1>1. CASE WritesRecord(p)
  BY <1>1 DEF WritesRecord, Entry
<1>2. CASE Startup(p) /\ ~WritesRecord(p)
  BY <1>2 DEF Startup, Acquires, LeaseRefused, UnlinksOldSocket, KeepsWidget, SpawnsWidget,
     RecordsWidget, StartsWatcher, Binds
<1>3. CASE Shutdown(p) /\ ~WritesStopped(p)
  BY <1>3 DEF Shutdown, SeesStop, ServerCloses, TearsDown, ClosesSocket, Releases
<1>4. CASE WritesStopped(p)
  BY <1>4 DEF WritesStopped, Entry
<1>5. CASE Fault(p)
  BY <1>5 DEF Fault, RuntimeFails, GenerationFails, BindFails, Dies
<1>6. QED
  BY <1>1, <1>2, <1>3, <1>4, <1>5 DEF DaemonStep

LEMMA GenerationOwnedStep ==
  ASSUME DaemonTypeOK, OwnerInv, NEW p \in Pids, DaemonStep(p) \/ Fault(p)
  PROVE  GenerationOwned'
<1> USE DEF OwnerInv, GenerationOwned, At, DaemonTypeOK, Records, files
<1>1. CASE StartsWatcher(p)
  BY <1>1 DEF StartsWatcher, Entry
<1>2. CASE Startup(p) /\ ~StartsWatcher(p)
  BY <1>2 DEF Startup, Acquires, LeaseRefused, WritesRecord, UnlinksOldSocket, KeepsWidget,
     SpawnsWidget, RecordsWidget, Binds
<1>3. CASE TearsDown(p)
  <2>1. CASE started[p]
    BY <1>3, <2>1 DEF TearsDown, MarkStopped
  <2>2. CASE ~started[p]
    BY <1>3, <2>2 DEF TearsDown
  <2>3. QED
    BY <2>1, <2>2
<1>4. CASE Shutdown(p) /\ ~TearsDown(p)
  BY <1>4 DEF Shutdown, SeesStop, ServerCloses, ClosesSocket, WritesStopped, Releases
<1>5. CASE Fault(p)
  BY <1>5 DEF Fault, RuntimeFails, GenerationFails, BindFails, Dies
<1>6. QED
  BY <1>1, <1>2, <1>3, <1>4, <1>5 DEF DaemonStep

LEMMA OwnerStep == DaemonTypeOK /\ OwnerInv /\ [DaemonNext]_daemonVars => OwnerInv'
<1> SUFFICES ASSUME DaemonTypeOK, OwnerInv, [DaemonNext]_daemonVars
             PROVE  OwnerInv'
  OBVIOUS
<1>1. CASE UNCHANGED daemonVars
  BY <1>1, OwnerStays DEF daemonVars, files
<1>2. ASSUME NEW p \in Pids, DaemonStep(p) \/ Fault(p)
      PROVE  OwnerInv'
  BY <1>2, LeaseHeldStep, ServingInsideStep, EarlyUntoldStep, RecordOwnedStep, GenerationOwnedStep
     DEF OwnerInv
<1>3. QED
  BY <1>1, <1>2, StepCases, OwnerClient

LEMMA OwnerAlways == DaemonSpec => [](DaemonTypeOK /\ OwnerInv)
BY TypeInit, TypeStep, OwnerInit, OwnerStep, PTL DEF DaemonSpec

(* One daemon at a time is past acquire: the lock file names one.          *)
THEOREM OneDaemonOwns == DaemonSpec => []OneDaemon
<1>1. OwnerInv => OneDaemon
  BY DEF OwnerInv, LeaseHeld, OneDaemon
<1>2. QED
  BY <1>1, OwnerAlways, PTL

(* The daemons of a project own it in turns, as the abstract lease has it: *)
(* what run_daemon guards with its lease is one holder after another.      *)
Owners == {p \in Pids : dpc[p] \in Owning}
Turns == INSTANCE ExclusiveLease WITH Schedulers <- Pids, holders <- Owners

LEMMA OneMoves ==
  ASSUME DaemonTypeOK, LeaseHeld, NEW p \in Pids, NEW label, At(p, label),
         label \in Owning => dpc[p] \in Owning \/ (dpc[p] = "new" /\ lease = Nil)
  PROVE  Turns!Next \/ UNCHANGED Owners
<1>1. dpc'[p] = label /\ \A q \in Pids \ {p} : dpc'[q] = dpc[q]
  BY DEF At, DaemonTypeOK
<1>2. CASE dpc[p] \in Owning /\ label \in Owning
  BY <1>1, <1>2 DEF Owners
<1>3. CASE dpc[p] \in Owning /\ label \notin Owning
  <2>1. Owners = {p}
    BY <1>3 DEF Owners, LeaseHeld
  <2>2. Owners' = {}
    BY <1>1, <1>3, <2>1 DEF Owners
  <2>3. QED
    BY <2>1, <2>2 DEF Turns!Next, Turns!Drop
<1>4. CASE dpc[p] \notin Owning /\ label \in Owning
  <2>1. Owners = {}
    BY <1>4, BoundsAssumption DEF BoundsAssumption, Owners, LeaseHeld, Pids
  <2>2. Owners' = {p}
    BY <1>1, <1>4, <2>1 DEF Owners
  <2>3. QED
    BY <2>1, <2>2 DEF Turns!Next, Turns!Claim
<1>5. CASE dpc[p] \notin Owning /\ label \notin Owning
  BY <1>1, <1>5 DEF Owners
<1>6. QED
  BY <1>2, <1>3, <1>4, <1>5

LEMMA TurnStep ==
  ASSUME DaemonTypeOK, LeaseHeld, [DaemonNext]_daemonVars
  PROVE  Turns!Next \/ UNCHANGED Owners
<1>1. CASE UNCHANGED dpc
  BY <1>1 DEF Owners
<1>2. CASE \E c \in Clients : StarterSpawns(c)
  <2>1. PICK p \in Pids : dpc[p] = "unborn" /\ At(p, "new")
    BY <1>2 DEF StarterSpawns
  <2>2. QED
    BY <2>1, OneMoves DEF Owning
<1>3. ASSUME NEW p \in Pids, Startup(p)
      PROVE  Turns!Next \/ UNCHANGED Owners
  <2>1. CASE Acquires(p)
    BY <2>1, OneMoves DEF Acquires
  <2>2. CASE LeaseRefused(p)
    <3>1. At(p, "exited") /\ "exited" \notin Owning
      BY <2>2 DEF LeaseRefused, Owning
    <3>2. QED
      BY <3>1, OneMoves
  <2>3. CASE WritesRecord(p) \/ UnlinksOldSocket(p) \/ KeepsWidget(p) \/ SpawnsWidget(p)
             \/ RecordsWidget(p) \/ StartsWatcher(p) \/ Binds(p)
    <3>1. dpc[p] \in Owning /\ \E label \in Owning : At(p, label)
      BY <2>3 DEF WritesRecord, UnlinksOldSocket, KeepsWidget, SpawnsWidget, RecordsWidget,
         StartsWatcher, Binds, Owning
    <3>2. QED
      BY <3>1, OneMoves
  <2>4. QED
    BY <1>3, <2>1, <2>2, <2>3 DEF Startup
<1>4. ASSUME NEW p \in Pids, Shutdown(p) \/ Fault(p)
      PROVE  Turns!Next \/ UNCHANGED Owners
  <2>1. CASE ServerCloses(p)
    BY <2>1 DEF ServerCloses, Owners
  <2>2. CASE Releases(p) \/ Dies(p)
    <3>1. \E label \in {"exited", "crashed"} : At(p, label)
      BY <2>2 DEF Releases, Dies
    <3>2. QED
      BY <3>1, OneMoves DEF Owning
  <2>3. CASE SeesStop(p) \/ TearsDown(p) \/ ClosesSocket(p) \/ WritesStopped(p)
             \/ RuntimeFails(p) \/ GenerationFails(p) \/ BindFails(p)
    <3>1. dpc[p] \in Owning /\ \E label \in Owning : At(p, label)
      BY <2>3 DEF SeesStop, TearsDown, ClosesSocket, WritesStopped, RuntimeFails, GenerationFails,
         BindFails, Owning
    <3>2. QED
      BY <3>1, OneMoves
  <2>4. QED
    BY <1>4, <2>1, <2>2, <2>3 DEF Shutdown, Fault
<1>5. ASSUME NEW c \in Clients, Command(c) \/ Handler(c), ~StarterSpawns(c)
      PROVE  UNCHANGED dpc
  BY <1>5 DEF Command, Handler, StartBegins, WidgetBegins, WidgetLooks, StarterReads, StarterRefused,
     StarterRecovers, StarterCleans, StarterReady, StarterGivesUp, Leaves, StopBegins, StopWritesStale,
     StopUnlinks, SendStop, SendFails, AnswerLost, StopWaited, StopWaitsTooLong,
     HandlerMarks, HandlerAnswers, HandlerRefuses, daemons
<1>6. CASE UNCHANGED daemonVars
  BY <1>6 DEF daemonVars, daemons, Owners
<1>7. QED
  BY <1>1, <1>2, <1>3, <1>4, <1>5, <1>6 DEF DaemonNext, DaemonStep

(* The daemon implements the abstract lease, to which the file protocol of *)
(* module Lease is refined too: each turn ends by release or by a crash,   *)
(* and no start, widget or recovery passes ownership on directly.          *)
THEOREM DaemonRefinesExclusiveLease == DaemonSpec => Turns!Spec
<1>1. DaemonInit => Turns!Init
  BY DEF DaemonInit, Turns!Init, Owners, Owning
<1>2. DaemonTypeOK /\ OwnerInv /\ [DaemonNext]_daemonVars => [Turns!Next]_Owners
  BY TurnStep DEF OwnerInv
<1>3. QED
  BY <1>1, <1>2, OwnerAlways, PTL DEF DaemonSpec, Turns!Spec

(* A control request reaches only the daemon that owns the project.        *)
THEOREM OnlyTheOwnerAnswers == DaemonSpec => []AnswersAreTheOwners
<1>1. DaemonTypeOK /\ OwnerInv => AnswersAreTheOwners
  BY DEF OwnerInv, LeaseHeld, ServingInside, AnswersAreTheOwners, Reachable, DaemonTypeOK, Owning
<1>2. QED
  BY <1>1, OwnerAlways, PTL

(* A daemon that ended by itself left no generation of its own running.    *)
THEOREM GenerationsEnd == DaemonSpec => []GenerationEnds
<1>1. OwnerInv => GenerationEnds
  BY DEF OwnerInv, GenerationOwned, GenerationEnds
<1>2. QED
  BY <1>1, OwnerAlways, PTL

(* A start that reports a started daemon saw one that owns the project:    *)
(* only the step that finds the record alive reports it, and a live        *)
(* running record is the owner's.                                          *)
THEOREM ReadyIsOwned == DaemonSpec => ReadyMeansOwned
<1>1. ASSUME DaemonTypeOK, OwnerInv, [DaemonNext]_daemonVars, NEW c \in Clients,
             cpc[c] = "ready", cpc'[c] = "attached"
      PROVE  record.pid = lease
  <2>1. StarterReady(c)
    <3>1. ASSUME NEW b \in Clients, Command(b), ~StarterReady(c)
          PROVE  FALSE
      BY <1>1, <3>1 DEF Command, StartBegins, WidgetBegins, WidgetLooks, StarterReads, StarterRefused,
         StarterRecovers, StarterCleans, StarterSpawns, StarterReady, StarterGivesUp, Leaves,
         StopBegins, StopWritesStale, StopUnlinks, SendStop, SendFails, AnswerLost, StopWaited,
         StopWaitsTooLong, GoesTo, IsNext, DaemonTypeOK
    <3>2. ASSUME NEW b \in Clients, Handler(b)
          PROVE  FALSE
      BY <1>1, <3>2 DEF Handler, HandlerMarks, HandlerAnswers, HandlerRefuses, clients, DaemonTypeOK
    <3>3. ASSUME NEW p \in Pids, DaemonStep(p)
          PROVE  FALSE
      BY <1>1, <3>3 DEF DaemonStep, Startup, Shutdown, Acquires, LeaseRefused, WritesRecord,
         UnlinksOldSocket, KeepsWidget, SpawnsWidget, RecordsWidget, StartsWatcher, Binds, SeesStop,
         ServerCloses, TearsDown, ClosesSocket, WritesStopped, Releases, Ends, GoesTo, IsNext,
         clients, DaemonTypeOK
    <3>4. ASSUME NEW p \in Pids, Fault(p)
          PROVE  FALSE
      BY <1>1, <3>4 DEF Fault, RuntimeFails, GenerationFails, BindFails, Dies, clients
    <3>5. QED
      BY <1>1, <3>1, <3>2, <3>3, <3>4 DEF DaemonNext, daemonVars, clients
  <2>2. record \in Records /\ record # Nil /\ record.status = "running" /\ Lives(record.pid)
    BY <1>1, <2>1 DEF StarterReady, RecordAlive, DaemonTypeOK
  <2>3. record.pid \in Pids /\ dpc[record.pid] \in Owning
    BY <1>1, <2>2 DEF OwnerInv, RecordOwned, Lives, Records
  <2>4. QED
    BY <1>1, <2>3 DEF OwnerInv, LeaseHeld
<1>2. DaemonTypeOK /\ OwnerInv /\ [DaemonNext]_daemonVars
        => [\A c \in Clients :
              cpc[c] = "ready" /\ cpc'[c] = "attached" => record.pid = lease]_daemonVars
  BY <1>1
<1>3. QED
  BY <1>2, OwnerAlways, PTL DEF DaemonSpec, ReadyMeansOwned

-----------------------------------------------------------------------------
(* The widget process that a daemon spawned.                               *)

(* The daemon will end it: it is the child of a started runtime, or of one *)
(* that is about to start.                                                 *)
WillEnd(p, c) ==
  /\ child[p] = c
  /\ \/ dpc[p] \in {"widgetRecord", "watcher"}
     \/ dpc[p] \in {"bind", "loop", "teardown"} /\ started[p]

(* Or it was forgotten by a daemon that failed before anyone could reach   *)
(* it, which nobody stops any more.                                        *)
Failed(p) == Untold(p) /\ ~serving[p] /\ dpc[p] \in {"teardown", "close", "final", "release", "exited"}

ChildInv ==
  \A c \in Clients, p \in Pids :
    parent[c] = p => cpc[c] = "done" \/ dpc[p] = "crashed" \/ WillEnd(p, c) \/ Failed(p)

LEMMA ChildInit == DaemonInit => ChildInv
BY BoundsAssumption DEF BoundsAssumption, DaemonInit, ChildInv, Pids

(* A command that has ended stays so, and gets no parent.                  *)
LEMMA ChildClient ==
  ASSUME DaemonTypeOK, OwnerInv, ChildInv, NEW c \in Clients,
         \/ Looks(c) \/ StartBegins(c) \/ StarterRecovers(c) \/ StarterCleans(c)
         \/ StarterSpawns(c) \/ StopWritesStale(c) \/ StopUnlinks(c) \/ SendStop(c)
         \/ HandlerMarks(c) \/ HandlerAnswers(c) \/ HandlerRefuses(c)
  PROVE  ChildInv'
<1>1. ASSUME NEW b \in Clients, cpc[b] = "done"
      PROVE  cpc'[b] = "done"
  BY <1>1 DEF Looks, WidgetBegins, WidgetLooks, StarterReads, StarterRefused, StarterReady,
     StarterGivesUp, Leaves, StopBegins, SendFails, AnswerLost, StopWaited, StopWaitsTooLong,
     StartBegins, StarterRecovers, StarterCleans, StarterSpawns, StopWritesStale, StopUnlinks,
     SendStop, HandlerMarks, HandlerAnswers, HandlerRefuses, clients, GoesTo, IsNext, DaemonTypeOK
<1>2. CASE UNCHANGED <<daemons, asked, parent>>
  BY <1>1, <1>2, Zenon DEF ChildInv, WillEnd, Failed, Untold, daemons
<1>3. CASE StarterSpawns(c)
  <2>1. PICK p \in Pids : dpc[p] = "unborn" /\ At(p, "new")
    BY <1>3 DEF StarterSpawns
  <2>2. ASSUME NEW b \in Clients, NEW q \in Pids, parent'[b] = q, cpc'[b] # "done"
        PROVE  dpc'[q] = "crashed" \/ WillEnd(q, b)' \/ Failed(q)'
    <3>1. parent[b] = q /\ cpc[b] # "done"
      BY <1>1, <1>3, <2>2, BoundsAssumption DEF BoundsAssumption, StarterSpawns, DaemonTypeOK, Pids
    <3>2. dpc[q] = "crashed" \/ WillEnd(q, b) \/ Failed(q)
      BY <3>1 DEF ChildInv
    <3>3. q # p
      BY <2>1, <3>2 DEF WillEnd, Failed
    <3>4. dpc'[q] = dpc[q]
      BY <2>1, <3>3 DEF At, DaemonTypeOK
    <3>5. QED
      BY <1>3, <3>2, <3>4 DEF StarterSpawns, WillEnd, Failed, Untold, requests
  <2>3. QED
    BY <2>2 DEF ChildInv
<1>4. CASE SendStop(c)
  <2>1. sock \in Pids /\ ~Failed(sock)
    BY <1>4 DEF SendStop, Reachable, DaemonTypeOK, Failed
  <2>2. \A q \in Pids : Failed(q) => Failed(q)'
    BY <1>4, <2>1 DEF SendStop, Failed, Untold, daemons, DaemonTypeOK
  <2>3. QED
    BY <1>1, <1>4, <2>2, Zenon DEF SendStop, ChildInv, WillEnd, daemons
<1>5. CASE HandlerAnswers(c) \/ HandlerRefuses(c)
  <2>1. asked[c] \in Pids /\ ~Failed(asked[c])
    BY <1>5 DEF HandlerAnswers, HandlerRefuses, Handling, DaemonTypeOK, Failed, Untold
  <2>2. \A q \in Pids : q # asked[c] => stopEvent'[q] = stopEvent[q]
    <3>1. PICK set : stopEvent' = [stopEvent EXCEPT ![asked[c]] = set]
      BY <1>5, Zenon DEF HandlerAnswers, HandlerRefuses
    <3>2. QED
      BY <3>1 DEF DaemonTypeOK
  <2>3. \A b \in Clients : asked'[b] \in {asked[b], Nil}
    BY <1>5 DEF HandlerAnswers, HandlerRefuses, DaemonTypeOK
  <2>4. \A q \in Pids : Failed(q) => Failed(q)'
    BY <1>5, <2>1, <2>2, <2>3, BoundsAssumption
       DEF BoundsAssumption, HandlerAnswers, HandlerRefuses, Failed, Untold, Pids
  <2>5. QED
    BY <1>1, <1>5, <2>4, Zenon DEF HandlerAnswers, HandlerRefuses, ChildInv, WillEnd
<1>6. QED
  BY <1>2, <1>3, <1>4, <1>5, LooksOnly
     DEF StartBegins, StarterRecovers, StarterCleans, StopWritesStale, StopUnlinks, HandlerMarks,
         clients, requests

(* One daemon's steps leave the others' children alone.                    *)
LEMMA ChildOthers ==
  ASSUME DaemonTypeOK, NEW p \in Pids, DaemonStep(p) \/ Fault(p),
         NEW c \in Clients, NEW q \in Pids, q # p,
         dpc[q] = "crashed" \/ WillEnd(q, c) \/ Failed(q)
  PROVE  dpc'[q] = "crashed" \/ WillEnd(q, c)' \/ Failed(q)'
<1>1. /\ dpc'[q] = dpc[q] /\ stopEvent'[q] = stopEvent[q] /\ serving'[q] = serving[q]
      /\ started'[q] = started[q] /\ child'[q] = child[q]
  BY DEF DaemonStep, Startup, Shutdown, Fault, Acquires, LeaseRefused, WritesRecord, UnlinksOldSocket,
     KeepsWidget, SpawnsWidget, RecordsWidget, StartsWatcher, Binds, SeesStop, ServerCloses, TearsDown,
     ClosesSocket, WritesStopped, Releases, RuntimeFails, GenerationFails, BindFails, Dies, Forgets,
     At, DaemonTypeOK
<1>2. \A b \in Clients : asked'[b] \in {asked[b], Nil}
  BY DEF DaemonStep, Startup, Shutdown, Fault, Acquires, LeaseRefused, WritesRecord, UnlinksOldSocket,
     KeepsWidget, SpawnsWidget, RecordsWidget, StartsWatcher, Binds, SeesStop, ServerCloses, TearsDown,
     ClosesSocket, WritesStopped, Releases, RuntimeFails, GenerationFails, BindFails, Dies, Forgets,
     requests
<1>3. QED
  BY <1>1, <1>2, BoundsAssumption DEF BoundsAssumption, WillEnd, Failed, Untold, Pids

(* And its own steps its own: what it forgets before it was reachable it   *)
(* was not told to stop, and a runtime that started ends its child.        *)
LEMMA ChildOwn ==
  ASSUME DaemonTypeOK, OwnerInv, NEW p \in Pids, DaemonStep(p) \/ Fault(p),
         NEW c \in Clients, dpc[p] = "crashed" \/ WillEnd(p, c) \/ Failed(p)
  PROVE  cpc'[c] = "done" \/ dpc'[p] = "crashed" \/ WillEnd(p, c)' \/ Failed(p)'
<1> USE DEF WillEnd, Failed, At, DaemonTypeOK
<1>1. CASE Startup(p)
  BY <1>1 DEF Startup, Acquires, LeaseRefused, WritesRecord, UnlinksOldSocket, KeepsWidget,
     SpawnsWidget, RecordsWidget, StartsWatcher, Binds
<1>2. CASE SeesStop(p) \/ ServerCloses(p)
  BY <1>2 DEF SeesStop, ServerCloses, Untold
<1>3. CASE TearsDown(p)
  <2>1. CASE Failed(p)
    BY <1>3, <2>1 DEF TearsDown, Untold, requests
  <2>2. CASE started[p] /\ child[p] = c
    BY <1>3, <2>2, BoundsAssumption DEF BoundsAssumption, TearsDown, Ends, Clients
  <2>3. QED
    BY <1>3, <2>1, <2>2 DEF TearsDown
<1>4. CASE ClosesSocket(p) \/ WritesStopped(p)
  BY <1>4 DEF ClosesSocket, WritesStopped, Untold, requests
<1>5. CASE Releases(p)
  <2>1. \A b \in Clients : asked'[b] \in {asked[b], Nil}
    BY <1>5 DEF Releases, Forgets
  <2>2. QED
    BY <1>5, <2>1, BoundsAssumption DEF BoundsAssumption, Releases, Untold, Pids
<1>6. CASE RuntimeFails(p) \/ GenerationFails(p) \/ BindFails(p)
  <2>1. Untold(p) /\ ~serving[p] /\ UNCHANGED <<stopEvent, serving, asked>>
    BY <1>6 DEF RuntimeFails, GenerationFails, BindFails, OwnerInv, EarlyUntold, ServingInside, Early,
       requests
  <2>2. Untold(p)' /\ ~serving'[p]
    BY <2>1 DEF Untold
  <2>3. QED
    BY <1>6, <2>2 DEF RuntimeFails, GenerationFails, BindFails
<1>7. CASE Dies(p)
  BY <1>7 DEF Dies
<1>8. QED
  BY <1>1, <1>2, <1>3, <1>4, <1>5, <1>6, <1>7 DEF DaemonStep, Shutdown, Fault

LEMMA ChildDaemon ==
  ASSUME DaemonTypeOK, OwnerInv, ChildInv, NEW p \in Pids, DaemonStep(p) \/ Fault(p)
  PROVE  ChildInv'
<1>1. ASSUME NEW c \in Clients, cpc[c] = "done"
      PROVE  cpc'[c] = "done"
  BY <1>1 DEF DaemonStep, Startup, Shutdown, Fault, Acquires, LeaseRefused, WritesRecord,
     UnlinksOldSocket, KeepsWidget, SpawnsWidget, RecordsWidget, StartsWatcher, Binds, SeesStop,
     ServerCloses, TearsDown, ClosesSocket, WritesStopped, Releases, RuntimeFails, GenerationFails,
     BindFails, Dies, Ends, GoesTo, IsNext, clients, DaemonTypeOK
<1>2. CASE SpawnsWidget(p)
  <2>1. \A c \in Clients : parent[c] = p => cpc[c] = "done"
    BY <1>2 DEF SpawnsWidget, ChildInv, WillEnd, Failed
  <2>2. ASSUME NEW c \in Clients, NEW q \in Pids, parent'[c] = q, cpc'[c] # "done"
        PROVE  dpc'[q] = "crashed" \/ WillEnd(q, c)' \/ Failed(q)'
    <3>1. CASE parent[c] = q
      <4>1. q # p /\ (dpc[q] = "crashed" \/ WillEnd(q, c) \/ Failed(q))
        BY <1>1, <2>1, <2>2, <3>1 DEF ChildInv
      <4>2. QED
        BY <1>2, <4>1, ChildOthers DEF DaemonStep, Startup
    <3>2. CASE parent[c] # q
      <4>1. q = p /\ child' = [child EXCEPT ![p] = c] /\ At(p, "widgetRecord")
        BY <1>2, <2>2, <3>2 DEF SpawnsWidget, DaemonTypeOK
      <4>2. QED
        BY <4>1 DEF WillEnd, At, DaemonTypeOK
    <3>3. QED
      BY <3>1, <3>2
  <2>3. QED
    BY <2>2 DEF ChildInv
<1>3. CASE ~SpawnsWidget(p)
  <2>1. UNCHANGED parent
    BY <1>3 DEF DaemonStep, Startup, Shutdown, Fault, Acquires, LeaseRefused, WritesRecord,
       UnlinksOldSocket, KeepsWidget, RecordsWidget, StartsWatcher, Binds, SeesStop,
       ServerCloses, TearsDown, ClosesSocket, WritesStopped, Releases, RuntimeFails, GenerationFails,
       BindFails, Dies, clients
  <2>2. ASSUME NEW c \in Clients, NEW q \in Pids, parent[c] = q, cpc'[c] # "done"
        PROVE  dpc'[q] = "crashed" \/ WillEnd(q, c)' \/ Failed(q)'
    <3>1. dpc[q] = "crashed" \/ WillEnd(q, c) \/ Failed(q)
      BY <1>1, <2>2 DEF ChildInv
    <3>2. QED
      BY <2>2, <3>1, ChildOthers, ChildOwn
  <2>3. QED
    BY <2>1, <2>2 DEF ChildInv
<1>4. QED
  BY <1>2, <1>3

LEMMA ChildStep == DaemonTypeOK /\ OwnerInv /\ ChildInv /\ [DaemonNext]_daemonVars => ChildInv'
<1> SUFFICES ASSUME DaemonTypeOK, OwnerInv, ChildInv, [DaemonNext]_daemonVars
             PROVE  ChildInv'
  OBVIOUS
<1>1. CASE UNCHANGED daemonVars
  BY <1>1, Zenon DEF daemonVars, daemons, clients, requests, ChildInv, WillEnd, Failed, Untold
<1>2. QED
  BY <1>1, StepCases, ChildClient, ChildDaemon

(* The widget of a daemon that was told to stop spawns none: it has ended  *)
(* before its daemon has.                                                  *)
THEOREM StoppedWidgetsStay == DaemonSpec => WidgetRevivesNothing
<1>1. DaemonSpec => []ChildInv
  BY ChildInit, ChildStep, OwnerAlways, PTL DEF DaemonSpec
<1>2. DaemonTypeOK /\ ChildInv /\ [DaemonNext]_daemonVars
        => [\A c \in Clients :
              cpc[c] = "spawn" /\ cpc'[c] = "ready" /\ parent[c] # Nil
                => ~(dpc[parent[c]] = "exited" /\ stopEvent[parent[c]])]_daemonVars
  BY DEF DaemonTypeOK, ChildInv, WillEnd, Failed, Untold
<1>3. QED
  BY <1>1, <1>2, OwnerAlways, PTL DEF DaemonSpec, WidgetRevivesNothing
=============================================================================
