------------------------------- MODULE Lease -------------------------------
(***************************************************************************)
(* The scheduling lease of one project (ariadex/concurrency.py): the lock  *)
(* file .ariadex/runner.lock, the phase record .ariadex/cycle.json, and    *)
(* the BLOCKED item that recovery writes into the handoff.                 *)
(*                                                                         *)
(* Schedulers are processes (`ariadex run`, `ariadex auto`, the daemon):   *)
(* each acquires the lease with O_CREAT|O_EXCL, runs cycles, refreshes its *)
(* heartbeat and releases.  Recoverers are processes that run              *)
(* recover_project: `ariadex recover`, and `ariadex start`, which recovers *)
(* a stale lease before it spawns a daemon.  Every operation on the lock   *)
(* file and on the phase record is one step; processes interleave between  *)
(* any two of them, and may die there.                                     *)
(***************************************************************************)
EXTENDS Naturals

CONSTANTS
  Schedulers,      \* processes that may own the lease; a process id is never reused
  Recoverers,      \* processes that run recover_project
  None             \* no lock file, no phase record, no process

(* PHASE_* of concurrency.py, in the order the runner writes them.         *)
UncertainPhases == {"sent", "captured", "verifying", "completing"}
Phases == {"before-send"} \cup UncertainPhases

NextPhase == [ph \in {"sent", "captured", "verifying"} |->
                 CASE ph = "sent"     -> "captured"
                   [] ph = "captured" -> "verifying"
                   [] OTHER           -> "completing"]

(* A lock file that open(2) created and write(2) has not filled yet carries *)
(* no pid: read_lock returns None for it as for an absent file.            *)
LockFile(creator, pid) == [creator |-> creator, pid |-> pid]
LockFiles == [creator : Schedulers, pid : Schedulers \cup {None}]

ASSUME NoneAssumption == None \notin Schedulers \cup LockFiles \cup Phases

VARIABLES
  lock,      \* runner.lock: None, or the process that created the file and the pid in it
  cycle,     \* cycle.json: None or a phase
  blocked,   \* the uncertain-delivery BLOCKED items of the handoff, by phase
  pc,        \* what each scheduler does next
  rpc,       \* what each recoverer does next
  rowner,    \* the lock owner each recoverer read
  rphase,    \* the phase each recoverer read
  delivery,  \* history: what durable state knows of the provider input last sent
  overlapped \* history: the operator let a recovery overlap a start or an edit

vars == <<lock, cycle, blocked, pc, rpc, rowner, rphase, delivery, overlapped>>

ReadLock == IF lock = None THEN None ELSE lock.pid

Working   == {"prepared", "delivered", "running"}
Dead      == {"dead", "gone"}
Alive(s)  == pc[s] \notin Dead

(* A scheduler that returned from acquire() and has not entered release(). *)
HoldsLease(s) == pc[s] \in {"idle", "beat"} \cup Working

Init ==
  /\ lock = None
  /\ cycle = None
  /\ blocked = {}
  /\ pc = [s \in Schedulers |-> "new"]
  /\ rpc = [r \in Recoverers |-> "idle"]
  /\ rowner = [r \in Recoverers |-> None]
  /\ rphase = [r \in Recoverers |-> None]
  /\ delivery = "none"
  /\ overlapped = FALSE

Goto(s, label) == pc' = [pc EXCEPT ![s] = label]
RGoto(r, label) == rpc' = [rpc EXCEPT ![r] = label]

Resting == {"idle", "recovered", "failed"}

recoverVars == <<rpc, rowner, rphase>>

Running(r) == rpc[r] \in {"validated", "reconcile", "clear", "unlink"}
RecoveryRunning == \E r \in Recoverers : Running(r)

Started(s) == Alive(s) /\ pc[s] # "new"

(* An operator command begins, beside what else is running or not.         *)
NotesOverlap(other) == overlapped' = (overlapped \/ other)

-----------------------------------------------------------------------------
AcquireCreate_NotExclusive(s) ==
  /\ pc[s] = "new"
  /\ lock' = LockFile(s, None)
  /\ Goto(s, "opened")
  /\ NotesOverlap(RecoveryRunning)
  /\ UNCHANGED <<cycle, blocked, recoverVars, delivery>>

(* acquire(): O_CREAT|O_EXCL creates the file or finds one.                *)
AcquireCreate(s) ==
  /\ pc[s] = "new"
  /\ lock = None
  /\ lock' = LockFile(s, None)
  /\ Goto(s, "opened")
  /\ NotesOverlap(RecoveryRunning)
  /\ UNCHANGED <<cycle, blocked, recoverVars, delivery>>

(* The file exists: unreadable, live or stale owner; nothing is deleted.   *)
AcquireRefused(s) ==
  /\ pc[s] = "new"
  /\ lock # None
  /\ Goto(s, "gone")
  /\ NotesOverlap(RecoveryRunning)
  /\ UNCHANGED <<lock, cycle, blocked, recoverVars, delivery>>

(* The write goes to the file that was opened, wherever the path points.   *)
AcquireWrite(s) ==
  /\ pc[s] = "opened"
  /\ lock' = IF lock = LockFile(s, None) THEN LockFile(s, s) ELSE lock
  /\ Goto(s, "idle")
  /\ UNCHANGED <<cycle, blocked, recoverVars, delivery, overlapped>>

(* A failed write removes the file by its path and raises.                 *)
AcquireWriteFails(s) ==
  /\ pc[s] = "opened"
  /\ lock' = None
  /\ Goto(s, "gone")
  /\ UNCHANGED <<cycle, blocked, recoverVars, delivery, overlapped>>

(* heartbeat(): read the lock, then replace it when the pid is our own.    *)
HeartbeatRead(s) ==
  /\ pc[s] = "idle"
  /\ ReadLock = s
  /\ Goto(s, "beat")
  /\ UNCHANGED <<lock, cycle, blocked, recoverVars, delivery, overlapped>>

HeartbeatWrite(s) ==
  /\ pc[s] = "beat"
  /\ lock' = LockFile(s, s)
  /\ Goto(s, "idle")
  /\ UNCHANGED <<cycle, blocked, recoverVars, delivery, overlapped>>

(* release(): read the lock, then unlink it when the pid is our own.  The  *)
(* finally clause of _run_guarded, an exception out of a cycle and the     *)
(* SIGTERM handler all come here; the phase record is left as it is.       *)
ReleaseRead(s) ==
  /\ pc[s] \in {"idle"} \cup Working
  /\ Goto(s, IF ReadLock = s THEN "drop" ELSE "gone")
  /\ UNCHANGED <<lock, cycle, blocked, recoverVars, delivery, overlapped>>

ReleaseUnlink(s) ==
  /\ pc[s] = "drop"
  /\ lock' = None
  /\ Goto(s, "gone")
  /\ UNCHANGED <<cycle, blocked, recoverVars, delivery, overlapped>>

(* The process dies: kill -9, power loss.  Files stay as they are.         *)
Crash(s) ==
  /\ Alive(s)
  /\ pc[s] # "new"
  /\ Goto(s, "dead")
  /\ UNCHANGED <<lock, cycle, blocked, recoverVars, delivery, overlapped>>

-----------------------------------------------------------------------------
(* A cycle of the owner, as far as durable evidence of a delivery goes.    *)

BeginCycle_Unreconciled(s) ==
  /\ pc[s] = "idle"
  /\ blocked = {}
  /\ cycle' = "before-send"
  /\ Goto(s, "prepared")
  /\ UNCHANGED <<lock, blocked, recoverVars, delivery, overlapped>>

(* _cycle: an uncertain phase record or a BLOCKED item stops the runner;   *)
(* otherwise _execute records before-send.                                 *)
BeginCycle(s) ==
  /\ pc[s] = "idle"
  /\ cycle \notin UncertainPhases
  /\ blocked = {}
  /\ cycle' = "before-send"
  /\ Goto(s, "prepared")
  /\ UNCHANGED <<lock, blocked, recoverVars, delivery, overlapped>>

(* adapter.send: the provider has the input; nothing is persisted yet.     *)
Deliver(s) ==
  /\ pc[s] = "prepared"
  /\ delivery' = "unrecorded"
  /\ Goto(s, "delivered")
  /\ UNCHANGED <<lock, cycle, blocked, recoverVars, overlapped>>

RecordSent(s) ==
  /\ pc[s] = "delivered"
  /\ cycle' = "sent"
  /\ delivery' = "recorded"
  /\ Goto(s, "running")
  /\ UNCHANGED <<lock, blocked, recoverVars, overlapped>>

AdvancePhase(s) ==
  /\ pc[s] = "running"
  /\ cycle \in DOMAIN NextPhase
  /\ cycle' = NextPhase[cycle]
  /\ UNCHANGED <<lock, blocked, pc, recoverVars, delivery, overlapped>>

(* clear_cycle after the handoff holds the outcome of the attempt.         *)
FinishCycle(s) ==
  /\ pc[s] = "running"
  /\ cycle' = None
  /\ delivery' = "none"
  /\ Goto(s, "idle")
  /\ UNCHANGED <<lock, blocked, recoverVars, overlapped>>

(* _cancel_uncertain: stop, keep the phase record for recovery.            *)
CancelUncertain(s) ==
  /\ pc[s] = "running"
  /\ cycle \in {"captured", "completing"}
  /\ Goto(s, "idle")
  /\ UNCHANGED <<lock, cycle, blocked, recoverVars, delivery, overlapped>>

-----------------------------------------------------------------------------
(* recover_project, one step per file operation.                           *)

(* No lock owner and no phase record: nothing to do.  A live owner:        *)
(* refused.  Otherwise the recoverer goes on with what it read.            *)
RecoverReadLock(r) ==
  /\ rpc[r] \in Resting
  /\ \/ ReadLock = None /\ cycle # None
     \/ ReadLock # None /\ ~Alive(ReadLock)
  /\ rowner' = [rowner EXCEPT ![r] = ReadLock]
  /\ RGoto(r, "validated")
  /\ NotesOverlap(\E s \in Schedulers : Started(s))
  /\ UNCHANGED <<lock, cycle, blocked, pc, rphase, delivery>>

RecoverReadCycle(r) ==
  /\ rpc[r] = "validated"
  /\ rphase' = [rphase EXCEPT ![r] = cycle]
  /\ RGoto(r, IF cycle \in UncertainPhases THEN "reconcile" ELSE "clear")
  /\ UNCHANGED <<lock, cycle, blocked, pc, rowner, delivery, overlapped>>

(* The handoff or the config cannot be read: report and stop.              *)
RecoverHandoffFails(r) ==
  /\ rpc[r] = "reconcile"
  /\ RGoto(r, "failed")
  /\ UNCHANGED <<lock, cycle, blocked, pc, rowner, rphase, delivery, overlapped>>

(* The item is added once: an equal BLOCKED description is reused.         *)
RecoverRecordBlocker(r) ==
  /\ rpc[r] = "reconcile"
  /\ blocked' = blocked \cup {rphase[r]}
  /\ delivery' = IF delivery = "recorded" THEN "none" ELSE delivery
  /\ RGoto(r, "clear")
  /\ UNCHANGED <<lock, cycle, pc, rowner, rphase, overlapped>>

RecoverClearCycle_KeepsLock(r) ==
  /\ rpc[r] = "clear"
  /\ cycle' = None
  /\ RGoto(r, "recovered")
  /\ UNCHANGED <<lock, blocked, pc, rowner, rphase, delivery, overlapped>>

RecoverClearCycle(r) ==
  /\ rpc[r] = "clear"
  /\ cycle' = None
  /\ RGoto(r, IF rowner[r] = None THEN "recovered" ELSE "unlink")
  /\ UNCHANGED <<lock, blocked, pc, rowner, rphase, delivery, overlapped>>

RecoverUnlink(r) ==
  /\ rpc[r] = "unlink"
  /\ lock' = None
  /\ RGoto(r, "recovered")
  /\ UNCHANGED <<cycle, blocked, pc, rowner, rphase, delivery, overlapped>>

(* The operator resolves the BLOCKED items, allowing a retry.              *)
ResolveBlockers ==
  /\ blocked # {}
  /\ blocked' = {}
  /\ NotesOverlap(RecoveryRunning)
  /\ UNCHANGED <<lock, cycle, pc, recoverVars, delivery>>

-----------------------------------------------------------------------------
SchedulerStep(s) ==
  \/ AcquireCreate(s) \/ AcquireRefused(s) \/ AcquireWrite(s) \/ AcquireWriteFails(s)
  \/ HeartbeatRead(s) \/ HeartbeatWrite(s)
  \/ ReleaseRead(s) \/ ReleaseUnlink(s) \/ Crash(s)
  \/ BeginCycle(s) \/ Deliver(s) \/ RecordSent(s)
  \/ AdvancePhase(s) \/ FinishCycle(s) \/ CancelUncertain(s)

RecoverStep(r) ==
  \/ RecoverReadLock(r) \/ RecoverReadCycle(r) \/ RecoverHandoffFails(r)
  \/ RecoverRecordBlocker(r) \/ RecoverClearCycle(r) \/ RecoverUnlink(r)

Next ==
  \/ \E s \in Schedulers : SchedulerStep(s)
  \/ \E r \in Recoverers : RecoverStep(r)
  \/ ResolveBlockers

Spec == Init /\ [][Next]_vars

(* A recovery that was started runs to its end: a sequential call.         *)
GoesOn(r) ==
  \/ RecoverReadCycle(r) \/ RecoverRecordBlocker(r) \/ RecoverHandoffFails(r)
  \/ RecoverClearCycle(r) \/ RecoverUnlink(r)

FairSpec == Spec /\ \A r \in Recoverers : WF_vars(GoesOn(r))

-----------------------------------------------------------------------------
(* Every variable has the values the code writes.                          *)
TypeOK ==
  /\ lock \in {None} \cup LockFiles
  /\ cycle \in {None} \cup Phases
  /\ blocked \subseteq UncertainPhases
  /\ pc \in [Schedulers -> {"new", "opened", "idle", "beat", "drop"} \cup Working \cup Dead]
  /\ rpc \in [Recoverers -> Resting \cup {"validated", "reconcile", "clear", "unlink"}]
  /\ rowner \in [Recoverers -> Schedulers \cup {None}]
  /\ rphase \in [Recoverers -> Phases \cup {None}]
  /\ delivery \in {"none", "unrecorded", "recorded"}
  /\ overlapped \in BOOLEAN

(* A scheduler that believes it owns the project is the one the lock file  *)
(* names: acquire(), heartbeat() and release() of others, and a recovery   *)
(* between their steps, never take the file from under it.                 *)
OwnerIsRecorded == \A s \in Schedulers : HoldsLease(s) => ReadLock = s

(* While a process is between creating its lock file and filling it, the   *)
(* path still names that file: the write of acquire() is never lost.       *)
OpenedFileIsLinked == \A s \in Schedulers : pc[s] = "opened" => lock = LockFile(s, None)

(* The unlink of release() always removes the releasing process' own file. *)
ReleaseOwnsFile == \A s \in Schedulers : pc[s] = "drop" => ReadLock = s

(* What a recoverer validated as stale stays stale, and stays in place,    *)
(* until the recoverer unlinks it: the check at the start of               *)
(* recover_project still holds at its last line.                           *)
ValidatedOwnerStaysStale ==
  \A r \in Recoverers :
    (Running(r) /\ rowner[r] # None) => ReadLock = rowner[r] /\ ~Alive(rowner[r])

(* One scheduler owns a project at a time (concurrency.py, first line).    *)
OneOwner == \A s, t \in Schedulers : HoldsLease(s) /\ HoldsLease(t) => s = t

(* What the exclusion of schedulers rests on: no two recoveries overlap.   *)
AtMostOneRecovery == \A q, r \in Recoverers : Running(q) /\ Running(r) => q = r

(* The inductive invariant behind OneOwner.                                *)
LeaseInv ==
  /\ TypeOK
  /\ AtMostOneRecovery
  /\ OwnerIsRecorded
  /\ OpenedFileIsLinked
  /\ ReleaseOwnsFile
  /\ ValidatedOwnerStaysStale
  /\ \A r \in Recoverers :
       /\ rpc[r] = "unlink" => rowner[r] # None
       /\ rpc[r] = "reconcile" => rphase[r] \in UncertainPhases

(* The lock file of a live process changes only by that process: release() *)
(* never deletes others', and recovery never deletes a live owner's.       *)
LiveLockChangesByOwner ==
  [][(ReadLock # None /\ Alive(ReadLock) /\ lock' # lock)
        => pc[ReadLock] \in {"beat", "drop"}]_vars

(* After a delivery was recorded and the attempt has no outcome, provider  *)
(* input is sent again only once a BLOCKED item took note of it: no crash, *)
(* SIGTERM, cancellation or recovery leads to a blind second delivery.     *)
(* An operator who recovers and starts at the same time is not protected:  *)
(* the recovery of an orphaned phase holds no lock, and clear_cycle        *)
(* (concurrency.py:569) then removes the phase record of the scheduler     *)
(* that acquired meanwhile.                                                *)
NoBlindResend ==
  [][(\E s \in Schedulers : pc[s] = "prepared" /\ pc'[s] = "delivered")
        => delivery # "recorded" \/ overlapped]_vars

(* A recorded delivery without outcome keeps its uncertain phase record    *)
(* until recovery has written the BLOCKED item; a recovery that is past    *)
(* its decision, and an owner about to send, have no unsettled delivery    *)
(* behind them.                                                            *)
UncertaintyIsKept ==
  /\ delivery = "recorded" => cycle \in UncertainPhases
  /\ \A r \in Recoverers : Running(r) => \A s \in Schedulers : ~Started(s)
  /\ \A r \in Recoverers : rpc[r] \in {"clear", "unlink"} => delivery # "recorded"
  /\ \A s \in Schedulers : pc[s] = "prepared" => delivery # "recorded"

(* The inductive invariant behind NoBlindResend.                           *)
DeliveryInv == LeaseInv /\ (~overlapped => UncertaintyIsKept)

(* A recovery that validated a stale owner ends with that owner's lock     *)
(* gone, so that a new scheduler can acquire, unless it could not read the *)
(* handoff or the config.                                                  *)
RecoveryFreesStaleLease ==
  \A r \in Recoverers, s \in Schedulers :
    (rpc[r] = "validated" /\ rowner[r] = s)
      ~> (rpc[r] = "failed" \/ (rpc[r] = "recovered" /\ ReadLock # s))

(* What the module promises its callers: an exclusive lease.               *)
Exclusive == INSTANCE ExclusiveLease WITH holders <- {s \in Schedulers : HoldsLease(s)}
ImplementsExclusiveLease == Exclusive!Spec

-----------------------------------------------------------------------------
(* A claim of the source's text that its code does not keep.               *)

(* concurrency.py:420, "Refuses to touch a live owner's lock": at the      *)
(* unlink of recover_project the lock file is not a live owner's.          *)
RecoveryRefusesLiveOwner ==
  [][\A r \in Recoverers :
        (rpc[r] = "unlink" /\ rpc'[r] = "recovered" /\ ReadLock # None) => ~Alive(ReadLock)]_vars
=============================================================================
