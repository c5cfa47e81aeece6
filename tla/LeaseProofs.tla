----------------------------- MODULE LeaseProofs -----------------------------
(***************************************************************************)
(* Proofs about Lease, for any number of schedulers.                       *)
(*                                                                         *)
(* The exclusion of schedulers needs one hypothesis about the operator: no *)
(* two recoveries overlap.  The retention of uncertain deliveries holds    *)
(* until a recovery overlaps a start.                                      *)
(***************************************************************************)
EXTENDS Lease, TLAPS

RecoveriesDoNotOverlap == \A q, r \in Recoverers : q = r

-----------------------------------------------------------------------------
(* A recorded phase is only ever followed by another uncertain phase.      *)
LEMMA NextPhaseIsUncertain ==
  ASSUME NEW ph \in DOMAIN NextPhase
  PROVE  NextPhase[ph] \in UncertainPhases
  BY DEF NextPhase, UncertainPhases

LEMMA InitLeaseInv == Init => LeaseInv
  BY NoneAssumption
  DEF Init, LeaseInv, TypeOK, AtMostOneRecovery, Running, OwnerIsRecorded,
      OpenedFileIsLinked, ReleaseOwnsFile, ValidatedOwnerStaysStale, HoldsLease,
      Working, Dead, Resting

(* The steps of a scheduler preserve the lease invariant: only the process *)
(* the file names writes it, and a validated owner takes no step.          *)
LEMMA SchedulerPreservesLease ==
  ASSUME LeaseInv, NEW s \in Schedulers, SchedulerStep(s)
  PROVE  LeaseInv'
<1> USE NoneAssumption
<1> USE DEF LeaseInv, TypeOK, AtMostOneRecovery, Running, OwnerIsRecorded,
            OpenedFileIsLinked, ReleaseOwnsFile, ValidatedOwnerStaysStale,
            HoldsLease, Working, Dead, Alive, ReadLock, LockFile, LockFiles,
            Goto, recoverVars, Phases, UncertainPhases, NotesOverlap, Resting
<1>1. CASE AcquireCreate(s)   BY <1>1 DEF AcquireCreate
<1>2. CASE AcquireRefused(s)  BY <1>2 DEF AcquireRefused
<1>3. CASE AcquireWrite(s) \/ AcquireWriteFails(s)
  BY <1>3 DEF AcquireWrite, AcquireWriteFails
<1>4. CASE HeartbeatRead(s)   BY <1>4 DEF HeartbeatRead
<1>5. CASE HeartbeatWrite(s)  BY <1>5 DEF HeartbeatWrite
<1>6. CASE ReleaseRead(s)     BY <1>6 DEF ReleaseRead
<1>7. CASE ReleaseUnlink(s)   BY <1>7 DEF ReleaseUnlink
<1>8. CASE Crash(s)           BY <1>8 DEF Crash
<1>9. CASE BeginCycle(s)      BY <1>9 DEF BeginCycle
<1>10. CASE Deliver(s)        BY <1>10 DEF Deliver
<1>11. CASE RecordSent(s)     BY <1>11 DEF RecordSent
<1>12. CASE AdvancePhase(s)
  <2>1. cycle' \in UncertainPhases
    BY <1>12, NextPhaseIsUncertain DEF AdvancePhase
  <2>2. QED
    BY <1>12, <2>1 DEF AdvancePhase
<1>13. CASE FinishCycle(s)    BY <1>13 DEF FinishCycle
<1>14. CASE CancelUncertain(s) BY <1>14 DEF CancelUncertain
<1>15. QED
  BY <1>1, <1>2, <1>3, <1>4, <1>5, <1>6, <1>7, <1>8, <1>9, <1>10, <1>11, <1>12,
     <1>13, <1>14
  DEF SchedulerStep

(* The steps of a recovery preserve it: the only writer of the file among  *)
(* them unlinks what was validated, and no other recovery validated it.    *)
LEMMA RecoveryPreservesLease ==
  ASSUME RecoveriesDoNotOverlap, LeaseInv, NEW r \in Recoverers, RecoverStep(r)
  PROVE  LeaseInv'
<1> USE NoneAssumption
<1> USE DEF LeaseInv, TypeOK, AtMostOneRecovery, Running, OwnerIsRecorded,
            OpenedFileIsLinked, ReleaseOwnsFile, ValidatedOwnerStaysStale,
            HoldsLease, Working, Dead, Alive, ReadLock, LockFile, LockFiles,
            RGoto, Phases, UncertainPhases, NotesOverlap, Resting
<1>1. CASE RecoverReadLock(r)
  BY <1>1 DEF RecoverReadLock, RecoveriesDoNotOverlap
<1>2. CASE RecoverReadCycle(r)     BY <1>2 DEF RecoverReadCycle
<1>3. CASE RecoverHandoffFails(r)  BY <1>3 DEF RecoverHandoffFails
<1>4. CASE RecoverRecordBlocker(r) BY <1>4 DEF RecoverRecordBlocker
<1>5. CASE RecoverClearCycle(r)    BY <1>5 DEF RecoverClearCycle
<1>6. CASE RecoverUnlink(r)        BY <1>6 DEF RecoverUnlink
<1>7. QED
  BY <1>1, <1>2, <1>3, <1>4, <1>5, <1>6 DEF RecoverStep

LEMMA NextLeaseInv ==
  ASSUME RecoveriesDoNotOverlap, LeaseInv, [Next]_vars
  PROVE  LeaseInv'
<1>1. CASE \E s \in Schedulers : SchedulerStep(s)
  BY <1>1, SchedulerPreservesLease
<1>2. CASE \E r \in Recoverers : RecoverStep(r)
  BY <1>2, RecoveryPreservesLease
<1>3. CASE ResolveBlockers \/ UNCHANGED vars
  BY <1>3
  DEF ResolveBlockers, vars, recoverVars, LeaseInv, TypeOK, AtMostOneRecovery,
      NotesOverlap, Resting, Running, OwnerIsRecorded, OpenedFileIsLinked, ReleaseOwnsFile,
      ValidatedOwnerStaysStale, HoldsLease, Alive, ReadLock
<1>4. QED
  BY <1>1, <1>2, <1>3 DEF Next

(* If recoveries do not overlap, then in every reachable state the lock    *)
(* file names the process that believes it owns the project.               *)
THEOREM LeaseInvariant ==
  ASSUME RecoveriesDoNotOverlap
  PROVE  Spec => []LeaseInv
<1>1. LeaseInv /\ [Next]_vars => LeaseInv'
  BY NextLeaseInv
<1>2. QED
  BY InitLeaseInv, <1>1, PTL DEF Spec

LEMMA LeaseInvImpliesOneOwner == LeaseInv => OneOwner
  BY DEF LeaseInv, OwnerIsRecorded, OneOwner

(* One scheduler owns the project at a time, whatever the interleaving of  *)
(* acquire, heartbeat, release, crashes and recovery.                      *)
THEOREM MutualExclusion ==
  ASSUME RecoveriesDoNotOverlap
  PROVE  Spec => []OneOwner
  BY LeaseInvariant, LeaseInvImpliesOneOwner, PTL

(* The lock file of a live process changes only by that process' own       *)
(* heartbeat or release.                                                   *)
THEOREM LiveLockIsOwners ==
  ASSUME RecoveriesDoNotOverlap
  PROVE  Spec => LiveLockChangesByOwner
<1> DEFINE OwnChange == (ReadLock # None /\ Alive(ReadLock) /\ lock' # lock)
                          => pc[ReadLock] \in {"beat", "drop"}
<1>1. LeaseInv /\ [Next]_vars => [OwnChange]_vars
  <2> SUFFICES ASSUME LeaseInv, Next, ReadLock # None, Alive(ReadLock), lock' # lock
               PROVE  pc[ReadLock] \in {"beat", "drop"}
    OBVIOUS
  <2> USE NoneAssumption DEF LeaseInv, TypeOK, ReadLock, LockFile, LockFiles, recoverVars, Goto
  <2>1. ASSUME NEW s \in Schedulers, SchedulerStep(s)
        PROVE  pc[ReadLock] \in {"beat", "drop"}
    <3>1. CASE AcquireCreate(s) BY <3>1 DEF AcquireCreate
    <3>2. CASE AcquireWrite(s) \/ AcquireWriteFails(s)
      BY <3>2 DEF AcquireWrite, AcquireWriteFails, OpenedFileIsLinked
    <3>3. CASE HeartbeatWrite(s)
      BY <3>3 DEF HeartbeatWrite, OwnerIsRecorded, HoldsLease
    <3>4. CASE ReleaseUnlink(s)
      BY <3>4 DEF ReleaseUnlink, ReleaseOwnsFile
    <3>5. CASE UNCHANGED lock BY <3>5
    <3>6. QED
      BY <2>1, <3>1, <3>2, <3>3, <3>4, <3>5
      DEF SchedulerStep, AcquireRefused, HeartbeatRead, ReleaseRead, Crash, BeginCycle,
          Deliver, RecordSent, AdvancePhase, FinishCycle, CancelUncertain
  <2>2. ASSUME NEW r \in Recoverers, RecoverStep(r)
        PROVE  pc[ReadLock] \in {"beat", "drop"}
    <3>1. CASE RecoverUnlink(r)
      BY <3>1 DEF RecoverUnlink, ValidatedOwnerStaysStale, Running
    <3>2. CASE UNCHANGED lock BY <3>2
    <3>3. QED
      BY <2>2, <3>1, <3>2
      DEF RecoverStep, RecoverReadLock, RecoverReadCycle, RecoverHandoffFails,
          RecoverRecordBlocker, RecoverClearCycle
  <2>3. QED
    BY <2>1, <2>2 DEF Next, ResolveBlockers
<1>2. QED
  BY LeaseInvariant, <1>1, PTL DEF Spec, LiveLockChangesByOwner

-----------------------------------------------------------------------------
(* Refinement: the processes that hold the lease, as a set, behave as      *)
(* ExclusiveLease says.                                                    *)
holdersBar == {s \in Schedulers : HoldsLease(s)}

(* A step of one scheduler leaves what every other scheduler holds alone.  *)
LEMMA OthersKeepTheirHold ==
  ASSUME LeaseInv, NEW s \in Schedulers, SchedulerStep(s)
  PROVE  \A t \in Schedulers \ {s} : pc'[t] = pc[t]
  BY DEF LeaseInv, TypeOK, SchedulerStep, AcquireCreate, AcquireRefused, AcquireWrite, AcquireWriteFails,
         HeartbeatRead, HeartbeatWrite, ReleaseRead, ReleaseUnlink, Crash, BeginCycle,
         Deliver, RecordSent, AdvancePhase, FinishCycle, CancelUncertain, Goto

(* When a scheduler comes to hold the lease, nobody held it before.        *)
LEMMA ClaimFromNobody ==
  ASSUME LeaseInv, NEW s \in Schedulers, SchedulerStep(s), ~HoldsLease(s), HoldsLease(s)'
  PROVE  holdersBar = {}
<1>1. AcquireWrite(s)
  BY DEF SchedulerStep, LeaseInv, TypeOK, HoldsLease, Working, AcquireCreate, AcquireRefused,
         AcquireWriteFails,
         HeartbeatRead, HeartbeatWrite, ReleaseRead, ReleaseUnlink, Crash, BeginCycle,
         Deliver, RecordSent, AdvancePhase, FinishCycle, CancelUncertain, Goto, Dead
<1>2. ReadLock = None
  BY <1>1 DEF AcquireWrite, LeaseInv, OpenedFileIsLinked, ReadLock, LockFile
<1>3. QED
  BY <1>2, NoneAssumption DEF holdersBar, LeaseInv, OwnerIsRecorded

(* A scheduler's step claims, drops or stutters.                           *)
LEMMA SchedulerStepRefines ==
  ASSUME LeaseInv, NEW s \in Schedulers, SchedulerStep(s)
  PROVE  \/ holdersBar = {} /\ holdersBar' = {s}
         \/ holdersBar = {s} /\ holdersBar' = {}
         \/ UNCHANGED holdersBar
<1>1. \A t \in Schedulers \ {s} : HoldsLease(t)' <=> HoldsLease(t)
  BY OthersKeepTheirHold DEF HoldsLease
<1>2. CASE HoldsLease(s)' <=> HoldsLease(s)
  BY <1>1, <1>2 DEF holdersBar
<1>3. CASE HoldsLease(s) /\ ~HoldsLease(s)'
  <2>1. holdersBar = {s}
    BY <1>3, LeaseInvImpliesOneOwner DEF OneOwner, holdersBar
  <2>2. holdersBar' = {}
    BY <1>1, <1>3, <2>1 DEF holdersBar
  <2>3. QED
    BY <2>1, <2>2
<1>4. CASE ~HoldsLease(s) /\ HoldsLease(s)'
  <2>1. holdersBar = {}
    BY <1>4, ClaimFromNobody
  <2>2. holdersBar' = {s}
    BY <1>1, <1>4, <2>1 DEF holdersBar
  <2>3. QED
    BY <2>1, <2>2
<1>5. QED
  BY <1>2, <1>3, <1>4

(* Lease implements ExclusiveLease.                                        *)
THEOREM LeaseRefinesExclusiveLease ==
  ASSUME RecoveriesDoNotOverlap
  PROVE  Spec => ImplementsExclusiveLease
<1>1. Init => Exclusive!Init
  BY DEF Init, Exclusive!Init, HoldsLease, Working
<1>2. LeaseInv /\ [Next]_vars => [Exclusive!Next]_holdersBar
  <2> SUFFICES ASSUME LeaseInv, [Next]_vars
               PROVE  Exclusive!Next \/ UNCHANGED holdersBar
    OBVIOUS
  <2>1. ASSUME NEW s \in Schedulers, SchedulerStep(s)
        PROVE  Exclusive!Next \/ UNCHANGED holdersBar
    BY <2>1, SchedulerStepRefines DEF Exclusive!Next, Exclusive!Claim, Exclusive!Drop, holdersBar
  <2>2. CASE UNCHANGED pc
    BY <2>2 DEF holdersBar, HoldsLease
  <2>3. QED
    BY <2>1, <2>2
    DEF Next, vars, RecoverStep, RecoverReadLock, RecoverReadCycle, RecoverHandoffFails,
        RecoverRecordBlocker, RecoverClearCycle, RecoverUnlink, ResolveBlockers
<1>3. QED
  BY LeaseInvariant, <1>1, <1>2, PTL
  DEF Spec, ImplementsExclusiveLease, Exclusive!Spec, holdersBar

-----------------------------------------------------------------------------
(* Retention of uncertain deliveries, until the operator lets a recovery   *)
(* overlap a start.                                                        *)

LEMMA InitDeliveryInv == Init => DeliveryInv
  BY InitLeaseInv
  DEF Init, DeliveryInv, UncertaintyIsKept, Running, Started, Alive

LEMMA SchedulerPreservesDelivery ==
  ASSUME RecoveriesDoNotOverlap, DeliveryInv, NEW s \in Schedulers, SchedulerStep(s)
  PROVE  DeliveryInv'
<1>1. LeaseInv'
  BY SchedulerPreservesLease DEF DeliveryInv
<1>2. \A t \in Schedulers \ {s} : pc[t] \in Working => ~HoldsLease(s)
  BY LeaseInvImpliesOneOwner DEF DeliveryInv, OneOwner, HoldsLease
<1> USE NoneAssumption, <1>1
<1> USE DEF DeliveryInv, UncertaintyIsKept, Running, Started, Alive, Dead, Working,
            HoldsLease, LeaseInv, TypeOK, Goto, recoverVars, RecoveryRunning, Phases,
            UncertainPhases, NotesOverlap, Resting
<1>3. CASE AcquireCreate(s)    BY <1>3 DEF AcquireCreate
<1>4. CASE AcquireRefused(s)   BY <1>4 DEF AcquireRefused
<1>5. CASE AcquireWrite(s) \/ AcquireWriteFails(s)
  BY <1>5 DEF AcquireWrite, AcquireWriteFails
<1>6. CASE HeartbeatRead(s)    BY <1>6 DEF HeartbeatRead
<1>7. CASE HeartbeatWrite(s)   BY <1>7 DEF HeartbeatWrite
<1>8. CASE ReleaseRead(s)      BY <1>8 DEF ReleaseRead
<1>9. CASE ReleaseUnlink(s)    BY <1>9 DEF ReleaseUnlink
<1>10. CASE Crash(s)           BY <1>10 DEF Crash
<1>11. CASE BeginCycle(s)      BY <1>11 DEF BeginCycle
<1>12. CASE Deliver(s)         BY <1>12 DEF Deliver
<1>13. CASE RecordSent(s)      BY <1>13, <1>2 DEF RecordSent
<1>14. CASE AdvancePhase(s)
  <2>1. cycle' \in UncertainPhases
    BY <1>14, NextPhaseIsUncertain DEF AdvancePhase
  <2>2. QED
    BY <1>14, <2>1 DEF AdvancePhase
<1>15. CASE FinishCycle(s)     BY <1>15 DEF FinishCycle
<1>16. CASE CancelUncertain(s) BY <1>16 DEF CancelUncertain
<1>17. QED
  BY <1>3, <1>4, <1>5, <1>6, <1>7, <1>8, <1>9, <1>10, <1>11, <1>12, <1>13, <1>14,
     <1>15, <1>16
  DEF SchedulerStep

LEMMA RecoveryPreservesDelivery ==
  ASSUME RecoveriesDoNotOverlap, DeliveryInv, NEW r \in Recoverers, RecoverStep(r)
  PROVE  DeliveryInv'
<1>1. LeaseInv'
  BY RecoveryPreservesLease DEF DeliveryInv
<1> USE NoneAssumption, <1>1
<1> USE DEF DeliveryInv, UncertaintyIsKept, Running, Started, Alive, Dead,
            LeaseInv, TypeOK, AtMostOneRecovery, RGoto, NotesOverlap, Resting
<1>2. CASE RecoverReadLock(r)
  BY <1>2 DEF RecoverReadLock
<1>3. CASE RecoverReadCycle(r)     BY <1>3 DEF RecoverReadCycle
<1>4. CASE RecoverHandoffFails(r)  BY <1>4 DEF RecoverHandoffFails
<1>5. CASE RecoverRecordBlocker(r) BY <1>5 DEF RecoverRecordBlocker
<1>6. CASE RecoverClearCycle(r)    BY <1>6 DEF RecoverClearCycle
<1>7. CASE RecoverUnlink(r)        BY <1>7 DEF RecoverUnlink
<1>8. QED
  BY <1>2, <1>3, <1>4, <1>5, <1>6, <1>7 DEF RecoverStep

LEMMA NextDeliveryInv ==
  ASSUME RecoveriesDoNotOverlap, DeliveryInv, [Next]_vars
  PROVE  DeliveryInv'
<1>1. CASE \E s \in Schedulers : SchedulerStep(s)
  BY <1>1, SchedulerPreservesDelivery
<1>2. CASE \E r \in Recoverers : RecoverStep(r)
  BY <1>2, RecoveryPreservesDelivery
<1>3. CASE ResolveBlockers \/ UNCHANGED vars
  <2>1. LeaseInv'
    BY <1>3, NextLeaseInv DEF DeliveryInv, Next
  <2>2. QED
    BY <1>3, <2>1
    DEF ResolveBlockers, vars, recoverVars, DeliveryInv, UncertaintyIsKept, Running,
        Started, Alive, NotesOverlap
<1>4. QED
  BY <1>1, <1>2, <1>3 DEF Next

(* Until a recovery overlaps a start, a recorded delivery without outcome  *)
(* keeps its phase record until the BLOCKED item is written.               *)
THEOREM DeliveryInvariant ==
  ASSUME RecoveriesDoNotOverlap
  PROVE  Spec => []DeliveryInv
<1>1. DeliveryInv /\ [Next]_vars => DeliveryInv'
  BY NextDeliveryInv
<1>2. QED
  BY InitDeliveryInv, <1>1, PTL DEF Spec

(* No crash, signal, cancellation or recovery leads to a second provider   *)
(* input over a recorded delivery nobody was told about.                   *)
THEOREM NoBlindResendHolds ==
  ASSUME RecoveriesDoNotOverlap
  PROVE  Spec => NoBlindResend
<1> DEFINE Safe == (\E s \in Schedulers : pc[s] = "prepared" /\ pc'[s] = "delivered")
                     => delivery # "recorded" \/ overlapped
<1>1. DeliveryInv => Safe
  BY DEF DeliveryInv, UncertaintyIsKept
<1>2. DeliveryInv /\ [Next]_vars => [Safe]_vars
  BY <1>1
<1>3. QED
  BY DeliveryInvariant, <1>2, PTL DEF Spec, NoBlindResend
=============================================================================
