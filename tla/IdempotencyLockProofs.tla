------------------------ MODULE IdempotencyLockProofs ------------------------
(***************************************************************************)
(* The lock-file protocol is a mutex, for any number of callers and inodes *)
(* and whatever crashes and errors happen.                                 *)
(***************************************************************************)
EXTENDS IdempotencyLock, TLAPS

\* Past the link the stable name exists, and the holder of the section is the
\* holder of the flock on the inode its descriptor is open on.
NamedOnceLinked ==
  \A p \in Callers : pc[p] \in {"unlink", "reopen", "flock", "critical"}
                       => stable # NoInode

CriticalHolds == \A p \in Callers : pc[p] = "critical" => holder[fd[p]] = p

\* MutualExclusion is not inductive by itself: it needs that all contenders
\* flock one inode and that flock's owner is the one in the section.
LockInvariant == /\ TypeOK
                 /\ OneLockInode
                 /\ NameStays
                 /\ NamedOnceLinked
                 /\ CriticalHolds
                 /\ NoOrphanLock

LEMMA LockInit == Init => LockInvariant
  BY LockAssumption DEF Init, LockInvariant, TypeOK, OneLockInode, NameStays,
     NamedOnceLinked, CriticalHolds, NoOrphanLock

\* Every step of the protocol preserves the invariant.
LEMMA LockStep == LockInvariant /\ [Next]_vars => LockInvariant'
<1> SUFFICES ASSUME LockInvariant, [Next]_vars PROVE LockInvariant'
  OBVIOUS
<1> USE LockAssumption DEF LockInvariant, TypeOK, OneLockInode, NameStays,
        NamedOnceLinked, CriticalHolds, NoOrphanLock, Goto
<1>1. ASSUME NEW p \in Callers, Call(p) PROVE LockInvariant'
  BY <1>1 DEF Call
<1>2. ASSUME NEW p \in Callers, OpenStable(p) PROVE LockInvariant'
  BY <1>2 DEF OpenStable
<1>3. ASSUME NEW p \in Callers, CreateTemp(p) PROVE LockInvariant'
  BY <1>3 DEF CreateTemp
<1>4. ASSUME NEW p \in Callers, LinkStable(p) PROVE LockInvariant'
  BY <1>4 DEF LinkStable
<1>5. ASSUME NEW p \in Callers, UnlinkTemp(p) PROVE LockInvariant'
  BY <1>5 DEF UnlinkTemp
<1>6. ASSUME NEW p \in Callers, Reopen(p) PROVE LockInvariant'
  BY <1>6 DEF Reopen
<1>7. ASSUME NEW p \in Callers, Flock(p) PROVE LockInvariant'
  BY <1>7 DEF Flock
<1>8. ASSUME NEW p \in Callers, Release(p) PROVE LockInvariant'
  BY <1>8 DEF Release
<1>9. ASSUME NEW p \in Callers, LockError(p) PROVE LockInvariant'
  BY <1>9 DEF LockError
<1>10. ASSUME NEW p \in Callers, Crash(p) PROVE LockInvariant'
  BY <1>10 DEF Crash
<1>11. CASE UNCHANGED vars
  BY <1>11 DEF vars
<1> QED
  BY <1>1, <1>2, <1>3, <1>4, <1>5, <1>6, <1>7, <1>8, <1>9, <1>10, <1>11
  DEF Next, Step

\* The inductive invariant holds in every reachable state.
THEOREM LockInvariantHolds == Spec => []LockInvariant
  BY LockInit, LockStep, PTL DEF Spec

LEMMA ExclusionFromInvariant == LockInvariant => MutualExclusion
  BY DEF LockInvariant, OneLockInode, CriticalHolds, MutualExclusion

\* Descriptors, names and flocks have their types, and a caller past the open
\* has its descriptor.
THEOREM LockTypes == Spec => []TypeOK
<1>1. LockInvariant => TypeOK
  BY DEF LockInvariant
<1> QED
  BY <1>1, LockInvariantHolds, PTL

\* _acquire_idempotency_lock never lets two callers of one (scope, key) into
\* the critical section.
THEOREM LockExcludes == Spec => []MutualExclusion
  BY LockInvariantHolds, ExclusionFromInvariant, PTL

\* All contenders flock the inode of the stable name.
THEOREM LockInodeUnique == Spec => []OneLockInode
<1>1. LockInvariant => OneLockInode
  BY DEF LockInvariant
<1> QED
  BY <1>1, LockInvariantHolds, PTL

\* The second open of the stable name never fails with ENOENT.
THEOREM LockNameStays == Spec => []NameStays
<1>1. LockInvariant => NameStays
  BY DEF LockInvariant
<1> QED
  BY <1>1, LockInvariantHolds, PTL

\* No flock outlives the call that took it.
THEOREM LockNeverOrphaned == Spec => []NoOrphanLock
<1>1. LockInvariant => NoOrphanLock
  BY DEF LockInvariant
<1> QED
  BY <1>1, LockInvariantHolds, PTL

-----------------------------------------------------------------------------
LEMMA OwnerOfSection ==
  ASSUME MutualExclusion, NEW p \in Callers, pc[p] = "critical"
  PROVE  owner = p
  BY DEF owner, MutualExclusion

LEMMA OwnerOfSectionNext ==
  ASSUME MutualExclusion', NEW p \in Callers, pc'[p] = "critical"
  PROVE  owner' = p
  BY DEF owner, MutualExclusion

LEMMA SameSectionSameOwner ==
  ASSUME \A p \in Callers : (pc[p] = "critical") <=> (pc'[p] = "critical"),
         MutualExclusion, MutualExclusion'
  PROVE  owner' = owner
<1>1. CASE \E p \in Callers : pc[p] = "critical"
  BY <1>1, OwnerOfSection, OwnerOfSectionNext
<1>2. CASE ~(\E p \in Callers : pc[p] = "critical")
  BY <1>2 DEF owner
<1> QED
  BY <1>1, <1>2

LEMMA MutexStep ==
  ASSUME LockInvariant, LockInvariant', [Next]_vars
  PROVE  [Mutex!Next]_owner
<1>1. MutualExclusion /\ MutualExclusion'
  <2>1. MutualExclusion
    BY ExclusionFromInvariant
  <2>2. MutualExclusion'
    BY DEF LockInvariant, OneLockInode, CriticalHolds, MutualExclusion
  <2> QED
    BY <2>1, <2>2
<1> USE DEF Goto, LockInvariant, TypeOK
<1>2. ASSUME NEW p \in Callers, Flock(p) PROVE Mutex!Acquire(p)
  <2>1. \A q \in Callers : pc[q] # "critical"
    BY <1>2 DEF Flock, OneLockInode, CriticalHolds, LockAssumption
  <2>2. owner = NoCaller
    BY <2>1 DEF owner
  <2>3. pc'[p] = "critical"
    BY <1>2 DEF Flock
  <2> QED
    BY <1>1, <2>2, <2>3, OwnerOfSectionNext DEF Mutex!Acquire
<1>3. ASSUME NEW p \in Callers, pc[p] = "critical", pc'[p] = "idle",
             \A q \in Callers \ {p} : pc'[q] = pc[q]
      PROVE  Mutex!Release(p)
  <2>1. owner = p
    BY <1>1, <1>3, OwnerOfSection
  <2>2. \A q \in Callers : pc'[q] # "critical"
    BY <1>1, <1>3 DEF MutualExclusion
  <2> QED
    BY <2>1, <2>2 DEF owner, Mutex!Release
<1>4. ASSUME NEW p \in Callers, Release(p) \/ Crash(p), pc[p] = "critical"
      PROVE  Mutex!Release(p)
  <2>1. pc'[p] = "idle" /\ \A q \in Callers \ {p} : pc'[q] = pc[q]
    BY <1>4 DEF Release, Crash
  <2> QED
    BY <1>3, <1>4, <2>1
<1>5. ASSUME NEW p \in Callers,
             \/ Call(p) \/ OpenStable(p) \/ CreateTemp(p) \/ LinkStable(p)
             \/ UnlinkTemp(p) \/ Reopen(p) \/ LockError(p)
             \/ Crash(p) /\ pc[p] # "critical"
      PROVE  owner' = owner
  <2>1. \A q \in Callers : (pc[q] = "critical") <=> (pc'[q] = "critical")
    BY <1>5 DEF Call, OpenStable, CreateTemp, LinkStable, UnlinkTemp, Reopen,
       LockError, Crash
  <2> QED
    BY <1>1, <2>1, SameSectionSameOwner
<1>6. CASE UNCHANGED vars
  <2>1. \A q \in Callers : (pc[q] = "critical") <=> (pc'[q] = "critical")
    BY <1>6 DEF vars
  <2> QED
    BY <1>1, <2>1, SameSectionSameOwner
<1>7. ASSUME NEW p \in Callers, Release(p) PROVE pc[p] = "critical"
  BY <1>7 DEF Release
<1> QED
  BY <1>2, <1>4, <1>5, <1>6, <1>7 DEF Next, Step, Mutex!Next

\* The lock-file protocol implements the abstract mutex.
THEOREM LockImplementsMutex == Spec => ImplementsMutex
<1>1. Init => Mutex!Init
  BY DEF Init, Mutex!Init, owner
<1> QED
  BY <1>1, LockInvariantHolds, MutexStep, PTL DEF Spec, ImplementsMutex, Mutex!Spec
=============================================================================
