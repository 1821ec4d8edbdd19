--------------------------- MODULE IdempotencyLock ---------------------------
(***************************************************************************)
(* The per-(scope, key) advisory lock of runtime_core.py: how contenders   *)
(* that may all find the lock file missing agree on ONE inode to flock.    *)
(* A caller opens the stable name; if it is absent it creates a temp file  *)
(* of its own, links it to the stable name unless somebody else did, drops *)
(* the temp name and opens the stable name again.  Only then does it       *)
(* flock.  The model has one stable name: distinct (scope, key) pairs have *)
(* distinct names and share no state.                                      *)
(***************************************************************************)
CONSTANTS Callers, NoCaller,
          Inodes,     \* inodes of the lock directory's file system
          NoInode

ASSUME LockAssumption == NoCaller \notin Callers /\ NoInode \notin Inodes

VARIABLES pc,      \* where each caller is
          fd,      \* the inode its lock descriptor is open on
          temp,    \* the inode of its own temp file
          stable,  \* the inode the stable lock name refers to
          holder,  \* who holds the exclusive flock of an inode
          litter   \* inodes whose temp name nobody will remove any more

vars == <<pc, fd, temp, stable, holder, litter>>

Init == /\ pc = [p \in Callers |-> "idle"]
        /\ fd = [p \in Callers |-> NoInode]
        /\ temp = [p \in Callers |-> NoInode]
        /\ stable = NoInode
        /\ holder = [i \in Inodes |-> NoCaller]
        /\ litter = {}

Goto(p, l) == pc' = [pc EXCEPT ![p] = l]

\* An inode with neither a name nor an open descriptor may be allocated again.
Free(i) == /\ i # stable
           /\ i \notin litter
           /\ \A p \in Callers : fd[p] # i /\ temp[p] # i

-----------------------------------------------------------------------------
(* Seeded faults: wrong versions of the actions below, none of them part of *)
(* the specification, that show each property can fail.                     *)

\* os.replace instead of os.link: the last contender's inode wins.
LinkStableReplacing(p) ==
  /\ pc[p] = "link"
  /\ stable' = temp[p]
  /\ Goto(p, "unlink")
  /\ UNCHANGED <<fd, temp, holder, litter>>

\* The lock file is tidied away on release.
ReleaseRemoving(p) ==
  /\ pc[p] = "critical"
  /\ holder' = [holder EXCEPT ![fd[p]] = NoCaller]
  /\ stable' = NoInode
  /\ fd' = [fd EXCEPT ![p] = NoInode]
  /\ Goto(p, "idle")
  /\ UNCHANGED <<temp, litter>>

\* The descriptor is dropped but neither unlocked nor closed.
ReleaseLeaking(p) ==
  /\ pc[p] = "critical"
  /\ fd' = [fd EXCEPT ![p] = NoInode]
  /\ Goto(p, "idle")
  /\ UNCHANGED <<temp, stable, holder, litter>>

-----------------------------------------------------------------------------
Call(p) == /\ pc[p] = "idle"
           /\ Goto(p, "open")
           /\ UNCHANGED <<fd, temp, stable, holder, litter>>

\* os.open(lock_path.name, O_RDWR): the name exists, or ENOENT.
OpenStable(p) ==
  /\ pc[p] = "open"
  /\ fd' = [fd EXCEPT ![p] = stable]
  /\ Goto(p, IF stable = NoInode THEN "create" ELSE "flock")
  /\ UNCHANGED <<temp, stable, holder, litter>>

\* O_CREAT | O_EXCL on a name no other caller uses.
CreateTemp(p) ==
  /\ pc[p] = "create"
  /\ \E i \in Inodes : Free(i) /\ temp' = [temp EXCEPT ![p] = i]
  /\ Goto(p, "link")
  /\ UNCHANGED <<fd, stable, holder, litter>>

\* os.link fails with FileExistsError when the stable name is there: ignored.
LinkStable(p) ==
  /\ pc[p] = "link"
  /\ stable' = IF stable = NoInode THEN temp[p] ELSE stable
  /\ Goto(p, "unlink")
  /\ UNCHANGED <<fd, temp, holder, litter>>

\* The temp name is removed; a failing unlink is ignored and leaves it behind.
UnlinkTemp(p) ==
  /\ pc[p] = "unlink"
  /\ temp' = [temp EXCEPT ![p] = NoInode]
  /\ litter' \in {litter, litter \cup {temp[p]}}
  /\ Goto(p, "reopen")
  /\ UNCHANGED <<fd, stable, holder>>

\* A missing name would be ENOENT here, an OSError that rejects the proposal.
Reopen(p) ==
  /\ pc[p] = "reopen"
  /\ fd' = [fd EXCEPT ![p] = stable]
  /\ Goto(p, IF stable = NoInode THEN "enoent" ELSE "flock")
  /\ UNCHANGED <<temp, stable, holder, litter>>

Flock(p) ==
  /\ pc[p] = "flock"
  /\ holder[fd[p]] = NoCaller
  /\ holder' = [holder EXCEPT ![fd[p]] = p]
  /\ Goto(p, "critical")
  /\ UNCHANGED <<fd, temp, stable, litter>>

\* _release_idempotency_lock: LOCK_UN, then close.  The lock file stays.
Release(p) ==
  /\ pc[p] = "critical"
  /\ holder' = [holder EXCEPT ![fd[p]] = NoCaller]
  /\ fd' = [fd EXCEPT ![p] = NoInode]
  /\ Goto(p, "idle")
  /\ UNCHANGED <<temp, stable, litter>>

\* Any other OSError, with which the call is rejected, or a ValueError of the
\* private directory or of the walk to it, which escapes run_effect: either way
\* the temp file and the descriptor are dropped and the call is over.
LockError(p) ==
  /\ pc[p] \in {"open", "create", "link", "reopen", "enoent", "flock"}
  /\ temp' = [temp EXCEPT ![p] = NoInode]
  /\ fd' = [fd EXCEPT ![p] = NoInode]
  /\ litter' \in {litter, litter \cup ({temp[p]} \ {NoInode})}
  /\ Goto(p, "idle")
  /\ UNCHANGED <<stable, holder>>

\* The process dies: the kernel closes its descriptors and drops its flock,
\* nobody removes its temp name.
Crash(p) ==
  /\ pc[p] # "idle"
  /\ holder' = [i \in Inodes |-> IF holder[i] = p THEN NoCaller ELSE holder[i]]
  /\ litter' = litter \cup ({temp[p]} \ {NoInode})
  /\ temp' = [temp EXCEPT ![p] = NoInode]
  /\ fd' = [fd EXCEPT ![p] = NoInode]
  /\ Goto(p, "idle")
  /\ UNCHANGED stable

\* The code's own progress once called, the error path of a full disk included.
Step(p) == \/ OpenStable(p) \/ CreateTemp(p) \/ LinkStable(p) \/ UnlinkTemp(p)
           \/ Reopen(p) \/ Flock(p) \/ Release(p)
           \/ pc[p] = "create" /\ ~(\E i \in Inodes : Free(i)) /\ LockError(p)

Next == \E p \in Callers : Call(p) \/ Step(p) \/ LockError(p) \/ Crash(p)

Spec == Init /\ [][Next]_vars

\* Every caller that is in the code keeps running; new calls, errors and
\* crashes are up to the environment.
FairSpec == Spec /\ \A p \in Callers : WF_vars(Step(p))

-----------------------------------------------------------------------------
\* The variables have their types, and a caller that is about to flock or that
\* holds the lock has a descriptor, one with a temp file outstanding an inode.
TypeOK ==
  /\ pc \in [Callers -> {"idle", "open", "create", "link", "unlink", "reopen",
                         "enoent", "flock", "critical"}]
  /\ fd \in [Callers -> Inodes \cup {NoInode}]
  /\ temp \in [Callers -> Inodes \cup {NoInode}]
  /\ stable \in Inodes \cup {NoInode}
  /\ holder \in [Inodes -> Callers \cup {NoCaller}]
  /\ litter \subseteq Inodes
  /\ \A p \in Callers : pc[p] \in {"flock", "critical"} => fd[p] # NoInode
  /\ \A p \in Callers : pc[p] \in {"link", "unlink"} <=> temp[p] # NoInode

\* At most one caller is between acquire and release of one (scope, key) lock,
\* whatever the order in which several of them found the lock file missing.
MutualExclusion ==
  \A p, q \in Callers : pc[p] = "critical" /\ pc[q] = "critical" => p = q

\* All contenders flock the inode of the stable name, never a temp inode or
\* one the name has moved away from, so their locks really exclude each other.
OneLockInode ==
  \A p \in Callers : pc[p] \in {"flock", "critical"} => fd[p] = stable

\* The second open of the stable name never meets ENOENT: once some contender
\* has linked the name, it stays.
NameStays == \A p \in Callers : pc[p] # "enoent"

\* A lock is held on an inode only by the caller that is in the section: no
\* return path, error or crash leaves it locked with nobody to release it.
NoOrphanLock ==
  \A i \in Inodes, p \in Callers :
     holder[i] = p => pc[p] = "critical" /\ fd[p] = i

\* A caller that waits in flock either leaves with an error or sees somebody
\* enter the section: a crashed or rejected holder never blocks the others.
SomeoneProceeds ==
  \A p \in Callers :
    pc[p] = "flock" ~> (pc[p] # "flock" \/ \E q \in Callers : pc[q] = "critical")

-----------------------------------------------------------------------------
owner == IF \E p \in Callers : pc[p] = "critical"
         THEN CHOOSE p \in Callers : pc[p] = "critical"
         ELSE NoCaller

Mutex == INSTANCE KeyMutex WITH owner <- owner

\* The file protocol implements the abstract mutex, crashes included.
ImplementsMutex == Mutex!Spec
=============================================================================
