----------------------------- MODULE FileAdapter -----------------------------
(***************************************************************************)
(* How content gets into a sandbox: FileWriteAdapter.commit of file.write  *)
(* and anchored_atomic_write, which memory.write, network.fetch and the    *)
(* rate ledger use.  Writers name one file in one directory below the      *)
(* sandbox root; people and programs outside the runtime change that file  *)
(* and the directory's name at any time.  A writer walks to the directory  *)
(* without following links, fills a temp file of its own there, reads it   *)
(* back, and gives it the target's name: by rename, or by link when it     *)
(* must not overwrite.  file.write then reads the target back.             *)
(***************************************************************************)
EXTENDS Naturals

CONSTANTS Writers,
          Contents,     \* what calls write
          MaxCalls,     \* bound on calls made
          MaxOutside,   \* bound on what others do to the directory
          MaxFaults     \* bound on deaths and failing system calls

\* What the target's name may stand for besides a file with one of Contents:
\* "foreign" is a file with other bytes, "partial" one not wholly written.
Others == {"absent", "directory", "symlink", "foreign", "partial"}

ASSUME FileAssumption ==
  /\ Contents \cap (Others \cup {"none"}) = {}
  /\ MaxCalls \in Nat /\ MaxOutside \in Nat /\ MaxFaults \in Nat

VARIABLES pc,
          call,     \* the number of the call a writer is in
          mode,     \* "create", "overwrite" (file.write) or "anchored"
          content,  \* what it writes
          fd,       \* parent_fd: the directory it has open
          temp,     \* its temp file in that directory
          reason,   \* why it is cleaning up
          parent,   \* what the directory's name stands for
          target,   \* the entry under the target's name, in the sandbox's
                    \* directory and where a symlink in its place leads
          placed,   \* the calls that gave their temp file the target's name
          told,     \* what callers were told
          litter,   \* the calls whose temp file nobody will remove
          excused,  \* those of them that died or failed to remove it: history only
          calls, outside, faults

mine == <<pc, call, mode, content, fd, temp, reason>>
vars == <<mine, parent, target, placed, told, litter, excused, calls, outside, faults>>

\* file.write refuses in terms of the target; anchored_atomic_write's callers
\* map all it raises to one reason.
TargetReasons == {"target_is_symlink", "target_is_directory",
                  "target_exists_no_overwrite", "path_component_is_symlink"}
Outcomes == TargetReasons \cup
  {"committed", "adapter_commit_failed", "verification_read_failed",
   "verification_failed_post_commit"}

Init == /\ pc = [w \in Writers |-> "idle"]
        /\ call = [w \in Writers |-> 0]
        /\ mode = [w \in Writers |-> "none"]
        /\ content = [w \in Writers |-> "none"]
        /\ fd = [w \in Writers |-> "none"]
        /\ temp = [w \in Writers |-> "none"]
        /\ reason = [w \in Writers |-> "none"]
        /\ parent \in {"absent", "directory"}
        /\ target = [d \in {"in", "out"} |-> "absent"]
        /\ placed = {} /\ told = {} /\ litter = {} /\ excused = {}
        /\ calls = 0 /\ outside = 0 /\ faults = 0

-----------------------------------------------------------------------------
Goto(w, l) == pc' = [pc EXCEPT ![w] = l]

Fault == faults < MaxFaults /\ faults' = faults + 1

\* Seeded fault, not used: what the call knew of its temp file outlives it.
GoneKeepingTemp(w) ==
  /\ Goto(w, "idle")
  /\ call' = [call EXCEPT ![w] = 0]
  /\ mode' = [mode EXCEPT ![w] = "none"]
  /\ content' = [content EXCEPT ![w] = "none"]
  /\ fd' = [fd EXCEPT ![w] = "none"]
  /\ reason' = [reason EXCEPT ![w] = "none"]
  /\ UNCHANGED <<temp, litter>>

\* The call is over; a temp file still there stays there.
Gone(w) ==
  /\ Goto(w, "idle")
  /\ call' = [call EXCEPT ![w] = 0]
  /\ mode' = [mode EXCEPT ![w] = "none"]
  /\ content' = [content EXCEPT ![w] = "none"]
  /\ fd' = [fd EXCEPT ![w] = "none"]
  /\ temp' = [temp EXCEPT ![w] = "none"]
  /\ reason' = [reason EXCEPT ![w] = "none"]
  /\ litter' = IF temp[w] = "none" THEN litter ELSE litter \cup {call[w]}

Tell(w, outcome) ==
  /\ told' = told \cup {[call |-> call[w], outcome |-> outcome]}
  /\ Gone(w)

\* The call is not to blame for the temp file it leaves, if it has one.
Excuse(w) ==
  excused' = IF temp[w] = "none" THEN excused ELSE excused \cup {call[w]}

Reason(w, why) == IF mode[w] = "anchored" THEN "adapter_commit_failed" ELSE why

\* The except (or finally) clause of commit, with what it will report.
Abandon(w, why) ==
  /\ Goto(w, "cleanup")
  /\ reason' = [reason EXCEPT ![w] = Reason(w, why)]
  /\ UNCHANGED <<call, mode, content, fd, temp>>

\* target_rejection_for_existing_path.
TargetRejection(entry, overwrite) ==
  IF entry = "absent" THEN "none"
  ELSE IF entry = "symlink" THEN "target_is_symlink"
  ELSE IF entry = "directory" THEN "target_is_directory"
  ELSE IF ~overwrite THEN "target_exists_no_overwrite"
  ELSE "none"

Placement(w) == [call |-> call[w], mode |-> mode[w]]

Shared == <<parent, target, placed, told, litter, excused, calls, outside, faults>>

-----------------------------------------------------------------------------
(* Seeded faults: wrong versions of the actions below, not used.            *)

\* The directory is opened without O_NOFOLLOW.
OpenParentFollowing(w) ==
  /\ pc[w] = "open"
  /\ fd' = [fd EXCEPT ![w] = IF parent = "symlink" THEN "out" ELSE "in"]
  /\ Goto(w, "check")
  /\ UNCHANGED <<call, mode, content, temp, reason>>
  /\ UNCHANGED Shared

\* The temp file is not read back.
FillTempUnread(w) ==
  /\ pc[w] = "fill"
  /\ \/ temp' = [temp EXCEPT ![w] = content[w]] /\ UNCHANGED faults
     \/ Fault /\ UNCHANGED temp
  /\ Goto(w, "publish")
  /\ UNCHANGED <<call, mode, content, fd, reason>>
  /\ UNCHANGED <<parent, target, placed, told, litter, excused, calls, outside>>

\* A new file is renamed into place like any other.
LinkReplacing(w) ==
  /\ pc[w] = "publish"
  /\ mode[w] = "create"
  /\ target' = [target EXCEPT ![fd[w]] = temp[w]]
  /\ placed' = placed \cup {Placement(w)}
  /\ Goto(w, "unlink")
  /\ UNCHANGED <<call, mode, content, fd, temp, reason>>
  /\ UNCHANGED <<parent, told, litter, excused, calls, outside, faults>>

\* A target that is there already is left to the read-back to judge.
LinkAcceptingTaken(w) ==
  /\ pc[w] = "publish"
  /\ mode[w] = "create"
  /\ IF target[fd[w]] = "absent"
     THEN /\ target' = [target EXCEPT ![fd[w]] = temp[w]]
          /\ placed' = placed \cup {Placement(w)}
     ELSE UNCHANGED <<target, placed>>
  /\ Goto(w, "unlink")
  /\ UNCHANGED <<call, mode, content, fd, temp, reason>>
  /\ UNCHANGED <<parent, told, litter, excused, calls, outside, faults>>

\* The late rejection is returned like the early one, past the except clause.
ExplainTakenReturning(w) ==
  /\ pc[w] = "taken"
  /\ LET why == TargetRejection(target[fd[w]], FALSE)
     IN  Tell(w, IF why = "none" THEN "adapter_commit_failed" ELSE why)
  /\ UNCHANGED <<parent, target, placed, excused, calls, outside, faults>>

\* The read-back explains what it finds in terms of the target.
ReadBackExplaining(w) ==
  /\ pc[w] = "readback"
  /\ LET found == target[fd[w]]
     IN  Tell(w, IF found = content[w] THEN "committed"
                 ELSE IF TargetRejection(found, FALSE) # "none"
                 THEN TargetRejection(found, FALSE)
                 ELSE "verification_read_failed")
  /\ UNCHANGED <<parent, target, placed, excused, calls, outside, faults>>

\* The read-back opens the target but compares nothing.
ReadBackUncompared(w) ==
  /\ pc[w] = "readback"
  /\ Tell(w, IF target[fd[w]] \in {"absent", "symlink", "directory"}
             THEN "verification_read_failed" ELSE "committed")
  /\ UNCHANGED <<parent, target, placed, excused, calls, outside, faults>>

-----------------------------------------------------------------------------
\* A call is made.  file.write's prepare refuses what it sees at the target.
Prepare(w) ==
  /\ pc[w] = "idle"
  /\ calls < MaxCalls
  /\ calls' = calls + 1
  /\ \E m \in {"create", "overwrite", "anchored"}, c \in Contents :
       /\ \/ m = "anchored"
          \/ parent = "absent"
          \/ parent = "directory" /\ TargetRejection(target["in"], m = "overwrite") = "none"
       /\ mode' = [mode EXCEPT ![w] = m]
       /\ content' = [content EXCEPT ![w] = c]
  /\ call' = [call EXCEPT ![w] = calls + 1]
  /\ Goto(w, "stat")
  /\ UNCHANGED <<fd, temp, reason>>
  /\ UNCHANGED <<parent, target, placed, told, litter, excused, outside, faults>>

\* open_file_parent_fd, one component: stat it, and make it if it is missing;
\* another writer may have made it meanwhile.
StatParent(w) ==
  /\ pc[w] = "stat"
  /\ CASE parent = "absent"    -> parent' = "directory" /\ UNCHANGED mine
       [] parent = "symlink"   -> Abandon(w, "path_component_is_symlink") /\ UNCHANGED parent
       [] parent = "directory" -> /\ Goto(w, "open")
                                  /\ UNCHANGED <<call, mode, content, fd, temp, reason, parent>>
  /\ UNCHANGED <<target, placed, told, litter, excused, calls, outside, faults>>

\* ... then open it, O_DIRECTORY and O_NOFOLLOW: a link put there since fails.
OpenParent(w) ==
  /\ pc[w] = "open"
  /\ IF parent = "symlink"
     THEN Abandon(w, "adapter_commit_failed")
     ELSE /\ fd' = [fd EXCEPT ![w] = "in"]
          /\ Goto(w, "check")
          /\ UNCHANGED <<call, mode, content, temp, reason>>
  /\ UNCHANGED Shared

\* commit looks at the target again before it makes a temp file;
\* anchored_atomic_write does not.
CreateTemp(w) ==
  /\ pc[w] = "check"
  /\ LET why == IF mode[w] = "anchored" THEN "none"
                ELSE TargetRejection(target[fd[w]], mode[w] = "overwrite")
     IN  IF why # "none"
         THEN Abandon(w, why)
         ELSE /\ temp' = [temp EXCEPT ![w] = "partial"]
              /\ Goto(w, "fill")
              /\ UNCHANGED <<call, mode, content, fd, reason>>
  /\ UNCHANGED Shared

\* Write, flush, fsync, and read back: what is not all there goes no further.
FillTemp(w) ==
  /\ pc[w] = "fill"
  /\ \/ /\ temp' = [temp EXCEPT ![w] = content[w]]
        /\ Goto(w, "publish")
        /\ UNCHANGED <<call, mode, content, fd, reason, faults>>
     \/ Fault /\ Abandon(w, "adapter_commit_failed")
  /\ UNCHANGED <<parent, target, placed, told, litter, excused, calls, outside>>

\* os.rename or os.replace: takes the place of a file or a link, not of a
\* directory.
Rename(w) ==
  /\ pc[w] = "publish"
  /\ mode[w] # "create"
  /\ IF target[fd[w]] = "directory"
     THEN Abandon(w, "adapter_commit_failed") /\ UNCHANGED <<target, placed>>
     ELSE /\ target' = [target EXCEPT ![fd[w]] = temp[w]]
          /\ placed' = placed \cup {Placement(w)}
          /\ temp' = [temp EXCEPT ![w] = "none"]
          /\ Goto(w, IF mode[w] = "anchored" THEN "done" ELSE "readback")
          /\ UNCHANGED <<call, mode, content, fd, reason>>
  /\ UNCHANGED <<parent, told, litter, excused, calls, outside, faults>>

\* os.link: only a name that is free.
Link(w) ==
  /\ pc[w] = "publish"
  /\ mode[w] = "create"
  /\ IF target[fd[w]] = "absent"
     THEN /\ target' = [target EXCEPT ![fd[w]] = temp[w]]
          /\ placed' = placed \cup {Placement(w)}
          /\ Goto(w, "unlink")
     ELSE Goto(w, "taken") /\ UNCHANGED <<target, placed>>
  /\ UNCHANGED <<call, mode, content, fd, temp, reason>>
  /\ UNCHANGED <<parent, told, litter, excused, calls, outside, faults>>

\* FileExistsError: what is there now decides the reason, if it still is.
ExplainTaken(w) ==
  /\ pc[w] = "taken"
  /\ LET why == TargetRejection(target[fd[w]], FALSE)
     IN  Abandon(w, IF why = "none" THEN "adapter_commit_failed" ELSE why)
  /\ UNCHANGED Shared

\* The temp name goes once the target has its own; if it cannot, the call is
\* reported as failed, with the target in place.
UnlinkTemp(w) ==
  /\ pc[w] = "unlink"
  /\ \/ /\ temp' = [temp EXCEPT ![w] = "none"]
        /\ Goto(w, "readback")
        /\ UNCHANGED <<call, mode, content, fd, reason, faults>>
     \/ Fault /\ Abandon(w, "adapter_commit_failed")
  /\ UNCHANGED <<parent, target, placed, told, litter, excused, calls, outside>>

\* The target is read back through parent_fd and its hash compared.
ReadBack(w) ==
  /\ pc[w] = "readback"
  /\ LET found == target[fd[w]]
     IN  \/ Tell(w, IF found = content[w] THEN "committed"
                    ELSE IF found \in {"absent", "symlink", "directory"}
                    THEN "verification_read_failed"
                    ELSE "verification_failed_post_commit") /\ UNCHANGED faults
         \/ Fault /\ Tell(w, "verification_read_failed")
  /\ UNCHANGED <<parent, target, placed, excused, calls, outside>>

\* anchored_atomic_write has returned.
Done(w) ==
  /\ pc[w] = "done"
  /\ Tell(w, "committed")
  /\ UNCHANGED <<parent, target, placed, excused, calls, outside, faults>>

\* The temp file, if any, is removed, and the caller told why.
Cleanup(w) ==
  /\ pc[w] = "cleanup"
  /\ IF temp[w] # "none"
     THEN \/ /\ temp' = [temp EXCEPT ![w] = "none"]
             /\ UNCHANGED <<pc, call, mode, content, fd, reason>>
             /\ UNCHANGED <<told, litter, excused, faults>>
          \/ Fault /\ Excuse(w) /\ Tell(w, reason[w])
     ELSE Tell(w, reason[w]) /\ UNCHANGED <<excused, faults>>
  /\ UNCHANGED <<parent, target, placed, calls, outside>>

\* A system call between prepare and the rename or link fails.
IOError(w) ==
  /\ pc[w] \in {"stat", "open", "check", "publish"}
  /\ Fault
  /\ Abandon(w, "adapter_commit_failed")
  /\ UNCHANGED <<parent, target, placed, told, litter, excused, calls, outside>>

Crash(w) ==
  /\ pc[w] # "idle"
  /\ Fault
  /\ Excuse(w)
  /\ Gone(w)
  /\ UNCHANGED <<parent, target, placed, told, calls, outside>>

\* Somebody else changes the file, or moves the directory and puts a link in
\* its place, or moves it back.
Outsider ==
  /\ outside < MaxOutside
  /\ outside' = outside + 1
  /\ \/ /\ \E e \in {"absent", "directory", "symlink", "foreign"} :
             target' = [target EXCEPT !["in"] = e]
        /\ parent = "directory"
        /\ UNCHANGED parent
     \/ /\ parent' = IF parent = "symlink" THEN "directory" ELSE "symlink"
        /\ UNCHANGED target
  /\ UNCHANGED <<mine, placed, told, litter, excused, calls, faults>>

Step(w) == \/ StatParent(w) \/ OpenParent(w) \/ CreateTemp(w) \/ FillTemp(w)
           \/ Rename(w) \/ Link(w) \/ ExplainTaken(w) \/ UnlinkTemp(w)
           \/ ReadBack(w) \/ Done(w) \/ Cleanup(w) \/ IOError(w) \/ Crash(w)

Next == Outsider \/ \E w \in Writers : Prepare(w) \/ Step(w)

Spec == Init /\ [][Next]_vars

-----------------------------------------------------------------------------
Points == {"idle", "stat", "open", "check", "fill", "publish", "taken",
           "unlink", "readback", "done", "cleanup"}

\* The variables have their types; a writer has a directory open, and a temp
\* file, only inside a call.
TypeOK ==
  /\ pc \in [Writers -> Points]
  /\ call \in [Writers -> 0..calls]
  /\ mode \in [Writers -> {"none", "create", "overwrite", "anchored"}]
  /\ content \in [Writers -> Contents \cup {"none"}]
  /\ fd \in [Writers -> {"none", "in", "out"}]
  /\ temp \in [Writers -> Contents \cup {"none", "partial"}]
  /\ reason \in [Writers -> Outcomes \cup {"none"}]
  /\ parent \in {"absent", "directory", "symlink"}
  /\ target \in [{"in", "out"} -> Others \cup Contents]
  /\ told \subseteq [call : 1..calls, outcome : Outcomes]
  /\ litter \subseteq 1..calls /\ excused \subseteq 1..calls
  /\ calls \in Nat /\ outside \in Nat /\ faults \in Nat
  /\ \A w \in Writers : pc[w] = "idle" => fd[w] = "none" /\ temp[w] = "none"

\* Whoever opens the target finds a whole file: one call's content or another's,
\* never a part of one, whatever fails or dies.
TargetWhole == target["in"] # "partial"

\* The write and its read-back stay in the sandbox: a link put in the
\* directory's place at any time leads no writer out of it.
NothingOutside == target["out"] = "absent"

\* While nobody outside touches the file, at most one call that may not
\* overwrite creates it, however many pass prepare's and commit's checks
\* together.
OneCreatorWins ==
  outside = 0 => \A a, b \in placed : a.mode = "create" /\ b.mode = "create" => a = b

\* "Late symlink or no-overwrite races rejected before final target change": who
\* is told the target, or the way to it, was the problem has changed nothing.
LateRejectionsChangeNothing ==
  \A t \in told : t.outcome \in TargetReasons => \A p \in placed : p.call # t.call

\* "Committed" is told only to a call that put its own file in place, never to
\* one that found another's with the same bytes there.
CommittedWasPlaced ==
  \A t \in told : t.outcome = "committed" => \E p \in placed : p.call = t.call

\* Every way out of a call removes its temp file, a failing write, read-back,
\* link or rename included: only a call that died, or whose removal itself
\* failed, leaves one behind.
TempsRemoved == litter \subseteq excused

-----------------------------------------------------------------------------
Whole == INSTANCE AtomicWrite WITH entry <- target["in"], CallNumbers <- 1..MaxCalls

\* The walk, the temp file, the rename or link and the read-back are together
\* one write of the whole content or none, answered truthfully, deaths and
\* meddling included.
ImplementsAtomicWrite == Whole!Spec
=============================================================================
