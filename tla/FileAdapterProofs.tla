------------------------- MODULE FileAdapterProofs -------------------------
(***************************************************************************)
(* What FileAdapter promises for every number of writers, calls, outside   *)
(* changes and faults.  FileInvariant adds to the invariants of the module *)
(* what a writer holds at each point of its walk, that calls are           *)
(* numbered apart, and which writers have a placement of their own.        *)
(***************************************************************************)
EXTENDS FileAdapter, TLAPS

Modes == {"create", "overwrite", "anchored"}

\* Placements are calls of a mode.
PlacedOK == placed \subseteq [call : 1..calls, mode : Modes]

\* What a writer holds where: the sandbox's directory and no other, once it has
\* opened it; its whole content in the temp file whenever that file may get the
\* target's name; a reason other than success while it cleans up.
Holds(w) ==
  /\ fd[w] # "out"
  /\ pc[w] # "idle" => content[w] \in Contents /\ mode[w] \in Modes
  /\ pc[w] \in {"check", "fill", "publish", "taken", "unlink", "readback", "done"}
       => fd[w] = "in"
  /\ pc[w] \in {"publish", "taken", "unlink"} => temp[w] = content[w]
  /\ pc[w] \in {"idle", "stat", "open", "check", "readback", "done"} => temp[w] = "none"
  /\ pc[w] \in {"taken", "unlink"} => mode[w] = "create"
  /\ pc[w] = "done" => mode[w] = "anchored"
  /\ pc[w] = "cleanup" => reason[w] \in Outcomes \ {"committed"}

Held == \A w \in Writers : Holds(w)

\* No two calls have one number, and none that is still going on was answered.
CallsApart ==
  /\ \A w \in Writers : (pc[w] = "idle") = (call[w] = 0)
  /\ \A v, w \in Writers : call[v] = call[w] /\ call[v] # 0 => v = w
  /\ \A w \in Writers : \A t \in told : t.call # call[w]

\* A call in progress whose temp file got the target's name is past the rename
\* or link, or cleans up after a failure that says nothing of the target; and
\* past the rename or link it did get it.
PlacedAt(w) ==
  /\ (\E p \in placed : p.call = call[w])
       => \/ pc[w] \in {"unlink", "readback", "done"}
          \/ pc[w] = "cleanup" /\ reason[w] = "adapter_commit_failed"
  /\ pc[w] \in {"unlink", "readback", "done"} => \E p \in placed : p.call = call[w]

PlacedWhere == \A w \in Writers : PlacedAt(w)

\* What a call created is not gone again by the runtime's own doing.
CreatedIsThere ==
  outside = 0 /\ (\E p \in placed : p.mode = "create") => target["in"] # "absent"

FileInvariant ==
  /\ TypeOK
  /\ PlacedOK
  /\ Held
  /\ CallsApart
  /\ PlacedWhere
  /\ CreatedIsThere
  /\ TargetWhole
  /\ NothingOutside
  /\ OneCreatorWins
  /\ LateRejectionsChangeNothing
  /\ CommittedWasPlaced
  /\ TempsRemoved

-----------------------------------------------------------------------------
LEMMA FileInit == Init => FileInvariant
<1> SUFFICES ASSUME Init PROVE FileInvariant
  OBVIOUS
<1> USE DEF Init
<1>1. TypeOK /\ PlacedOK
  BY FileAssumption DEF TypeOK, PlacedOK, Points, Others
<1>2. Held /\ CallsApart /\ PlacedWhere
  BY DEF Held, Holds, CallsApart, PlacedWhere, PlacedAt
<1>3. CreatedIsThere /\ TargetWhole /\ NothingOutside
  BY DEF CreatedIsThere, TargetWhole, NothingOutside
<1>4. /\ OneCreatorWins /\ LateRejectionsChangeNothing
      /\ CommittedWasPlaced /\ TempsRemoved
  BY DEF OneCreatorWins, LateRejectionsChangeNothing, CommittedWasPlaced, TempsRemoved
<1> QED
  BY <1>1, <1>2, <1>3, <1>4 DEF FileInvariant

\* Contents are file contents, and what the target is rejected for is one of
\* the target's reasons.
LEMMA ContentFacts ==
  /\ \A c \in Contents : c \notin Others /\ c # "none"
  /\ \A e, o : TargetRejection(e, o) \in TargetReasons \cup {"none"}
  /\ \A w, why : Reason(w, why) \in {why, "adapter_commit_failed"}
  BY FileAssumption DEF Others, TargetRejection, TargetReasons, Reason

\* A writer that gives up still has its call, and nothing else has changed.
LEMMA AbandonKeepsTypes ==
  ASSUME TypeOK, NEW w \in Writers, NEW why \in Outcomes, Abandon(w, why)
  PROVE  /\ UNCHANGED <<call, mode, content, fd, temp>>
         /\ pc' \in [Writers -> Points]
         /\ reason' \in [Writers -> Outcomes \cup {"none"}]
         /\ \A v \in Writers : pc'[v] = "idle" => fd'[v] = "none" /\ temp'[v] = "none"
  BY DEF Abandon, Goto, Reason, TypeOK, Points, Outcomes

\* A writer that is told its outcome, or dies, is idle with nothing in hand.
LEMMA GoneKeepsTypes ==
  ASSUME TypeOK, CallsApart, NEW w \in Writers, pc[w] # "idle", Gone(w), calls' = calls
  PROVE  /\ pc' \in [Writers -> Points]
         /\ call' \in [Writers -> 0..calls']
         /\ mode' \in [Writers -> {"none", "create", "overwrite", "anchored"}]
         /\ content' \in [Writers -> Contents \cup {"none"}]
         /\ fd' \in [Writers -> {"none", "in", "out"}]
         /\ temp' \in [Writers -> Contents \cup {"none", "partial"}]
         /\ reason' \in [Writers -> Outcomes \cup {"none"}]
         /\ litter' \subseteq 1..calls'
         /\ \A v \in Writers : pc'[v] = "idle" => fd'[v] = "none" /\ temp'[v] = "none"
<1>1. call[w] \in 1..calls
  BY DEF TypeOK, CallsApart
<1>2. litter' \subseteq 1..calls'
  BY <1>1 DEF Gone, TypeOK
<1> QED
  BY <1>2 DEF Gone, Goto, TypeOK, Points

LEMMA ExcuseKeepsTypes ==
  ASSUME TypeOK, CallsApart, NEW w \in Writers, pc[w] # "idle", Excuse(w), calls' = calls
  PROVE  excused' \subseteq 1..calls'
<1>1. call[w] \in 1..calls
  BY DEF TypeOK, CallsApart
<1> QED
  BY <1>1 DEF Excuse, TypeOK

LEMMA ToldKeepsTypes ==
  ASSUME TypeOK, CallsApart, NEW w \in Writers, pc[w] # "idle", NEW o \in Outcomes,
         Tell(w, o), calls' = calls
  PROVE  told' \subseteq [call : 1..calls', outcome : Outcomes] /\ Gone(w)
<1>1. call[w] \in 1..calls
  BY DEF TypeOK, CallsApart
<1> QED
  BY <1>1 DEF Tell, TypeOK

LEMMA TypeStep == FileInvariant /\ [Next]_vars => TypeOK' /\ PlacedOK'
<1> SUFFICES ASSUME FileInvariant, [Next]_vars PROVE TypeOK' /\ PlacedOK'
  OBVIOUS
<1> USE DEF FileInvariant
<1>1. CASE UNCHANGED vars
  BY <1>1 DEF vars, mine, TypeOK, PlacedOK
<1>2. CASE Outsider
  BY <1>2 DEF Outsider, mine, TypeOK, PlacedOK, Others
<1>3. ASSUME NEW w \in Writers, Prepare(w) PROVE TypeOK' /\ PlacedOK'
  <2>1. 1..calls \subseteq 1..calls' /\ 0..calls \subseteq 0..calls' /\ calls + 1 \in 0..calls'
    BY <1>3 DEF Prepare, TypeOK
  <2>2. call' \in [Writers -> 0..calls']
    BY <1>3, <2>1 DEF Prepare, TypeOK
  <2>3. PlacedOK' /\ told' \subseteq [call : 1..calls', outcome : Outcomes]
        /\ litter' \subseteq 1..calls' /\ excused' \subseteq 1..calls'
    BY <1>3, <2>1 DEF Prepare, TypeOK, PlacedOK
  <2> QED
    BY <1>3, <2>2, <2>3 DEF Prepare, Goto, TypeOK, Points
<1>4. ASSUME NEW w \in Writers, StatParent(w) PROVE TypeOK' /\ PlacedOK'
  <2>1. CASE parent = "symlink"
    <3>1. Abandon(w, "path_component_is_symlink")
      BY <1>4, <2>1 DEF StatParent
    <3> QED
      BY <1>4, <2>1, <3>1, AbandonKeepsTypes
         DEF StatParent, Abandon, TypeOK, PlacedOK, Outcomes, TargetReasons
  <2>2. CASE parent # "symlink"
    BY <1>4, <2>2 DEF StatParent, Goto, mine, TypeOK, PlacedOK, Points
  <2> QED
    BY <2>1, <2>2
<1>5. ASSUME NEW w \in Writers, OpenParent(w) PROVE TypeOK' /\ PlacedOK'
  BY <1>5 DEF OpenParent, Shared, Abandon, Goto, Reason, TypeOK, PlacedOK, Points, Outcomes
<1>6. ASSUME NEW w \in Writers, CreateTemp(w) PROVE TypeOK' /\ PlacedOK'
  <2>1. CASE pc'[w] = "cleanup"
    <3>1. PICK why \in Outcomes : Abandon(w, why)
      BY <1>6, <2>1, ContentFacts DEF CreateTemp, Goto, TypeOK, Outcomes
    <3> QED
      BY <1>6, <3>1, AbandonKeepsTypes DEF CreateTemp, Shared, Abandon, TypeOK, PlacedOK
  <2>2. CASE pc'[w] # "cleanup"
    BY <1>6, <2>2 DEF CreateTemp, Shared, Abandon, Goto, TypeOK, PlacedOK, Points
  <2> QED
    BY <2>1, <2>2
<1>7. ASSUME NEW w \in Writers, FillTemp(w) PROVE TypeOK' /\ PlacedOK'
  <2>1. CASE Abandon(w, "adapter_commit_failed")
    <3>1. faults' \in Nat
      BY <1>7 DEF FillTemp, Fault, TypeOK
    <3> QED
      BY <1>7, <2>1, <3>1, AbandonKeepsTypes DEF FillTemp, TypeOK, PlacedOK, Outcomes
  <2>2. CASE ~Abandon(w, "adapter_commit_failed")
    BY <1>7, <2>2 DEF FillTemp, Goto, TypeOK, PlacedOK, Points, Held, Holds
  <2> QED
    BY <2>1, <2>2
<1>8. ASSUME NEW w \in Writers, Rename(w) PROVE TypeOK' /\ PlacedOK'
  <2>1. CASE Abandon(w, "adapter_commit_failed") /\ UNCHANGED <<target, placed>>
    BY <1>8, <2>1, AbandonKeepsTypes DEF Rename, Abandon, TypeOK, PlacedOK, Outcomes
  <2>2. CASE target[fd[w]] # "directory"
    <3>1. Placement(w) \in [call : 1..calls, mode : Modes]
      BY <1>8 DEF Rename, Placement, TypeOK, Held, Holds, CallsApart
    <3>2. fd[w] = "in" /\ temp[w] \in Contents
      BY <1>8 DEF Rename, Held, Holds
    <3> QED
      BY <1>8, <2>2, <3>1, <3>2 DEF Rename, Goto, TypeOK, PlacedOK, Points
  <2> QED
    BY <1>8, <2>1, <2>2 DEF Rename
<1>9. ASSUME NEW w \in Writers, Link(w) PROVE TypeOK' /\ PlacedOK'
  BY <1>9 DEF Link, Placement, Goto, TypeOK, PlacedOK, Points, Modes, Held, Holds, CallsApart
<1>10. ASSUME NEW w \in Writers, ExplainTaken(w) PROVE TypeOK' /\ PlacedOK'
  <2>1. PICK why \in Outcomes : Abandon(w, why)
    BY <1>10, ContentFacts DEF ExplainTaken, Outcomes
  <2> QED
    BY <1>10, <2>1, AbandonKeepsTypes DEF ExplainTaken, Shared, Abandon, TypeOK, PlacedOK
<1>11. ASSUME NEW w \in Writers, UnlinkTemp(w) PROVE TypeOK' /\ PlacedOK'
  <2>1. CASE Abandon(w, "adapter_commit_failed")
    <3>1. faults' \in Nat
      BY <1>11 DEF UnlinkTemp, Fault, TypeOK
    <3> QED
      BY <1>11, <2>1, <3>1, AbandonKeepsTypes DEF UnlinkTemp, TypeOK, PlacedOK, Outcomes
  <2>2. CASE ~Abandon(w, "adapter_commit_failed")
    BY <1>11, <2>2 DEF UnlinkTemp, Goto, TypeOK, PlacedOK, Points
  <2> QED
    BY <2>1, <2>2
<1>12. ASSUME NEW w \in Writers, ReadBack(w) PROVE TypeOK' /\ PlacedOK'
  <2>1. PICK o \in Outcomes : Tell(w, o)
    BY <1>12 DEF ReadBack, Outcomes
  <2> QED
    BY <1>12, <2>1, GoneKeepsTypes, ToldKeepsTypes DEF ReadBack, Fault, TypeOK, PlacedOK
<1>13. ASSUME NEW w \in Writers, Done(w) PROVE TypeOK' /\ PlacedOK'
  <2>1. Tell(w, "committed") /\ "committed" \in Outcomes
    BY <1>13 DEF Done, Outcomes
  <2> QED
    BY <1>13, <2>1, GoneKeepsTypes, ToldKeepsTypes DEF Done, TypeOK, PlacedOK
<1>14. ASSUME NEW w \in Writers, Cleanup(w) PROVE TypeOK' /\ PlacedOK'
  <2>1. CASE Tell(w, reason[w])
    <3>1. reason[w] \in Outcomes /\ pc[w] # "idle" /\ calls' = calls
      BY <1>14 DEF Cleanup, Held, Holds
    <3>2. excused' \subseteq 1..calls'
      BY <1>14, <3>1, ExcuseKeepsTypes DEF Cleanup, TypeOK
    <3> QED
      BY <1>14, <2>1, <3>1, <3>2, GoneKeepsTypes, ToldKeepsTypes
         DEF Cleanup, Fault, TypeOK, PlacedOK
  <2>2. CASE ~Tell(w, reason[w])
    BY <1>14, <2>2 DEF Cleanup, TypeOK, PlacedOK
  <2> QED
    BY <2>1, <2>2
<1>15. ASSUME NEW w \in Writers, IOError(w) PROVE TypeOK' /\ PlacedOK'
  <2>1. faults' \in Nat
    BY <1>15 DEF IOError, Fault, TypeOK
  <2> QED
    BY <1>15, <2>1, AbandonKeepsTypes DEF IOError, TypeOK, PlacedOK, Outcomes
<1>16. ASSUME NEW w \in Writers, Crash(w) PROVE TypeOK' /\ PlacedOK'
  BY <1>16, GoneKeepsTypes, ExcuseKeepsTypes DEF Crash, Fault, TypeOK, PlacedOK
<1> QED
  BY <1>1, <1>2, <1>3, <1>4, <1>5, <1>6, <1>7, <1>8, <1>9, <1>10, <1>11, <1>12, <1>13,
     <1>14, <1>15, <1>16 DEF Next, Step

-----------------------------------------------------------------------------
\* A step leaves the target and the record of placements alone, or is an
\* outsider's, or gives a whole temp file the target's name: over nothing, if
\* its call may not overwrite.
Placing ==
  \/ UNCHANGED <<target, placed, outside>>
  \/ /\ outside' = outside + 1 /\ placed' = placed
     /\ \/ target' = target
        \/ \E e \in Others \ {"partial"} : target' = [target EXCEPT !["in"] = e]
  \/ \E w \in Writers :
       /\ pc[w] = "publish"
       /\ target' = [target EXCEPT !["in"] = content[w]]
       /\ placed' = placed \cup {Placement(w)}
       /\ mode[w] = "create" => target["in"] = "absent"
       /\ UNCHANGED <<outside, told>>

\* Only rename and link give the target a content of a call.
LEMMA EveryPlacing == FileInvariant /\ [Next]_vars => Placing
<1> SUFFICES ASSUME FileInvariant, [Next]_vars PROVE Placing
  OBVIOUS
<1> USE DEF FileInvariant
<1>1. CASE UNCHANGED vars
  BY <1>1 DEF vars, Placing
<1>2. CASE Outsider
  BY <1>2 DEF Outsider, mine, Placing, Others
<1>3. ASSUME NEW w \in Writers, Prepare(w) PROVE Placing
  BY <1>3 DEF Prepare, Placing
<1>4. ASSUME NEW w \in Writers, StatParent(w) PROVE Placing
  BY <1>4 DEF StatParent, Placing
<1>5. ASSUME NEW w \in Writers, OpenParent(w) PROVE Placing
  BY <1>5 DEF OpenParent, Shared, Placing
<1>6. ASSUME NEW w \in Writers, CreateTemp(w) PROVE Placing
  BY <1>6 DEF CreateTemp, Shared, Placing
<1>7. ASSUME NEW w \in Writers, FillTemp(w) PROVE Placing
  BY <1>7 DEF FillTemp, Placing
<1>8. ASSUME NEW w \in Writers, Rename(w) PROVE Placing
  BY <1>8 DEF Rename, Placing, Held, Holds
<1>9. ASSUME NEW w \in Writers, Link(w) PROVE Placing
  BY <1>9 DEF Link, Placing, Held, Holds
<1>10. ASSUME NEW w \in Writers, ExplainTaken(w) PROVE Placing
  BY <1>10 DEF ExplainTaken, Shared, Placing
<1>11. ASSUME NEW w \in Writers, UnlinkTemp(w) PROVE Placing
  BY <1>11 DEF UnlinkTemp, Placing
<1>12. ASSUME NEW w \in Writers, ReadBack(w) PROVE Placing
  BY <1>12 DEF ReadBack, Placing
<1>13. ASSUME NEW w \in Writers, Done(w) PROVE Placing
  BY <1>13 DEF Done, Placing
<1>14. ASSUME NEW w \in Writers, Cleanup(w) PROVE Placing
  BY <1>14 DEF Cleanup, Placing
<1>15. ASSUME NEW w \in Writers, IOError(w) PROVE Placing
  BY <1>15 DEF IOError, Placing
<1>16. ASSUME NEW w \in Writers, Crash(w) PROVE Placing
  BY <1>16 DEF Crash, Placing
<1> QED
  BY <1>1, <1>2, <1>3, <1>4, <1>5, <1>6, <1>7, <1>8, <1>9, <1>10, <1>11, <1>12,
     <1>13, <1>14, <1>15, <1>16 DEF Next, Step

\* A step tells nobody anything, or tells one writer an outcome its place in
\* the code allows, with the target as it was.
Telling ==
  \/ told' = told
  \/ \E w \in Writers, o \in Outcomes :
       /\ pc[w] # "idle"
       /\ told' = told \cup {[call |-> call[w], outcome |-> o]}
       /\ Gone(w)
       /\ o = "committed" => pc[w] \in {"readback", "done"}
       /\ o \in TargetReasons => pc[w] = "cleanup" /\ reason[w] = o
       /\ placed' = placed

\* Only the read-back, the return of anchored_atomic_write and the cleanup answer.
LEMMA EveryTelling == FileInvariant /\ [Next]_vars => Telling
<1> SUFFICES ASSUME FileInvariant, [Next]_vars PROVE Telling
  OBVIOUS
<1> USE DEF FileInvariant
<1>1. CASE UNCHANGED vars
  BY <1>1 DEF vars, Telling
<1>2. CASE Outsider
  BY <1>2 DEF Outsider, mine, Telling
<1>3. ASSUME NEW w \in Writers, Prepare(w) PROVE Telling
  BY <1>3 DEF Prepare, Telling
<1>4. ASSUME NEW w \in Writers, StatParent(w) PROVE Telling
  BY <1>4 DEF StatParent, Telling
<1>5. ASSUME NEW w \in Writers, OpenParent(w) PROVE Telling
  BY <1>5 DEF OpenParent, Shared, Telling
<1>6. ASSUME NEW w \in Writers, CreateTemp(w) PROVE Telling
  BY <1>6 DEF CreateTemp, Shared, Telling
<1>7. ASSUME NEW w \in Writers, FillTemp(w) PROVE Telling
  BY <1>7 DEF FillTemp, Telling
<1>8. ASSUME NEW w \in Writers, Rename(w) PROVE Telling
  BY <1>8 DEF Rename, Telling
<1>9. ASSUME NEW w \in Writers, Link(w) PROVE Telling
  BY <1>9 DEF Link, Telling
<1>10. ASSUME NEW w \in Writers, ExplainTaken(w) PROVE Telling
  BY <1>10 DEF ExplainTaken, Shared, Telling
<1>11. ASSUME NEW w \in Writers, UnlinkTemp(w) PROVE Telling
  BY <1>11 DEF UnlinkTemp, Telling
<1>12. ASSUME NEW w \in Writers, ReadBack(w) PROVE Telling
  BY <1>12 DEF ReadBack, Tell, Telling, Outcomes, TargetReasons
<1>13. ASSUME NEW w \in Writers, Done(w) PROVE Telling
  BY <1>13 DEF Done, Tell, Telling, Outcomes, TargetReasons
<1>14. ASSUME NEW w \in Writers, Cleanup(w) PROVE Telling
  <2>1. reason[w] \in Outcomes \ {"committed"} /\ pc[w] = "cleanup"
    BY <1>14 DEF Cleanup, Held, Holds
  <2> QED
    BY <1>14, <2>1 DEF Cleanup, Tell, Telling
<1>15. ASSUME NEW w \in Writers, IOError(w) PROVE Telling
  BY <1>15 DEF IOError, Telling
<1>16. ASSUME NEW w \in Writers, Crash(w) PROVE Telling
  BY <1>16 DEF Crash, Telling
<1> QED
  BY <1>1, <1>2, <1>3, <1>4, <1>5, <1>6, <1>7, <1>8, <1>9, <1>10, <1>11, <1>12,
     <1>13, <1>14, <1>15, <1>16 DEF Next, Step

-----------------------------------------------------------------------------
\* Only prepare gives out a number, and a call that is over has been told.
LEMMA CallsStep == FileInvariant /\ [Next]_vars => CallsApart'
<1> SUFFICES ASSUME FileInvariant, [Next]_vars PROVE CallsApart'
  OBVIOUS
<1> USE DEF FileInvariant
<1>1. CASE UNCHANGED vars
  BY <1>1 DEF vars, mine, CallsApart
<1>2. CASE Outsider
  BY <1>2 DEF Outsider, mine, CallsApart
<1>3. ASSUME NEW w \in Writers, Prepare(w) PROVE CallsApart'
  BY <1>3 DEF Prepare, Goto, TypeOK, CallsApart
<1>4. ASSUME NEW w \in Writers, StatParent(w) PROVE CallsApart'
  <2>1. CASE parent = "symlink"
    <3>1. Abandon(w, "path_component_is_symlink") /\ told' = told /\ calls' = calls
      BY <1>4, <2>1 DEF StatParent
    <3> QED
      BY <1>4, <3>1 DEF StatParent, Abandon, Goto, TypeOK, CallsApart
  <2>2. CASE parent # "symlink"
    <3>1. \/ UNCHANGED mine
          \/ Goto(w, "open") /\ UNCHANGED <<call, mode, content, fd, temp, reason>>
      BY <1>4, <2>2 DEF StatParent, TypeOK
    <3>2. told' = told /\ calls' = calls /\ pc[w] = "stat"
      BY <1>4 DEF StatParent
    <3> QED
      BY <3>1, <3>2 DEF mine, Goto, TypeOK, CallsApart
  <2> QED
    BY <2>1, <2>2
<1>5. ASSUME NEW w \in Writers, OpenParent(w) PROVE CallsApart'
  BY <1>5 DEF OpenParent, Shared, Abandon, Goto, TypeOK, CallsApart
<1>6. ASSUME NEW w \in Writers, CreateTemp(w) PROVE CallsApart'
  BY <1>6 DEF CreateTemp, Shared, Abandon, Goto, TypeOK, CallsApart
<1>7. ASSUME NEW w \in Writers, FillTemp(w) PROVE CallsApart'
  BY <1>7 DEF FillTemp, Abandon, Goto, TypeOK, CallsApart
<1>8. ASSUME NEW w \in Writers, Rename(w) PROVE CallsApart'
  BY <1>8 DEF Rename, Abandon, Goto, TypeOK, CallsApart
<1>9. ASSUME NEW w \in Writers, Link(w) PROVE CallsApart'
  BY <1>9 DEF Link, Goto, TypeOK, CallsApart
<1>10. ASSUME NEW w \in Writers, ExplainTaken(w) PROVE CallsApart'
  BY <1>10 DEF ExplainTaken, Shared, Abandon, Goto, TypeOK, CallsApart
<1>11. ASSUME NEW w \in Writers, UnlinkTemp(w) PROVE CallsApart'
  BY <1>11 DEF UnlinkTemp, Abandon, Goto, TypeOK, CallsApart
<1>12. ASSUME NEW w \in Writers, ReadBack(w) PROVE CallsApart'
  BY <1>12 DEF ReadBack, Tell, Gone, Goto, TypeOK, CallsApart
<1>13. ASSUME NEW w \in Writers, Done(w) PROVE CallsApart'
  BY <1>13 DEF Done, Tell, Gone, Goto, TypeOK, CallsApart
<1>14. ASSUME NEW w \in Writers, Cleanup(w) PROVE CallsApart'
  <2>1. \/ UNCHANGED <<pc, call, told>>
        \/ Tell(w, reason[w])
    BY <1>14 DEF Cleanup
  <2>2. CASE UNCHANGED <<pc, call, told>>
    BY <2>2 DEF CallsApart
  <2>3. CASE Tell(w, reason[w])
    <3>1. pc[w] = "cleanup"
      BY <1>14 DEF Cleanup
    <3> QED
      BY <2>3, <3>1 DEF Tell, Gone, Goto, TypeOK, CallsApart
  <2> QED
    BY <2>1, <2>2, <2>3
<1>15. ASSUME NEW w \in Writers, IOError(w) PROVE CallsApart'
  BY <1>15 DEF IOError, Abandon, Goto, TypeOK, CallsApart
<1>16. ASSUME NEW w \in Writers, Crash(w) PROVE CallsApart'
  BY <1>16 DEF Crash, Gone, Goto, TypeOK, CallsApart
<1> QED
  BY <1>1, <1>2, <1>3, <1>4, <1>5, <1>6, <1>7, <1>8, <1>9, <1>10, <1>11, <1>12,
     <1>13, <1>14, <1>15, <1>16 DEF Next, Step

\* One writer moved, and holds what it must where it is now.
LEMMA HeldFrame ==
  ASSUME TypeOK, Held, NEW w \in Writers, Holds(w)',
         \A v \in Writers \ {w} :
            /\ pc'[v] = pc[v] /\ mode'[v] = mode[v] /\ content'[v] = content[v]
            /\ fd'[v] = fd[v] /\ temp'[v] = temp[v] /\ reason'[v] = reason[v]
  PROVE  Held'
  BY DEF Held, Holds

LEMMA AbandonHolds ==
  ASSUME TypeOK, Held, NEW w \in Writers, pc[w] # "idle",
         NEW why \in Outcomes \ {"committed"}, Abandon(w, why)
  PROVE  Held'
<1>1. Reason(w, why) \in Outcomes \ {"committed"}
  BY DEF Reason, Outcomes
<1>2. Holds(w)'
  BY <1>1 DEF Abandon, Goto, TypeOK, Held, Holds
<1> QED
  BY <1>2, HeldFrame DEF Abandon, Goto, TypeOK

LEMMA TargetReasonsAreOutcomes == TargetReasons \cup {"adapter_commit_failed"} \subseteq Outcomes \ {"committed"}
  BY DEF TargetReasons, Outcomes

\* What a writer has in hand fits the point it is at.
LEMMA HeldStep == FileInvariant /\ [Next]_vars => Held'
<1> SUFFICES ASSUME FileInvariant, [Next]_vars PROVE Held'
  OBVIOUS
<1> USE DEF FileInvariant
<1>1. CASE UNCHANGED vars
  BY <1>1 DEF vars, mine, Held, Holds
<1>2. CASE Outsider
  BY <1>2 DEF Outsider, mine, Held, Holds
<1>3. ASSUME NEW w \in Writers, Prepare(w) PROVE Held'
  <2>1. Holds(w)'
    BY <1>3 DEF Prepare, Goto, TypeOK, Held, Holds, Modes
  <2> QED
    BY <1>3, <2>1, HeldFrame DEF Prepare, Goto, TypeOK
<1>4. ASSUME NEW w \in Writers, StatParent(w) PROVE Held'
  <2>1. CASE \E why \in TargetReasons \cup {"adapter_commit_failed"} : Abandon(w, why)
    BY <1>4, <2>1, AbandonHolds, TargetReasonsAreOutcomes DEF StatParent
  <2>2. CASE parent # "symlink"
    <3>1. \/ UNCHANGED mine
          \/ Goto(w, "open") /\ UNCHANGED <<call, mode, content, fd, temp, reason>>
      BY <1>4, <2>2 DEF StatParent, TypeOK
    <3>2. Holds(w)'
      BY <1>4, <3>1 DEF StatParent, mine, Goto, TypeOK, Held, Holds
    <3> QED
      BY <3>1, <3>2, HeldFrame DEF mine, Goto, TypeOK
  <2>3. CASE parent = "symlink"
    BY <1>4, <2>1, <2>3 DEF StatParent, TargetReasons
  <2> QED
    BY <2>1, <2>2, <2>3
<1>5. ASSUME NEW w \in Writers, OpenParent(w) PROVE Held'
  <2>1. CASE \E why \in TargetReasons \cup {"adapter_commit_failed"} : Abandon(w, why)
    BY <1>5, <2>1, AbandonHolds, TargetReasonsAreOutcomes DEF OpenParent
  <2>2. CASE ~\E why \in TargetReasons \cup {"adapter_commit_failed"} : Abandon(w, why)
    <3>1. /\ Holds(w)'
          /\ \A v \in Writers \ {w} :
               /\ pc'[v] = pc[v] /\ mode'[v] = mode[v] /\ content'[v] = content[v]
               /\ fd'[v] = fd[v] /\ temp'[v] = temp[v] /\ reason'[v] = reason[v]
      BY <1>5, <2>2 DEF OpenParent, Goto, TypeOK, Held, Holds
    <3> QED
      BY <3>1, HeldFrame
  <2> QED
    BY <2>1, <2>2
<1>6. ASSUME NEW w \in Writers, CreateTemp(w) PROVE Held'
  <2>1. CASE \E why \in TargetReasons \cup {"adapter_commit_failed"} : Abandon(w, why)
    BY <1>6, <2>1, AbandonHolds, TargetReasonsAreOutcomes DEF CreateTemp
  <2>2. CASE ~\E why \in TargetReasons \cup {"adapter_commit_failed"} : Abandon(w, why)
    <3>1. /\ Holds(w)'
          /\ \A v \in Writers \ {w} :
               /\ pc'[v] = pc[v] /\ mode'[v] = mode[v] /\ content'[v] = content[v]
               /\ fd'[v] = fd[v] /\ temp'[v] = temp[v] /\ reason'[v] = reason[v]
      BY <1>6, <2>2, ContentFacts DEF CreateTemp, Goto, TypeOK, Held, Holds
    <3> QED
      BY <3>1, HeldFrame
  <2> QED
    BY <2>1, <2>2
<1>7. ASSUME NEW w \in Writers, FillTemp(w) PROVE Held'
  <2>1. CASE \E why \in TargetReasons \cup {"adapter_commit_failed"} : Abandon(w, why)
    BY <1>7, <2>1, AbandonHolds, TargetReasonsAreOutcomes DEF FillTemp
  <2>2. CASE ~\E why \in TargetReasons \cup {"adapter_commit_failed"} : Abandon(w, why)
    <3>1. /\ Holds(w)'
          /\ \A v \in Writers \ {w} :
               /\ pc'[v] = pc[v] /\ mode'[v] = mode[v] /\ content'[v] = content[v]
               /\ fd'[v] = fd[v] /\ temp'[v] = temp[v] /\ reason'[v] = reason[v]
      BY <1>7, <2>2 DEF FillTemp, Goto, TypeOK, Held, Holds
    <3> QED
      BY <3>1, HeldFrame
  <2> QED
    BY <2>1, <2>2
<1>8. ASSUME NEW w \in Writers, Rename(w) PROVE Held'
  <2>1. CASE \E why \in TargetReasons \cup {"adapter_commit_failed"} : Abandon(w, why)
    BY <1>8, <2>1, AbandonHolds, TargetReasonsAreOutcomes DEF Rename
  <2>2. CASE ~\E why \in TargetReasons \cup {"adapter_commit_failed"} : Abandon(w, why)
    <3>1. /\ Holds(w)'
          /\ \A v \in Writers \ {w} :
               /\ pc'[v] = pc[v] /\ mode'[v] = mode[v] /\ content'[v] = content[v]
               /\ fd'[v] = fd[v] /\ temp'[v] = temp[v] /\ reason'[v] = reason[v]
      BY <1>8, <2>2 DEF Rename, Goto, TypeOK, Held, Holds
    <3> QED
      BY <3>1, HeldFrame
  <2> QED
    BY <2>1, <2>2
<1>9. ASSUME NEW w \in Writers, Link(w) PROVE Held'
  BY <1>9 DEF Link, Goto, TypeOK, Held, Holds
<1>10. ASSUME NEW w \in Writers, ExplainTaken(w) PROVE Held'
  <2>1. PICK why \in TargetReasons \cup {"adapter_commit_failed"} : Abandon(w, why)
    BY <1>10, ContentFacts DEF ExplainTaken
  <2> QED
    BY <1>10, <2>1, AbandonHolds, TargetReasonsAreOutcomes DEF ExplainTaken
<1>11. ASSUME NEW w \in Writers, UnlinkTemp(w) PROVE Held'
  <2>1. CASE \E why \in TargetReasons \cup {"adapter_commit_failed"} : Abandon(w, why)
    BY <1>11, <2>1, AbandonHolds, TargetReasonsAreOutcomes DEF UnlinkTemp
  <2>2. CASE ~\E why \in TargetReasons \cup {"adapter_commit_failed"} : Abandon(w, why)
    <3>1. /\ Holds(w)'
          /\ \A v \in Writers \ {w} :
               /\ pc'[v] = pc[v] /\ mode'[v] = mode[v] /\ content'[v] = content[v]
               /\ fd'[v] = fd[v] /\ temp'[v] = temp[v] /\ reason'[v] = reason[v]
      BY <1>11, <2>2 DEF UnlinkTemp, Goto, TypeOK, Held, Holds
    <3> QED
      BY <3>1, HeldFrame
  <2> QED
    BY <2>1, <2>2
<1>12. ASSUME NEW w \in Writers, ReadBack(w) PROVE Held'
  BY <1>12 DEF ReadBack, Tell, Gone, Goto, TypeOK, Held, Holds
<1>13. ASSUME NEW w \in Writers, Done(w) PROVE Held'
  BY <1>13 DEF Done, Tell, Gone, Goto, TypeOK, Held, Holds
<1>14. ASSUME NEW w \in Writers, Cleanup(w) PROVE Held'
  BY <1>14 DEF Cleanup, Tell, Gone, Goto, TypeOK, Held, Holds
<1>15. ASSUME NEW w \in Writers, IOError(w) PROVE Held'
  BY <1>15, AbandonHolds, TargetReasonsAreOutcomes DEF IOError
<1>16. ASSUME NEW w \in Writers, Crash(w) PROVE Held'
  BY <1>16 DEF Crash, Gone, Goto, TypeOK, Held, Holds
<1> QED
  BY <1>1, <1>2, <1>3, <1>4, <1>5, <1>6, <1>7, <1>8, <1>9, <1>10, <1>11, <1>12,
     <1>13, <1>14, <1>15, <1>16 DEF Next, Step

-----------------------------------------------------------------------------
\* One writer moved; whether the others' calls got the target's name is as before.
LEMMA PlacedFrame ==
  ASSUME FileInvariant, NEW w \in Writers, PlacedAt(w)',
         \/ placed' = placed
         \/ placed' = placed \cup {Placement(w)} /\ pc[w] # "idle",
         \A v \in Writers \ {w} :
            pc'[v] = pc[v] /\ call'[v] = call[v] /\ reason'[v] = reason[v]
  PROVE  PlacedWhere'
<1>1. ASSUME NEW v \in Writers \ {w}
      PROVE  (\E p \in placed' : p.call = call[v]) = (\E p \in placed : p.call = call[v])
  BY DEF FileInvariant, CallsApart, Placement
<1> QED
  BY <1>1 DEF FileInvariant, PlacedWhere, PlacedAt

LEMMA AbandonPlaced ==
  ASSUME FileInvariant, NEW w \in Writers, NEW why, Abandon(w, why), placed' = placed,
         \/ pc[w] = "unlink" /\ why = "adapter_commit_failed"
         \/ pc[w] \in {"stat", "open", "check", "fill", "publish", "taken"}
  PROVE  PlacedWhere'
<1>1. PlacedAt(w)'
  BY DEF FileInvariant, TypeOK, Abandon, Goto, Reason, PlacedWhere, PlacedAt
<1> QED
  BY <1>1, PlacedFrame DEF FileInvariant, TypeOK, Abandon, Goto

LEMMA GonePlaced ==
  ASSUME FileInvariant, NEW w \in Writers, Gone(w), placed' = placed
  PROVE  PlacedWhere'
<1>1. \A p \in placed : p.call # 0
  BY DEF FileInvariant, PlacedOK, TypeOK
<1>2. PlacedAt(w)'
  BY <1>1 DEF FileInvariant, TypeOK, Gone, Goto, PlacedAt
<1>3. \A v \in Writers \ {w} :
        pc'[v] = pc[v] /\ call'[v] = call[v] /\ reason'[v] = reason[v]
  BY DEF FileInvariant, TypeOK, Gone, Goto
<1> QED
  BY <1>2, <1>3, PlacedFrame

\* Who got the target's name knows it, until the call is over.
LEMMA PlacedStep == FileInvariant /\ [Next]_vars => PlacedWhere'
<1> SUFFICES ASSUME FileInvariant, [Next]_vars PROVE PlacedWhere'
  OBVIOUS
<1>1. CASE UNCHANGED vars
  BY <1>1 DEF vars, mine, FileInvariant, PlacedWhere, PlacedAt
<1>2. CASE Outsider
  BY <1>2 DEF Outsider, mine, FileInvariant, PlacedWhere, PlacedAt
<1>3. ASSUME NEW w \in Writers, Prepare(w) PROVE PlacedWhere'
  <2>1. \A p \in placed : p.call # calls + 1
    BY DEF FileInvariant, PlacedOK, TypeOK
  <2>2. PlacedAt(w)'
    BY <1>3, <2>1 DEF Prepare, Goto, TypeOK, PlacedAt, FileInvariant
  <2> QED
    <3>1. /\ placed' = placed
          /\ \A v \in Writers \ {w} :
               pc'[v] = pc[v] /\ call'[v] = call[v] /\ reason'[v] = reason[v]
      BY <1>3 DEF Prepare, Goto, TypeOK, FileInvariant
    <3> QED
      BY <2>2, <3>1, PlacedFrame
<1>4. ASSUME NEW w \in Writers, StatParent(w) PROVE PlacedWhere'
  <2>1. CASE parent = "symlink"
    BY <1>4, <2>1, AbandonPlaced DEF StatParent
  <2>2. CASE parent # "symlink"
    <3>1. \/ UNCHANGED <<pc, call, reason>>
          \/ Goto(w, "open") /\ UNCHANGED <<call, reason>>
      BY <1>4, <2>2 DEF StatParent, mine, TypeOK, FileInvariant
    <3>2. PlacedAt(w)'
      BY <1>4, <3>1 DEF StatParent, Goto, TypeOK, PlacedWhere, PlacedAt, FileInvariant
    <3> QED
      BY <1>4, <3>1, <3>2, PlacedFrame DEF StatParent, Goto, TypeOK, FileInvariant
  <2> QED
    BY <2>1, <2>2
<1>5. ASSUME NEW w \in Writers, OpenParent(w) PROVE PlacedWhere'
  <2>1. CASE \E why : Abandon(w, why)
    BY <1>5, <2>1, AbandonPlaced DEF OpenParent, Shared
  <2>2. CASE ~\E why : Abandon(w, why)
    <3>1. PlacedAt(w)'
      BY <1>5, <2>2 DEF OpenParent, Shared, Goto, TypeOK, PlacedWhere, PlacedAt, FileInvariant
    <3> QED
      BY <1>5, <2>2, <3>1, PlacedFrame DEF OpenParent, Shared, Goto, TypeOK, FileInvariant
  <2> QED
    BY <2>1, <2>2
<1>6. ASSUME NEW w \in Writers, CreateTemp(w) PROVE PlacedWhere'
  <2>1. CASE \E why : Abandon(w, why)
    BY <1>6, <2>1, AbandonPlaced DEF CreateTemp, Shared
  <2>2. CASE ~\E why : Abandon(w, why)
    <3>1. PlacedAt(w)'
      BY <1>6, <2>2 DEF CreateTemp, Shared, Goto, TypeOK, PlacedWhere, PlacedAt, FileInvariant
    <3> QED
      BY <1>6, <2>2, <3>1, PlacedFrame DEF CreateTemp, Shared, Goto, TypeOK, FileInvariant
  <2> QED
    BY <2>1, <2>2
<1>7. ASSUME NEW w \in Writers, FillTemp(w) PROVE PlacedWhere'
  <2>1. CASE \E why : Abandon(w, why)
    BY <1>7, <2>1, AbandonPlaced DEF FillTemp
  <2>2. CASE ~\E why : Abandon(w, why)
    <3>1. PlacedAt(w)'
      BY <1>7, <2>2 DEF FillTemp, Goto, TypeOK, PlacedWhere, PlacedAt, FileInvariant
    <3> QED
      BY <1>7, <2>2, <3>1, PlacedFrame DEF FillTemp, Goto, TypeOK, FileInvariant
  <2> QED
    BY <2>1, <2>2
<1>8. ASSUME NEW w \in Writers, Rename(w) PROVE PlacedWhere'
  <2>1. CASE target[fd[w]] = "directory"
    BY <1>8, <2>1, AbandonPlaced DEF Rename
  <2>2. CASE target[fd[w]] # "directory"
    <3>1. PlacedAt(w)'
      <4>1. pc'[w] \in {"readback", "done"} /\ call'[w] = call[w] /\ Placement(w) \in placed'
        BY <1>8, <2>2 DEF Rename, Goto, TypeOK, FileInvariant
      <4> QED
        BY <4>1 DEF PlacedAt, Placement
    <3> QED
      BY <1>8, <2>2, <3>1, PlacedFrame DEF Rename, Goto, TypeOK, FileInvariant
  <2> QED
    BY <2>1, <2>2
<1>9. ASSUME NEW w \in Writers, Link(w) PROVE PlacedWhere'
  <2>1. PlacedAt(w)'
    <3>1. CASE target[fd[w]] = "absent"
      <4>1. pc'[w] = "unlink" /\ call'[w] = call[w] /\ Placement(w) \in placed'
        BY <1>9, <3>1 DEF Link, Goto, TypeOK, FileInvariant
      <4> QED
        BY <4>1 DEF PlacedAt, Placement
    <3>2. CASE target[fd[w]] # "absent"
      BY <1>9, <3>2 DEF Link, Goto, TypeOK, PlacedWhere, PlacedAt, FileInvariant
    <3> QED
      BY <3>1, <3>2
  <2> QED
    BY <1>9, <2>1, PlacedFrame DEF Link, Goto, TypeOK, FileInvariant
<1>10. ASSUME NEW w \in Writers, ExplainTaken(w) PROVE PlacedWhere'
  BY <1>10, AbandonPlaced DEF ExplainTaken, Shared
<1>11. ASSUME NEW w \in Writers, UnlinkTemp(w) PROVE PlacedWhere'
  <2>1. CASE Abandon(w, "adapter_commit_failed")
    BY <1>11, <2>1, AbandonPlaced DEF UnlinkTemp
  <2>2. CASE ~Abandon(w, "adapter_commit_failed")
    <3>1. PlacedAt(w)'
      BY <1>11, <2>2 DEF UnlinkTemp, Goto, TypeOK, PlacedWhere, PlacedAt, FileInvariant
    <3> QED
      BY <1>11, <2>2, <3>1, PlacedFrame DEF UnlinkTemp, Goto, TypeOK, FileInvariant
  <2> QED
    BY <2>1, <2>2
<1>12. ASSUME NEW w \in Writers, ReadBack(w) PROVE PlacedWhere'
  BY <1>12, GonePlaced DEF ReadBack, Tell
<1>13. ASSUME NEW w \in Writers, Done(w) PROVE PlacedWhere'
  BY <1>13, GonePlaced DEF Done, Tell
<1>14. ASSUME NEW w \in Writers, Cleanup(w) PROVE PlacedWhere'
  <2>1. CASE Gone(w)
    BY <1>14, <2>1, GonePlaced DEF Cleanup
  <2>2. CASE ~Gone(w)
    BY <1>14, <2>2 DEF Cleanup, Tell, PlacedWhere, PlacedAt, FileInvariant
  <2> QED
    BY <2>1, <2>2
<1>15. ASSUME NEW w \in Writers, IOError(w) PROVE PlacedWhere'
  BY <1>15, AbandonPlaced DEF IOError
<1>16. ASSUME NEW w \in Writers, Crash(w) PROVE PlacedWhere'
  BY <1>16, GonePlaced DEF Crash
<1> QED
  BY <1>1, <1>2, <1>3, <1>4, <1>5, <1>6, <1>7, <1>8, <1>9, <1>10, <1>11, <1>12,
     <1>13, <1>14, <1>15, <1>16 DEF Next, Step

-----------------------------------------------------------------------------
LEMMA TargetStep ==
  FileInvariant /\ [Next]_vars => CreatedIsThere' /\ TargetWhole' /\ NothingOutside'
<1> SUFFICES ASSUME FileInvariant, Placing
             PROVE  CreatedIsThere' /\ TargetWhole' /\ NothingOutside'
  BY EveryPlacing
<1> USE DEF FileInvariant
<1>1. CASE UNCHANGED <<target, placed, outside>>
  BY <1>1 DEF CreatedIsThere, TargetWhole, NothingOutside
<1>2. CASE /\ outside' = outside + 1 /\ placed' = placed
           /\ \/ target' = target
              \/ \E e \in Others \ {"partial"} : target' = [target EXCEPT !["in"] = e]
  BY <1>2 DEF TypeOK, CreatedIsThere, TargetWhole, NothingOutside
<1>3. ASSUME NEW w \in Writers, pc[w] = "publish",
             target' = [target EXCEPT !["in"] = content[w]]
      PROVE  CreatedIsThere' /\ TargetWhole' /\ NothingOutside'
  <2>1. content[w] \in Contents
    BY <1>3 DEF Held, Holds
  <2> QED
    BY <1>3, <2>1, ContentFacts
       DEF TypeOK, CreatedIsThere, TargetWhole, NothingOutside, Others
<1> QED
  BY <1>1, <1>2, <1>3 DEF Placing

\* A second creation would need the name free, which it is not while nobody
\* outside touches it.
LEMMA CreatorStep == FileInvariant /\ [Next]_vars => OneCreatorWins'
<1> SUFFICES ASSUME FileInvariant, Placing PROVE OneCreatorWins'
  BY EveryPlacing
<1> USE DEF FileInvariant
<1>1. CASE UNCHANGED <<target, placed, outside>>
  BY <1>1 DEF OneCreatorWins
<1>2. CASE outside' = outside + 1
  BY <1>2 DEF TypeOK, OneCreatorWins
<1>3. ASSUME NEW w \in Writers, placed' = placed \cup {Placement(w)}, outside' = outside,
             mode[w] = "create" => target["in"] = "absent"
      PROVE  OneCreatorWins'
  BY <1>3 DEF OneCreatorWins, CreatedIsThere, Placement
<1> QED
  BY <1>1, <1>2, <1>3 DEF Placing

\* What was answered stays true: a number answered gets no placement later.
LEMMA AnswersStep ==
  FileInvariant /\ [Next]_vars => LateRejectionsChangeNothing' /\ CommittedWasPlaced'
<1> SUFFICES ASSUME FileInvariant, Placing, Telling
             PROVE  LateRejectionsChangeNothing' /\ CommittedWasPlaced'
  BY EveryPlacing, EveryTelling
<1> USE DEF FileInvariant
<1>1. placed \subseteq placed'
  BY DEF Placing
<1>2. CASE told' = told
  <2>1. \A p \in placed' : p \in placed \/ \A t \in told : t.call # p.call
    BY DEF Placing, Placement, CallsApart
  <2> QED
    BY <1>1, <1>2, <2>1 DEF LateRejectionsChangeNothing, CommittedWasPlaced
<1>3. ASSUME NEW w \in Writers, NEW o \in Outcomes,
             told' = told \cup {[call |-> call[w], outcome |-> o]},
             o = "committed" => pc[w] \in {"readback", "done"},
             o \in TargetReasons => pc[w] = "cleanup" /\ reason[w] = o,
             placed' = placed
      PROVE  LateRejectionsChangeNothing' /\ CommittedWasPlaced'
  <2>1. o = "committed" => \E p \in placed : p.call = call[w]
    BY <1>3 DEF PlacedWhere, PlacedAt
  <2>2. o \in TargetReasons => \A p \in placed : p.call # call[w]
    BY <1>3 DEF PlacedWhere, PlacedAt, TargetReasons
  <2> QED
    BY <1>3, <2>1, <2>2 DEF LateRejectionsChangeNothing, CommittedWasPlaced
<1> QED
  BY <1>2, <1>3 DEF Telling

\* A temp file is left only by a step that is itself a death or a failing removal.
LEMMA TempsStep == FileInvariant /\ [Next]_vars => TempsRemoved'
<1> SUFFICES ASSUME FileInvariant, [Next]_vars PROVE TempsRemoved'
  OBVIOUS
<1> USE DEF FileInvariant
<1>1. CASE UNCHANGED vars
  BY <1>1 DEF vars, TempsRemoved
<1>2. CASE Outsider
  BY <1>2 DEF Outsider, TempsRemoved
<1>3. ASSUME NEW w \in Writers,
             \/ Prepare(w) \/ StatParent(w) \/ OpenParent(w) \/ CreateTemp(w)
             \/ FillTemp(w) \/ Rename(w) \/ Link(w) \/ ExplainTaken(w)
             \/ UnlinkTemp(w) \/ IOError(w)
      PROVE  TempsRemoved'
  <2>1. UNCHANGED <<litter, excused>>
    BY <1>3 DEF Prepare, StatParent, OpenParent, CreateTemp, FillTemp, Rename, Link,
       ExplainTaken, UnlinkTemp, IOError, Shared
  <2> QED
    BY <2>1 DEF TempsRemoved
<1>4. ASSUME NEW w \in Writers, ReadBack(w) \/ Done(w) PROVE TempsRemoved'
  <2>1. litter' = litter /\ excused' = excused
    BY <1>4 DEF ReadBack, Done, Tell, Gone, Held, Holds
  <2> QED
    BY <2>1 DEF TempsRemoved
<1>5. ASSUME NEW w \in Writers, Cleanup(w) PROVE TempsRemoved'
  <2>1. \/ litter' = litter /\ excused' = excused
        \/ Excuse(w) /\ Gone(w)
    BY <1>5 DEF Cleanup, Tell, Gone
  <2> QED
    BY <2>1 DEF Excuse, Gone, TempsRemoved
<1>6. ASSUME NEW w \in Writers, Crash(w) PROVE TempsRemoved'
  BY <1>6 DEF Crash, Excuse, Gone, TempsRemoved
<1> QED
  BY <1>1, <1>2, <1>3, <1>4, <1>5, <1>6 DEF Next, Step

-----------------------------------------------------------------------------
\* FileInvariant holds for any number of writers, contents, calls, changes from
\* outside and faults.
THEOREM FileSafety == Spec => []FileInvariant
<1>1. FileInvariant /\ [Next]_vars => FileInvariant'
  BY TypeStep, CallsStep, HeldStep, PlacedStep, TargetStep, CreatorStep, AnswersStep,
     TempsStep DEF FileInvariant
<1> QED
  BY FileInit, <1>1, PTL DEF Spec

\* FileWriteAdapter.commit and anchored_atomic_write keep their types.
THEOREM FileTypes == Spec => []TypeOK
<1>1. FileInvariant => TypeOK
  BY DEF FileInvariant
<1> QED
  BY FileSafety, <1>1, PTL

\* However writers, outsiders and faults interleave, _replace_tmp_at and
\* _link_tmp_noreplace_at never show a target that is partly written.
THEOREM WritesAreWhole == Spec => []TargetWhole
<1>1. FileInvariant => TargetWhole
  BY DEF FileInvariant
<1> QED
  BY FileSafety, <1>1, PTL

\* No content is written where a link that an outsider puts in the directory's
\* place leads: the walk is anchored and follows none.
THEOREM WritesStayInside == Spec => []NothingOutside
<1>1. FileInvariant => NothingOutside
  BY DEF FileInvariant
<1> QED
  BY FileSafety, <1>1, PTL

\* Whatever fails on the way, a call of file.write or anchored_atomic_write that
\* ends has removed its temp file, unless it died or the removal itself failed.
THEOREM TempsAreRemoved == Spec => []TempsRemoved
<1>1. FileInvariant => TempsRemoved
  BY DEF FileInvariant
<1> QED
  BY FileSafety, <1>1, PTL

\* Of any number of calls that may not overwrite, all past every check together,
\* one creates the file.
THEOREM OneCallCreates == Spec => []OneCreatorWins
<1>1. FileInvariant => OneCreatorWins
  BY DEF FileInvariant
<1> QED
  BY FileSafety, <1>1, PTL

\* A rejection of file.write for the target's sake comes from a call that placed
\* nothing.
THEOREM RejectionsAreTrue == Spec => []LateRejectionsChangeNothing
<1>1. FileInvariant => LateRejectionsChangeNothing
  BY DEF FileInvariant
<1> QED
  BY FileSafety, <1>1, PTL

\* Who is told "committed" by file.write has put its content in place.
THEOREM CommitsAreTrue == Spec => []CommittedWasPlaced
<1>1. FileInvariant => CommittedWasPlaced
  BY DEF FileInvariant
<1> QED
  BY FileSafety, <1>1, PTL

-----------------------------------------------------------------------------
(* FileAdapter implements AtomicWrite: every action is a stutter but        *)
(* Prepare, which begins a call, Rename and Link, which are its one write,  *)
(* and the ends of a call.                                                  *)

\* What the abstract writer does not see.
LEMMA UnseenStep ==
  ASSUME UNCHANGED <<call, mode, content, target, placed, told>>
  PROVE  UNCHANGED Whole!vars
  BY DEF Whole!vars

\* A writer that is told its outcome ends its call with a true answer.
LEMMA TellIsAnswer ==
  ASSUME FileInvariant, NEW w \in Writers, pc[w] # "idle", NEW o \in Outcomes,
         Tell(w, o), UNCHANGED <<target, placed>>,
         o = "committed" => Whole!HasWritten(w)
                            /\ (mode[w] # "anchored" => target["in"] = content[w]),
         o \in TargetReasons => ~Whole!HasWritten(w)
  PROVE  Whole!Answer(w, o)
<1>1. call[w] # 0
  BY DEF FileInvariant, CallsApart
<1> QED
  BY <1>1 DEF Tell, Gone, Whole!Answer, Whole!InCall, Whole!End

\* The rename and the link put the whole content in place, for a call that had
\* not written yet.
LEMMA PlacingIsWrite ==
  ASSUME FileInvariant, NEW w \in Writers, Rename(w) \/ Link(w),
         placed' # placed
  PROVE  Whole!Write(w)
<1> USE DEF FileInvariant
<1>1. call[w] # 0 /\ ~Whole!HasWritten(w)
  BY DEF Rename, Link, CallsApart, PlacedWhere, PlacedAt, Whole!HasWritten
<1>2. fd[w] = "in" /\ temp[w] = content[w]
  BY DEF Rename, Link, Held, Holds
<1>3. target \in [{"in", "out"} -> Others \cup Contents]
  BY DEF TypeOK
<1>4. /\ target["in"] # "directory"
      /\ mode[w] = "create" => target["in"] = "absent"
  BY <1>2 DEF Rename, Link
<1>5. /\ target'["in"] = content[w]
      /\ placed' = placed \cup {[call |-> call[w], mode |-> mode[w]]}
      /\ UNCHANGED <<call, mode, content, told>>
  BY <1>2, <1>3 DEF Rename, Link, Placement, Abandon
<1> QED
  BY <1>1, <1>4, <1>5 DEF Whole!Write, Whole!InCall

LEMMA AtomicWriteStep ==
  ASSUME FileInvariant, [Next]_vars
  PROVE  [Whole!Next]_(Whole!vars)
<1> USE DEF FileInvariant
<1>1. CASE UNCHANGED vars
  BY <1>1, UnseenStep DEF vars, mine
<1>2. CASE Outsider
  <2>1. UNCHANGED <<call, mode, content, placed, told>>
    BY <1>2 DEF Outsider, mine
  <2>2. \/ target'["in"] \in {"absent", "directory", "symlink", "foreign"}
        \/ UNCHANGED target
    BY <1>2 DEF Outsider, TypeOK
  <2> QED
    BY <2>1, <2>2, UnseenStep DEF Whole!Next, Whole!Outsider
<1>3. ASSUME NEW w \in Writers, Prepare(w) PROVE Whole!Begin(w)
  <2>1. calls \in Nat /\ calls + 1 \in 1..MaxCalls
    BY <1>3, FileAssumption DEF Prepare, TypeOK
  <2>2. call[w] = 0
    BY <1>3 DEF Prepare, CallsApart
  <2>3. \A v \in Writers : call[v] # calls + 1
    BY <2>1 DEF TypeOK
  <2>4. \A a \in placed \cup told : a.call # calls + 1
    BY <2>1 DEF TypeOK, PlacedOK
  <2>5. PICK m \in {"create", "overwrite", "anchored"}, c \in Contents :
          mode' = [mode EXCEPT ![w] = m] /\ content' = [content EXCEPT ![w] = c]
    BY <1>3 DEF Prepare
  <2>6. call' = [call EXCEPT ![w] = calls + 1] /\ UNCHANGED <<target, placed, told>>
    BY <1>3 DEF Prepare
  <2> QED
    BY <2>1, <2>2, <2>3, <2>4, <2>5, <2>6 DEF Whole!Begin, Whole!InCall
<1>4. ASSUME NEW w \in Writers,
             \/ StatParent(w) \/ OpenParent(w) \/ CreateTemp(w) \/ FillTemp(w)
             \/ ExplainTaken(w) \/ UnlinkTemp(w) \/ IOError(w)
      PROVE  UNCHANGED <<call, mode, content, target, placed, told>>
  <2>1. CASE StatParent(w)
    <3>1. parent \in {"absent", "directory", "symlink"}
      BY DEF TypeOK
    <3> QED
      BY <2>1, <3>1 DEF StatParent, Abandon, mine
  <2>2. CASE ~StatParent(w)
    BY <1>4, <2>2 DEF OpenParent, CreateTemp, FillTemp, ExplainTaken, UnlinkTemp,
       IOError, Abandon, Shared
  <2> QED
    BY <2>1, <2>2
<1>5. ASSUME NEW w \in Writers, Rename(w) \/ Link(w), placed' = placed
      PROVE  UNCHANGED <<call, mode, content, target, placed, told>>
  <2>1. ~Whole!HasWritten(w)
    BY <1>5 DEF Rename, Link, PlacedWhere, PlacedAt, Whole!HasWritten
  <2>2. Placement(w) \notin placed
    BY <2>1 DEF Placement, Whole!HasWritten
  <2> QED
    BY <1>5, <2>2 DEF Rename, Link, Abandon
<1>6. ASSUME NEW w \in Writers, ReadBack(w) \/ Done(w)
      PROVE  \E o \in Outcomes : Whole!Answer(w, o)
  <2>1. fd[w] = "in" \/ pc[w] = "done"
    BY <1>6 DEF ReadBack, Done, Held, Holds
  <2>2. pc[w] # "idle" /\ Whole!HasWritten(w)
    BY <1>6 DEF ReadBack, Done, PlacedWhere, PlacedAt, Whole!HasWritten
  <2>3. PICK o \in {"committed", "verification_read_failed",
                    "verification_failed_post_commit"} :
          Tell(w, o) /\ (o = "committed" => pc[w] = "done" \/ target["in"] = content[w])
    BY <1>6, <2>1 DEF ReadBack, Done
  <2>4. pc[w] = "done" => mode[w] = "anchored"
    BY <1>6 DEF Held, Holds
  <2>5. UNCHANGED <<target, placed>>
    BY <1>6 DEF ReadBack, Done
  <2>6. o \in Outcomes \ TargetReasons
    BY DEF Outcomes, TargetReasons
  <2> QED
    BY <2>2, <2>3, <2>4, <2>5, <2>6, TellIsAnswer
<1>7. ASSUME NEW w \in Writers, Cleanup(w)
      PROVE  \/ UNCHANGED <<call, mode, content, target, placed, told>>
             \/ \E o \in Outcomes : Whole!Answer(w, o)
  <2>1. pc[w] = "cleanup" /\ UNCHANGED <<target, placed>>
    BY <1>7 DEF Cleanup
  <2>2. reason[w] \in Outcomes \ {"committed"}
    BY <2>1 DEF Held, Holds
  <2>3. reason[w] \in TargetReasons => ~Whole!HasWritten(w)
    BY <2>1 DEF PlacedWhere, PlacedAt, TargetReasons, Whole!HasWritten
  <2>4. \/ Tell(w, reason[w])
        \/ UNCHANGED <<call, mode, content, told>>
    BY <1>7 DEF Cleanup
  <2> QED
    BY <2>1, <2>2, <2>3, <2>4, TellIsAnswer
<1>8. ASSUME NEW w \in Writers, Crash(w) PROVE Whole!Die(w)
  <2>1. call[w] # 0
    BY <1>8 DEF Crash, CallsApart
  <2> QED
    BY <1>8, <2>1 DEF Crash, Gone, Whole!Die, Whole!InCall, Whole!End
<1> QED
  BY <1>1, <1>2, <1>3, <1>4, <1>5, <1>6, <1>7, <1>8, PlacingIsWrite, UnseenStep
     DEF Next, Step, Whole!Next

\* FileWriteAdapter.commit and anchored_atomic_write, with all the steps they
\* take on disk, write the whole content at once or nothing, and say which.
THEOREM FileImplementsAtomicWrite == Spec => ImplementsAtomicWrite
<1>1. Init => Whole!Init
  BY DEF Init, Whole!Init
<1> QED
  BY <1>1, FileSafety, AtomicWriteStep, PTL DEF Spec, ImplementsAtomicWrite, Whole!Spec
=============================================================================
