--------------------------- MODULE RunBundleProofs ---------------------------
(***************************************************************************)
(* Whoever shares a run bundle, edits it or dies over it: the network is   *)
(* used as NetworkAdapter says, only for what was approved, and effect.json *)
(* does not claim what did not happen.                                     *)
(***************************************************************************)
EXTENDS RunBundle, NetworkAdapterProofs, OperatorProofs

Fields == {"at", "command", "overwrite", "run", "scope", "proposal", "approval",
           "effect", "alone"}

\* Where a command is before it may send anything, and until it is done with that.
Before == {"review", "open_approval", "fill_approval", "inputs", "approval",
           "evaluate", "gate"}

Busy == Before \cup {"commit"}

NothingSent(run) == (\A w \in wire : w.id # run) /\ (\A s \in store : s.id # run)

\* What was decided lets this intent be performed, here, under this scope.
Allowed(scope, intent) ==
  /\ intent.custody_mode # "record_only"
  /\ Kind \in scope.approval_required_for =>
       \E a \in placed : /\ ApprovalIsCanonical(a)
                         /\ Clears(scope, intent, Kind, ApprovalFromRecord(a), FALSE, Now)

IsKept(id, target) ==
  \E w \in wire : /\ w.id = id /\ w.intent.target = target
                  /\ \E s \in store : s.target = target

EffectIsTrue(effect) ==
  /\ effect.state = "committed" => \E target : IsKept(effect.run, target)
  /\ effect.state # "committed" /\ effect.reason \notin CommitReasons =>
       \A w \in wire : w.id # effect.run

\* One command: what it knows, what the adapter does for it, what it may do next.
InAdapter(f) ==
  phase[f] # "idle" =>
    /\ job[f].at \in {"gate", "commit"}
    /\ fetch[f].id = job[f].run
    /\ fetch[f].scope = job[f].scope
    /\ fetch[f].intent = job[f].proposal.intent

HasRead(f) ==
  /\ job[f].at \in {"approval", "evaluate", "gate", "commit"} =>
       job[f].scope \in NetScopes /\ job[f].proposal.intent \in NetIntents \cup {Unset}
  /\ job[f].at \in {"open_approval", "fill_approval"} => ExpiryIsKnown(job[f].approval)
  /\ job[f].at \in {"inputs", "approval"} => job[f].approval = Unset
  /\ job[f].at \in {"evaluate", "gate", "commit"} =>
       \/ job[f].approval = Unset
       \/ \E a \in placed : ApprovalIsCanonical(a) /\ job[f].approval = ApprovalFromRecord(a)

Commits(f) ==
  /\ job[f].at = "commit" => Allowed(job[f].scope, job[f].proposal.intent)
  /\ job[f].at = "commit" /\ phase[f] = "failed" => reason[f] \in CommitReasons \cup {"raises"}
  /\ phase[f] = "done" => IsKept(fetch[f].id, fetch[f].intent.target)
  /\ job[f].at \in {"check_effect", "open_effect", "fill_effect"} =>
       job[f].effect.run = job[f].run /\ EffectIsTrue(job[f].effect)

JobIsSound(f) ==
  /\ job[f].at \in Places
  /\ At(f, "idle") => job[f] = NoJob
  /\ ~At(f, "idle") => job[f].run \in 1..commands
  /\ job[f].at \in Before => NothingSent(job[f].run)
  /\ InAdapter(f) /\ HasRead(f) /\ Commits(f)

\* All commands, and the directory they share.
JobShape == DOMAIN job = Fetchers /\ \A f \in Fetchers : DOMAIN job[f] = Fields

RunsApart ==
  \A f, g \in Fetchers : ~At(f, "idle") /\ ~At(g, "idle") /\ job[f].run = job[g].run => f = g

Counted == /\ commands \in 0..MaxCommands /\ accidents \in 0..MaxAccidents
           /\ \A w \in wire : w.id \in 1..commands
           /\ \A s \in store : s.id \in 1..commands

InputsAreKnown ==
  /\ scopeFile \in ScopeRecords /\ proposalFile \in ProposalRecords
  /\ approvalFile \notin NotWhole => approvalFile \in placed
  /\ \A a \in placed : ExpiryIsKnown(a)

EffectFileIsTrue ==
  effectFile \notin NotWhole =>
    /\ effectFile.run \in 0..commands
    /\ EffectIsTrue(effectFile)
    /\ \A f \in Fetchers : job[f].at \in Busy => job[f].run # effectFile.run

WireIsAllowed == \A w \in wire : Allowed(w.scope, w.intent)

BundleInvariant ==
  /\ NetInvariant /\ JobShape /\ RunsApart /\ Counted /\ InputsAreKnown
  /\ EffectFileIsTrue /\ WireIsAllowed
  /\ \A f \in Fetchers : JobIsSound(f)

-----------------------------------------------------------------------------
\* As a person reads it, so the runtime lowers it: a fetch that scope.json wants
\* to be asked about, in either form, is one an approval is required for.
THEOREM AskedIsEnrolled ==
  ASSUME NEW s, AsksFirst(s)
  PROVE  Kind \in ScopeFromRecord(s, DefaultMaxBytes).approval_required_for
<1>1. Kind \in Enrolled(s)
  <2>1. CASE s.approval_required_for \notin Missing /\ Kind \in s.approval_required_for
    BY <2>1 DEF Enrolled, NamesIn
  <2>2. CASE s.approvals \notin Missing /\ \E c \in s.approvals : Kind \in c
    BY <2>2 DEF Enrolled, NamesIn
  <2> QED
    BY <2>1, <2>2 DEF AsksFirst
<1> QED
  BY <1>1 DEF ScopeFromRecord

LEMMA InvariantAnswers ==
  BundleInvariant => /\ ConnectsToChecked /\ StoredWithinScope
                     /\ RequestsApproved /\ EvidenceIsTrue
<1> SUFFICES ASSUME BundleInvariant
             PROVE  /\ ConnectsToChecked /\ StoredWithinScope
                    /\ RequestsApproved /\ EvidenceIsTrue
  OBVIOUS
<1>1. ConnectsToChecked /\ StoredWithinScope
  BY DEF BundleInvariant, NetInvariant
<1>2. RequestsApproved
  BY AskedIsEnrolled DEF BundleInvariant, WireIsAllowed, Allowed, RequestsApproved
<1>3. EvidenceIsTrue
  BY DEF BundleInvariant, EffectFileIsTrue, EffectIsTrue, IsKept, EvidenceIsTrue
<1> QED
  BY <1>1, <1>2, <1>3

LEMMA NoJobIs ==
  /\ NoJob.at = "idle" /\ NoJob.run = 0 /\ NoJob.approval = Unset /\ DOMAIN NoJob = Fields
  BY DEF NoJob, Fields

LEMMA InvariantTypes == BundleInvariant => TypeOK
<1> SUFFICES ASSUME BundleInvariant PROVE TypeOK
  OBVIOUS
<1>1. ASSUME NEW f \in Fetchers
      PROVE  /\ job[f].at \in Places
             /\ job[f].run \in 0..commands
             /\ At(f, "idle") <=> job[f] = NoJob
             /\ phase[f] # "idle" => /\ job[f].at \in {"gate", "commit"}
                                     /\ fetch[f].id = job[f].run
  <2>1. JobIsSound(f) /\ commands \in Nat
    BY DEF BundleInvariant, Counted
  <2>2. At(f, "idle") <=> job[f] = NoJob
    BY <2>1, NoJobIs DEF JobIsSound, At
  <2>3. job[f].run \in 0..commands
    BY <2>1, <2>2, NoJobIs DEF JobIsSound
  <2> QED
    BY <2>1, <2>2, <2>3 DEF JobIsSound, InAdapter
<1>2. \A f, g \in Fetchers : ~At(f, "idle") /\ job[f].run = job[g].run => f = g
  <2> SUFFICES ASSUME NEW f \in Fetchers, NEW g \in Fetchers, ~At(f, "idle"),
                      job[f].run = job[g].run
               PROVE  f = g
    OBVIOUS
  <2>1. job[f].run \in 1..commands /\ commands \in Nat
    BY DEF BundleInvariant, JobIsSound, Counted
  <2>2. ~At(g, "idle")
    BY <2>1, NoJobIs DEF BundleInvariant, JobIsSound
  <2> QED
    BY <2>2 DEF BundleInvariant, RunsApart
<1>3. /\ approvalFile \notin NotWhole => approvalFile \in placed
      /\ effectFile \notin NotWhole => effectFile.run \in 0..commands
      /\ commands \in 0..MaxCommands /\ accidents \in 0..MaxAccidents
  BY DEF BundleInvariant, InputsAreKnown, EffectFileIsTrue, Counted
<1> QED
  BY <1>1, <1>2, <1>3 DEF TypeOK

-----------------------------------------------------------------------------
(* What a step of one command may do to the others, and why they stay sound. *)

SameJob(g) ==
  /\ job'[g].at = job[g].at /\ job'[g].run = job[g].run /\ job'[g].scope = job[g].scope
  /\ job'[g].proposal = job[g].proposal /\ job'[g].approval = job[g].approval
  /\ job'[g].effect = job[g].effect /\ (job[g] = NoJob => job'[g] = NoJob)
  /\ phase'[g] = phase[g] /\ fetch'[g] = fetch[g] /\ reason'[g] = reason[g]

\* What is sent and kept in a step has one number, everything else remains.
Adds(run) ==
  /\ wire \subseteq wire' /\ \A w \in wire' \ wire : w.id = run
  /\ \A s \in store : \E t \in store' : t.target = s.target
  /\ \A s \in store' \ store : s.id = run
  /\ placed \subseteq placed'
  /\ commands' \in Nat /\ commands <= commands'

LEMMA AllowedStays ==
  ASSUME placed \subseteq placed', NEW scope, NEW intent, Allowed(scope, intent)
  PROVE  Allowed(scope, intent)'
  BY DEF Allowed, Clears, BoundTo, IntentSha256, ApprovalIsCanonical, ApprovalFromRecord,
         Unwrapped, StringOrUnset, OrUnset, Missing, Kind

LEMMA KeptStays ==
  ASSUME NEW run, Adds(run), NEW id, NEW target, IsKept(id, target)
  PROVE  IsKept(id, target)'
  BY DEF Adds, IsKept

LEMMA EffectStays ==
  ASSUME NEW run, Adds(run), NEW effect, EffectIsTrue(effect), effect.run # run
  PROVE  EffectIsTrue(effect)'
<1>1. effect.state = "committed" => \E target : IsKept(effect.run, target)'
  BY KeptStays DEF EffectIsTrue
<1>2. effect.state # "committed" /\ effect.reason \notin CommitReasons =>
        \A w \in wire' : w.id # effect.run
  BY DEF EffectIsTrue, Adds
<1> QED
  BY <1>1, <1>2 DEF EffectIsTrue, CommitReasons

LEMMA OthersSound ==
  ASSUME NEW run, Adds(run), NEW g \in Fetchers, JobIsSound(g), SameJob(g), commands \in Nat,
         ~At(g, "idle") => job[g].run # run
  PROVE  JobIsSound(g)'
<1> USE DEF SameJob
<1>1. CASE At(g, "idle")
  <2>1. job[g] = NoJob /\ job'[g] = NoJob /\ job'[g].at = "idle"
    BY <1>1, NoJobIs DEF JobIsSound
  <2>2. phase[g] = "idle" /\ phase'[g] = "idle"
    BY <1>1 DEF JobIsSound, InAdapter, At
  <2> QED
    BY <2>1, <2>2 DEF JobIsSound, InAdapter, HasRead, Commits, At, Places, Before
<1>2. CASE ~At(g, "idle")
  <2>1. job[g].run # run
    BY <1>2
  <2>2. job'[g].at \in Places /\ ~At(g, "idle")' /\ job'[g].run \in 1..commands'
    BY <1>2 DEF JobIsSound, At, Places, Adds
  <2>3. (job[g].at \in Before => NothingSent(job[g].run))'
    BY <2>1 DEF JobIsSound, NothingSent, Adds, Before
  <2>4. InAdapter(g)'
    BY DEF JobIsSound, InAdapter
  <2>5. HasRead(g)'
    BY DEF JobIsSound, HasRead, Adds, ExpiryIsKnown, ApprovalIsCanonical, ApprovalFromRecord
  <2>6. (job[g].at = "commit" => Allowed(job[g].scope, job[g].proposal.intent))'
    BY AllowedStays DEF JobIsSound, Commits, Adds
  <2>7. (phase[g] = "done" => IsKept(fetch[g].id, fetch[g].intent.target))'
    BY KeptStays DEF JobIsSound, Commits
  <2>8. (job[g].at \in {"check_effect", "open_effect", "fill_effect"} =>
           job[g].effect.run = job[g].run /\ EffectIsTrue(job[g].effect))'
    BY <2>1, EffectStays DEF JobIsSound, Commits
  <2>9. Commits(g)'
    BY <2>6, <2>7, <2>8 DEF JobIsSound, Commits, CommitReasons
  <2> QED
    BY <2>2, <2>3, <2>4, <2>5, <2>9 DEF JobIsSound
<1> QED
  BY <1>1, <1>2

\* Only the command of f has moved.
Moves(f) == JobShape' /\ \A g \in Fetchers \ {f} : job'[g] = job[g]

\* f, which is running, stays in its run or leaves, and does not go back.
GoesOn(f) ==
  /\ ~At(f, "idle")
  /\ job'[f].at = "idle" \/ job'[f].run = job[f].run
  /\ job'[f].at \in Busy => job[f].at \in Busy

\* effect.json is emptied, garbled, or filled with what the command has to report.
Writes(f) ==
  \/ effectFile' \in {effectFile} \cup NotWhole
  \/ job[f].at = "fill_effect" /\ effectFile' = job[f].effect

LEMMA StepKeeps ==
  ASSUME BundleInvariant, NEW f \in Fetchers, GoesOn(f), JobShape',
         \A g \in Fetchers \ {f} : SameJob(g),
         Adds(job[f].run), commands' = commands, accidents' \in 0..MaxAccidents,
         UNCHANGED <<wire, store>> \/ job[f].at \in Busy,
         Writes(f), NetInvariant', InputsAreKnown', WireIsAllowed', JobIsSound(f)'
  PROVE  BundleInvariant'
<1>1. job[f].run \in 1..commands /\ commands \in Nat
  BY DEF BundleInvariant, JobIsSound, GoesOn, Counted
<1>2. ASSUME NEW g \in Fetchers \ {f} PROVE JobIsSound(g)'
  <2>1. ~At(g, "idle") => job[g].run # job[f].run
    BY DEF BundleInvariant, RunsApart, GoesOn
  <2> QED
    BY <1>1, <2>1, OthersSound DEF BundleInvariant
<1>3. RunsApart'
  <2>1. ASSUME NEW g \in Fetchers, ~At(g, "idle")'
        PROVE  ~At(g, "idle") /\ job'[g].run = job[g].run
    BY <2>1 DEF SameJob, GoesOn, At
  <2> QED
    BY <2>1 DEF BundleInvariant, RunsApart
<1>4. Counted'
  BY <1>1 DEF BundleInvariant, Counted, Adds
<1>5. ASSUME effectFile' = effectFile, effectFile \notin NotWhole
      PROVE  EffectFileIsTrue'
  <2>1. EffectIsTrue(effectFile)'
    <3>1. CASE UNCHANGED <<wire, store>>
      BY <1>5, <3>1 DEF BundleInvariant, EffectFileIsTrue, EffectIsTrue, IsKept, CommitReasons
    <3>2. CASE job[f].at \in Busy
      BY <1>5, <3>2, EffectStays DEF BundleInvariant, EffectFileIsTrue
    <3> QED
      BY <3>1, <3>2
  <2>2. ASSUME NEW g \in Fetchers, job'[g].at \in Busy PROVE job'[g].run # effectFile.run
    <3>1. job[g].at \in Busy /\ job'[g].run = job[g].run
      BY <2>2 DEF SameJob, GoesOn, Busy, Before
    <3> QED
      BY <1>5, <3>1 DEF BundleInvariant, EffectFileIsTrue
  <2> QED
    BY <1>5, <2>1, <2>2 DEF BundleInvariant, EffectFileIsTrue, Busy, Before, NotWhole
<1>6. ASSUME job[f].at = "fill_effect", effectFile' = job[f].effect
      PROVE  EffectFileIsTrue'
  <2>1. EffectIsTrue(job[f].effect) /\ job[f].effect.run = job[f].run
    BY <1>6 DEF BundleInvariant, JobIsSound, Commits
  <2>2. UNCHANGED <<wire, store>>
    BY <1>6 DEF Busy, Before
  <2>3. EffectIsTrue(effectFile)'
    BY <1>6, <2>1, <2>2 DEF EffectIsTrue, IsKept, CommitReasons
  <2>4. ASSUME NEW g \in Fetchers, job'[g].at \in Busy PROVE job'[g].run # job[f].run
    <3>1. g # f /\ ~At(g, "idle") /\ job'[g].run = job[g].run
      BY <1>6, <2>4 DEF SameJob, GoesOn, Busy, Before, At
    <3> QED
      BY <3>1 DEF BundleInvariant, RunsApart, GoesOn
  <2> QED
    BY <1>1, <1>6, <2>1, <2>3, <2>4 DEF EffectFileIsTrue, Busy, Before, NotWhole
<1>7. ASSUME effectFile' \in NotWhole PROVE EffectFileIsTrue'
  BY <1>7 DEF EffectFileIsTrue, NotWhole
<1>8. EffectFileIsTrue'
  BY <1>5, <1>6, <1>7 DEF Writes, NotWhole
<1> QED
  BY <1>2, <1>3, <1>4, <1>8 DEF BundleInvariant

LEMMA MovesOnly ==
  ASSUME NEW f \in Fetchers, Moves(f), UNCHANGED netVars
  PROVE  \A g \in Fetchers \ {f} : SameJob(g)
  BY DEF Moves, SameJob, netVars

LEMMA QuietKeeps ==
  ASSUME BundleInvariant, NEW f \in Fetchers, GoesOn(f), Moves(f), JobIsSound(f)',
         UNCHANGED <<commands, accidents, netVars>>, placed \subseteq placed',
         Writes(f), InputsAreKnown'
  PROVE  BundleInvariant'
<1>1. NetInvariant'
  BY NetStepKeeps DEF BundleInvariant
<1>2. commands \in Nat /\ accidents' \in 0..MaxAccidents
  BY DEF BundleInvariant, Counted
<1>3. Adds(job[f].run)
  BY <1>2 DEF Adds, netVars
<1>4. WireIsAllowed'
  BY AllowedStays DEF BundleInvariant, WireIsAllowed, netVars
<1> QED
  BY <1>1, <1>2, <1>3, <1>4, MovesOnly, StepKeeps DEF Moves, netVars

LEMMA Ends ==
  ASSUME JobShape, NEW f \in Fetchers, End(f), phase'[f] = "idle"
  PROVE  Moves(f) /\ JobIsSound(f)' /\ job'[f].at = "idle"
<1>1. /\ DOMAIN job' = Fetchers /\ job'[f] = NoJob
      /\ \A g \in Fetchers \ {f} : job'[g] = job[g]
  BY DEF End, JobShape
<1>2. Moves(f)
  BY <1>1, NoJobIs DEF Moves, JobShape
<1>3. JobIsSound(f)'
  BY <1>1, NoJobIs DEF JobIsSound, At, Places, Before, InAdapter, HasRead, Commits
<1> QED
  BY <1>1, <1>2, <1>3, NoJobIs

LEMMA GoesTo ==
  ASSUME JobShape, NEW f \in Fetchers, NEW p, Goto(f, p)
  PROVE  /\ Moves(f) /\ job'[f].at = p /\ job'[f].run = job[f].run
         /\ job'[f].scope = job[f].scope /\ job'[f].proposal = job[f].proposal
         /\ job'[f].approval = job[f].approval /\ job'[f].effect = job[f].effect
         /\ job'[f].command = job[f].command /\ job'[f].overwrite = job[f].overwrite
         /\ job'[f].alone = job[f].alone
<1>1. DOMAIN job' = Fetchers /\ \A g \in Fetchers \ {f} : job'[g] = job[g]
  BY DEF Goto, JobShape
<1>2. job'[f] = [job[f] EXCEPT !.at = p] /\ DOMAIN job[f] = Fields
  BY DEF Goto, JobShape
<1>3. DOMAIN job'[f] = Fields
  BY <1>2
<1>4. /\ job'[f].at = p /\ job'[f].run = job[f].run
      /\ job'[f].scope = job[f].scope /\ job'[f].proposal = job[f].proposal
      /\ job'[f].approval = job[f].approval /\ job'[f].effect = job[f].effect
      /\ job'[f].command = job[f].command /\ job'[f].overwrite = job[f].overwrite
      /\ job'[f].alone = job[f].alone
  BY <1>2 DEF Fields
<1> QED
  BY <1>1, <1>3, <1>4 DEF Moves, JobShape

\* Out of the adapter nothing of it concerns a command.
LEMMA OutOfAdapter ==
  ASSUME BundleInvariant, NEW f \in Fetchers, job[f].at \notin {"gate", "commit"}
  PROVE  phase[f] = "idle"
  BY DEF BundleInvariant, JobIsSound, InAdapter

LEMMA LeaveAtOnce ==
  ASSUME BundleInvariant, NEW f \in Fetchers, ~At(f, "idle"), End(f),
         job[f].at \notin {"gate", "commit"},
         UNCHANGED <<commands, accidents, netVars, placed>>,
         InputsAreKnown', effectFile' \in {effectFile} \cup NotWhole
  PROVE  BundleInvariant'
<1>1. phase'[f] = "idle"
  BY OutOfAdapter DEF netVars
<1>2. Moves(f) /\ JobIsSound(f)' /\ job'[f].at = "idle"
  BY <1>1, Ends DEF BundleInvariant
<1>3. GoesOn(f)
  BY <1>2 DEF GoesOn, Busy, Before
<1> QED
  BY <1>2, <1>3, QuietKeeps DEF Writes

LEMMA WalkAwayKeeps ==
  ASSUME BundleInvariant, NEW f \in Fetchers, WalkAway(f)
  PROVE  BundleInvariant'
<1>1. InputsAreKnown'
  BY DEF BundleInvariant, WalkAway, InputsAreKnown, files, NotWhole, ExpiryIsKnown,
         ApprovalIsCanonical, ApprovalFromRecord
<1> QED
  BY <1>1, LeaveAtOnce DEF WalkAway, At, files, counters

\* Neither the inputs nor the decisions change.
LEMMA InputsStay ==
  ASSUME BundleInvariant, UNCHANGED <<scopeFile, proposalFile, approvalFile, placed>>
  PROVE  InputsAreKnown'
  BY DEF BundleInvariant, InputsAreKnown, NotWhole, ExpiryIsKnown, ApprovalIsCanonical,
         ApprovalFromRecord

LEMMA DecisionIsKnown ==
  ASSUME NEW status PROVE ExpiryIsKnown(DecisionRecord(status))
<1> DEFINE d == Decision(status, ReadScope, ReadProposal.intent, Unset)
           r == DecisionRecord(status)
<1>1. /\ DOMAIN d = {"status", "scope_id", "intent_id", "intent_sha256", "expires_at"}
      /\ d.expires_at = Unset
  BY DEF Decision
<1>2. r = [field \in DOMAIN d \cup {"authority"} |->
             IF field = "authority" THEN "performer" ELSE d[field]]
  BY DEF DecisionRecord, MakeApprovalDecision
<1> HIDE DEF d, r
<1>3. DOMAIN r = DOMAIN d \cup {"authority"}
  BY <1>2
<1>4. r.expires_at = d.expires_at
  BY <1>1, <1>2
<1>5. Unwrapped(r) = r
  BY <1>1, <1>3 DEF Unwrapped
<1>6. ApprovalFromRecord(r).expires_at = Unset
  BY <1>1, <1>4, <1>5, RecordAssumption DEF ApprovalFromRecord, StringOrUnset, OrUnset
<1> QED
  BY <1>6 DEF ExpiryIsKnown, r

LEMMA DecideKeeps ==
  ASSUME BundleInvariant, NEW f \in Fetchers, Decide(f)
  PROVE  BundleInvariant'
<1>1. /\ job[f].at = "review" /\ ~At(f, "idle") /\ JobShape
      /\ UNCHANGED <<scopeFile, proposalFile, approvalFile, effectFile, placed>>
      /\ UNCHANGED <<commands, accidents, netVars>>
  BY DEF Decide, At, files, counters, BundleInvariant
<1>2. InputsAreKnown'
  BY <1>1, InputsStay
<1>3. CASE End(f)
  BY <1>1, <1>2, <1>3, LeaveAtOnce
<1>4. CASE \E command \in {"approve", "deny"} :
             job' = [job EXCEPT
                       ![f].at = "open_approval", ![f].command = command,
                       ![f].approval = DecisionRecord(IF command = "approve"
                                                      THEN "approved" ELSE "denied")]
  <2>1. PICK command, status :
          job' = [job EXCEPT ![f].at = "open_approval", ![f].command = command,
                             ![f].approval = DecisionRecord(status)]
    BY <1>4
  <2> DEFINE decision == DecisionRecord(status)
  <2>2. ExpiryIsKnown(decision)
    BY DecisionIsKnown
  <2> HIDE DEF decision
  <2>3. DOMAIN job' = Fetchers /\ \A g \in Fetchers \ {f} : job'[g] = job[g]
    BY <1>1, <2>1 DEF JobShape
  <2>4. /\ job'[f] = [job[f] EXCEPT !.at = "open_approval", !.command = command,
                                    !.approval = decision]
        /\ DOMAIN job[f] = Fields
    BY <1>1, <2>1 DEF JobShape, decision
  <2>5. DOMAIN job'[f] = Fields
    BY <2>4
  <2>6. /\ job'[f].at = "open_approval" /\ job'[f].run = job[f].run
        /\ job'[f].approval = decision
    BY <2>4 DEF Fields
  <2>7. Moves(f) /\ GoesOn(f)
    BY <1>1, <2>3, <2>5, <2>6 DEF Moves, GoesOn, JobShape, Busy, Before
  <2>8. phase[f] = "idle"
    BY <1>1, OutOfAdapter
  <2>9. ExpiryIsKnown(job'[f].approval)
    BY <2>2, <2>6
  <2>10. JobIsSound(f)'
    BY <1>1, <2>6, <2>8, <2>9
       DEF BundleInvariant, JobIsSound, At, Places, Before, NothingSent, InAdapter, HasRead,
           Commits, netVars, ExpiryIsKnown, ApprovalIsCanonical, ApprovalFromRecord
  <2> QED
    BY <1>1, <1>2, <2>7, <2>10, QuietKeeps DEF Writes
<1> QED
  BY <1>3, <1>4 DEF Decide

LEMMA OpenApprovalKeeps ==
  ASSUME BundleInvariant, NEW f \in Fetchers, OpenApproval(f)
  PROVE  BundleInvariant'
<1>1. /\ job[f].at = "open_approval" /\ ~At(f, "idle") /\ JobShape
      /\ UNCHANGED <<scopeFile, proposalFile, effectFile, placed>>
      /\ approvalFile' = Empty
      /\ UNCHANGED <<commands, accidents, netVars>>
  BY DEF OpenApproval, At, counters, BundleInvariant
<1>2. InputsAreKnown'
  BY <1>1 DEF BundleInvariant, InputsAreKnown, NotWhole, ExpiryIsKnown, ApprovalIsCanonical,
              ApprovalFromRecord
<1>3. /\ Moves(f) /\ job'[f].at = "fill_approval" /\ job'[f].run = job[f].run
      /\ job'[f].approval = job[f].approval
  BY <1>1, GoesTo DEF OpenApproval
<1>4. phase[f] = "idle"
  BY <1>1, OutOfAdapter
<1>5. JobIsSound(f)'
  BY <1>1, <1>3, <1>4
     DEF BundleInvariant, JobIsSound, At, Places, Before, NothingSent, InAdapter, HasRead,
         Commits, netVars, ExpiryIsKnown, ApprovalIsCanonical, ApprovalFromRecord
<1>6. GoesOn(f)
  BY <1>1, <1>3 DEF GoesOn, Busy, Before
<1> QED
  BY <1>1, <1>2, <1>3, <1>5, <1>6, QuietKeeps DEF Writes

LEMMA FillApprovalKeeps ==
  ASSUME BundleInvariant, NEW f \in Fetchers, FillApproval(f)
  PROVE  BundleInvariant'
<1>1. /\ job[f].at = "fill_approval" /\ ~At(f, "idle") /\ JobShape
      /\ UNCHANGED <<scopeFile, proposalFile, effectFile>>
      /\ placed' = placed \cup {job[f].approval}
      /\ approvalFile' \in {job[f].approval, Garbled}
      /\ UNCHANGED <<commands, accidents, netVars>>
  BY DEF FillApproval, Filled, At, counters, BundleInvariant
<1>2. InputsAreKnown'
  <2>1. ExpiryIsKnown(job[f].approval)
    BY <1>1 DEF BundleInvariant, JobIsSound, HasRead
  <2>2. \A a \in placed' : ExpiryIsKnown(a)
    BY <1>1, <2>1 DEF BundleInvariant, InputsAreKnown
  <2>3. approvalFile' \notin NotWhole => approvalFile' \in placed'
    BY <1>1 DEF NotWhole
  <2> QED
    BY <1>1, <2>2, <2>3 DEF BundleInvariant, InputsAreKnown, NotWhole, ExpiryIsKnown,
                            ApprovalIsCanonical, ApprovalFromRecord
<1>3. DOMAIN job' = Fetchers /\ \A g \in Fetchers \ {f} : job'[g] = job[g]
  BY <1>1 DEF FillApproval, JobShape
<1>4. /\ job'[f] = [job[f] EXCEPT !.at = "inputs", !.overwrite = TRUE, !.approval = Unset]
      /\ DOMAIN job[f] = Fields
  BY <1>1 DEF FillApproval, JobShape
<1>5. DOMAIN job'[f] = Fields
  BY <1>4
<1>6. job'[f].at = "inputs" /\ job'[f].run = job[f].run /\ job'[f].approval = Unset
  BY <1>4 DEF Fields
<1>7. Moves(f) /\ GoesOn(f)
  BY <1>1, <1>3, <1>5, <1>6 DEF Moves, GoesOn, JobShape, Busy, Before
<1>8. phase[f] = "idle"
  BY <1>1, OutOfAdapter
<1>9. JobIsSound(f)'
  BY <1>1, <1>6, <1>8
     DEF BundleInvariant, JobIsSound, At, Places, Before, NothingSent, InAdapter, HasRead,
         Commits, netVars
<1> QED
  BY <1>1, <1>2, <1>7, <1>9, QuietKeeps DEF Writes

LEMMA ReadInputsKeeps ==
  ASSUME BundleInvariant, NEW f \in Fetchers, ReadInputs(f)
  PROVE  BundleInvariant'
<1>1. /\ job[f].at = "inputs" /\ ~At(f, "idle") /\ JobShape
      /\ UNCHANGED <<scopeFile, proposalFile, approvalFile, effectFile, placed>>
      /\ UNCHANGED <<commands, accidents, netVars>>
  BY DEF ReadInputs, At, files, counters, BundleInvariant
<1>2. InputsAreKnown'
  BY <1>1, InputsStay
<1>3. CASE ~InputsAreCanonical
  BY <1>1, <1>2, <1>3, LeaveAtOnce DEF ReadInputs
<1>4. CASE InputsAreCanonical
  <2> DEFINE scope == ReadScope
             proposal == ReadProposal
  <2>1. scope \in NetScopes /\ proposal.intent \in NetIntents \cup {Unset}
    BY <1>4, BundleAssumption
       DEF InputsAreCanonical, ReadScope, ReadProposal, BundleInvariant, InputsAreKnown
  <2>2. job' = [job EXCEPT ![f].at = "approval", ![f].scope = scope, ![f].proposal = proposal]
    BY <1>4 DEF ReadInputs
  <2> HIDE DEF scope, proposal
  <2>3. DOMAIN job' = Fetchers /\ \A g \in Fetchers \ {f} : job'[g] = job[g]
    BY <1>1, <2>2 DEF JobShape
  <2>4. /\ job'[f] = [job[f] EXCEPT !.at = "approval", !.scope = scope, !.proposal = proposal]
        /\ DOMAIN job[f] = Fields
    BY <1>1, <2>2 DEF JobShape
  <2>5. DOMAIN job'[f] = Fields
    BY <2>4
  <2>6. /\ job'[f].at = "approval" /\ job'[f].run = job[f].run /\ job'[f].scope = scope
        /\ job'[f].proposal = proposal /\ job'[f].approval = job[f].approval
    BY <2>4 DEF Fields
  <2>7. Moves(f) /\ GoesOn(f)
    BY <1>1, <2>3, <2>5, <2>6 DEF Moves, GoesOn, JobShape, Busy, Before
  <2>8. phase[f] = "idle"
    BY <1>1, OutOfAdapter
  <2>9. JobIsSound(f)'
    BY <1>1, <2>1, <2>6, <2>8
       DEF BundleInvariant, JobIsSound, At, Places, Before, NothingSent, InAdapter, HasRead,
           Commits, netVars
  <2> QED
    BY <1>1, <1>2, <2>7, <2>9, QuietKeeps DEF Writes
<1> QED
  BY <1>3, <1>4

LEMMA ReadApprovalKeeps ==
  ASSUME BundleInvariant, NEW f \in Fetchers, ReadApproval(f)
  PROVE  BundleInvariant'
<1>1. /\ job[f].at = "approval" /\ ~At(f, "idle") /\ JobShape
      /\ UNCHANGED <<scopeFile, proposalFile, approvalFile, effectFile, placed>>
      /\ UNCHANGED <<commands, accidents, netVars>>
  BY DEF ReadApproval, At, files, counters, BundleInvariant
<1>2. InputsAreKnown'
  BY <1>1, InputsStay
<1>3. phase[f] = "idle"
  BY <1>1, OutOfAdapter
<1>4. CASE Goto(f, "evaluate")
  <2>1. /\ Moves(f) /\ job'[f].at = "evaluate" /\ job'[f].run = job[f].run
        /\ job'[f].scope = job[f].scope /\ job'[f].proposal = job[f].proposal
        /\ job'[f].approval = job[f].approval
    BY <1>1, <1>4, GoesTo
  <2>2. JobIsSound(f)'
    BY <1>1, <1>3, <2>1
       DEF BundleInvariant, JobIsSound, At, Places, Before, NothingSent, InAdapter, HasRead,
           Commits, netVars
  <2>3. GoesOn(f)
    BY <1>1, <2>1 DEF GoesOn, Busy, Before
  <2> QED
    BY <1>1, <1>2, <2>1, <2>2, <2>3, QuietKeeps DEF Writes
<1>5. CASE End(f)
  BY <1>1, <1>2, <1>5, LeaveAtOnce
<1>6. CASE /\ approvalFile \notin NotWhole /\ ApprovalIsCanonical(approvalFile)
           /\ job' = [job EXCEPT ![f].at = "evaluate",
                                 ![f].approval = ApprovalFromRecord(approvalFile)]
  <2> DEFINE approval == ApprovalFromRecord(approvalFile)
  <2>1. \E a \in placed' : ApprovalIsCanonical(a) /\ approval = ApprovalFromRecord(a)
    BY <1>1, <1>6 DEF BundleInvariant, InputsAreKnown
  <2>2. job' = [job EXCEPT ![f].at = "evaluate", ![f].approval = approval]
    BY <1>6
  <2> HIDE DEF approval
  <2>3. DOMAIN job' = Fetchers /\ \A g \in Fetchers \ {f} : job'[g] = job[g]
    BY <1>1, <2>2 DEF JobShape
  <2>4. /\ job'[f] = [job[f] EXCEPT !.at = "evaluate", !.approval = approval]
        /\ DOMAIN job[f] = Fields
    BY <1>1, <2>2 DEF JobShape
  <2>5. DOMAIN job'[f] = Fields
    BY <2>4
  <2>6. /\ job'[f].at = "evaluate" /\ job'[f].run = job[f].run
        /\ job'[f].scope = job[f].scope /\ job'[f].proposal = job[f].proposal
        /\ job'[f].approval = approval
    BY <2>4 DEF Fields
  <2>7. Moves(f) /\ GoesOn(f)
    BY <1>1, <2>3, <2>5, <2>6 DEF Moves, GoesOn, JobShape, Busy, Before
  <2>8. \E a \in placed' :
          ApprovalIsCanonical(a) /\ job'[f].approval = ApprovalFromRecord(a)
    BY <2>1, <2>6
  <2>9. JobIsSound(f)'
    BY <1>1, <1>3, <2>6, <2>8
       DEF BundleInvariant, JobIsSound, At, Places, Before, NothingSent, InAdapter, HasRead,
           Commits, netVars, ApprovalIsCanonical, ApprovalFromRecord
  <2> QED
    BY <1>1, <1>2, <2>7, <2>9, QuietKeeps DEF Writes
<1> QED
  BY <1>4, <1>5, <1>6 DEF ReadApproval

\* The gate lets a command go to commit only with what was decided for it.
LEMMA GateAllows ==
  ASSUME BundleInvariant, NEW f \in Fetchers, job[f].at = "gate", phase[f] = "prepared",
         Verdict(f) = "none", ~StaysInside(f)
  PROVE  Allowed(job[f].scope, job[f].proposal.intent)
<1> DEFINE scope == job[f].scope
           intent == job[f].proposal.intent
           approval == job[f].approval
<1>1. fetch[f] \in CallRecords /\ fetch[f].intent = intent
  BY DEF BundleInvariant, JobIsSound, InAdapter, NetInvariant, NetTypes, Active
<1>2. intent \in NetIntents /\ intent.intent_id # Unset
  BY <1>1, BundleAssumption DEF CallRecords
<1>3. \/ approval = Unset
      \/ \E a \in placed : ApprovalIsCanonical(a) /\ approval = ApprovalFromRecord(a)
  BY DEF BundleInvariant, JobIsSound, HasRead
<1>4. approval # Unset =>
        /\ approval.status \in ApprovalStatuses
        /\ approval.expires_at \in Int \cup {Unset, Unparsable, Naive}
  <2> SUFFICES ASSUME NEW a \in placed, ApprovalIsCanonical(a),
                      approval = ApprovalFromRecord(a)
               PROVE  /\ approval.status \in ApprovalStatuses
                      /\ approval.expires_at \in Int \cup {Unset, Unparsable, Naive}
    BY <1>3
  <2>1. ExpiryIsKnown(a)
    BY DEF BundleInvariant, InputsAreKnown
  <2>2. approval.expires_at \in Int \cup {Unset, Unparsable, Naive}
    BY <2>1 DEF ExpiryIsKnown
  <2>3. approval.status = Unwrapped(a).status
    BY DEF ApprovalFromRecord
  <2> QED
    BY <2>2, <2>3 DEF ApprovalIsCanonical
<1>5. Clears(scope, intent, Kind, approval, FALSE, Now)
  <2>1. ApprovalVerdict(scope, intent, Kind, approval, FALSE, Now) = "none"
    BY DEF Verdict
  <2> HIDE DEF scope, intent, approval
  <2> QED
    BY <1>2, <1>4, <2>1, VerdictIsClearance, BundleAssumption
<1>6. Kind \in scope.approval_required_for => approval # Unset
  BY <1>5 DEF Clears
<1>7. intent.custody_mode # "record_only"
  BY DEF StaysInside
<1> QED
  BY <1>3, <1>5, <1>6, <1>7 DEF Allowed

LEMMA ProceedKeeps ==
  ASSUME BundleInvariant, NEW f \in Fetchers, Proceed(f)
  PROVE  BundleInvariant'
<1>1. /\ job[f].at = "gate" /\ ~At(f, "idle") /\ JobShape
      /\ phase[f] = "prepared" /\ Verdict(f) = "none" /\ ~StaysInside(f)
      /\ UNCHANGED <<scopeFile, proposalFile, approvalFile, effectFile, placed>>
      /\ UNCHANGED <<commands, accidents, netVars>>
  BY DEF Proceed, At, files, counters, BundleInvariant
<1>2. InputsAreKnown'
  BY <1>1, InputsStay
<1>3. /\ Moves(f) /\ job'[f].at = "commit" /\ job'[f].run = job[f].run
      /\ job'[f].scope = job[f].scope /\ job'[f].proposal = job[f].proposal
      /\ job'[f].approval = job[f].approval
  BY <1>1, GoesTo DEF Proceed
<1>4. Allowed(job[f].scope, job[f].proposal.intent)'
  <2>1. Allowed(job[f].scope, job[f].proposal.intent)
    BY <1>1, GateAllows
  <2> QED
    BY <1>1, <1>3, <2>1, AllowedStays
<1>5. GoesOn(f)
  BY <1>1, <1>3 DEF GoesOn, Busy, Before
<1>6. JobIsSound(f)'
  BY <1>1, <1>3, <1>4
     DEF BundleInvariant, JobIsSound, At, Places, Before, InAdapter, HasRead, Commits, netVars
<1> QED
  BY <1>1, <1>2, <1>3, <1>5, <1>6, QuietKeeps DEF Writes

-----------------------------------------------------------------------------
(* Writing effect.json and trace.json.                                      *)

LEMMA OpenEffectKeeps ==
  ASSUME BundleInvariant, NEW f \in Fetchers, CheckEffect(f) \/ OpenEffect(f)
  PROVE  BundleInvariant'
<1>1. /\ job[f].at \in {"check_effect", "open_effect"} /\ ~At(f, "idle") /\ JobShape
      /\ UNCHANGED <<scopeFile, proposalFile, approvalFile, placed>>
      /\ effectFile' \in {effectFile, Empty}
      /\ UNCHANGED <<commands, accidents, netVars>>
  BY DEF CheckEffect, OpenEffect, At, files, counters, BundleInvariant
<1>2. InputsAreKnown' /\ effectFile' \in {effectFile} \cup NotWhole
  BY <1>1, InputsStay DEF NotWhole
<1>3. CASE End(f)
  BY <1>1, <1>2, <1>3, LeaveAtOnce
<1>4. ASSUME NEW p \in {"open_effect", "fill_effect"}, Goto(f, p)
      PROVE  BundleInvariant'
  <2>1. /\ Moves(f) /\ job'[f].at = p /\ job'[f].run = job[f].run
        /\ job'[f].effect = job[f].effect
    BY <1>1, <1>4, GoesTo
  <2>2. phase[f] = "idle"
    BY <1>1, OutOfAdapter
  <2>3. JobIsSound(f)'
    BY <1>1, <2>1, <2>2
       DEF BundleInvariant, JobIsSound, At, Places, Before, InAdapter, HasRead, Commits,
           netVars, EffectIsTrue, IsKept, CommitReasons
  <2>4. GoesOn(f)
    BY <1>1, <2>1 DEF GoesOn, Busy, Before
  <2> QED
    BY <1>1, <1>2, <2>1, <2>3, <2>4, QuietKeeps DEF Writes
<1> QED
  BY <1>3, <1>4 DEF CheckEffect, OpenEffect

\* A command that only writes goes on to what needs nothing of it.
LEMMA WritesOn ==
  ASSUME BundleInvariant, NEW f \in Fetchers,
         job[f].at \in {"fill_effect", "check_trace", "open_trace"},
         NEW p \in {"check_trace", "open_trace", "fill_trace"}, Goto(f, p),
         UNCHANGED <<scopeFile, proposalFile, approvalFile, placed, commands, accidents, netVars>>,
         Writes(f)
  PROVE  BundleInvariant'
<1>1. ~At(f, "idle") /\ JobShape
  BY DEF At, BundleInvariant
<1>2. InputsAreKnown'
  BY InputsStay
<1>3. /\ Moves(f) /\ job'[f].at = p /\ job'[f].run = job[f].run
  BY <1>1, GoesTo
<1>4. phase[f] = "idle"
  BY OutOfAdapter
<1>5. JobIsSound(f)'
  BY <1>1, <1>3, <1>4
     DEF BundleInvariant, JobIsSound, At, Places, Before, InAdapter, HasRead, Commits, netVars
<1>6. GoesOn(f)
  BY <1>1, <1>3 DEF GoesOn, Busy, Before
<1> QED
  BY <1>2, <1>3, <1>5, <1>6, QuietKeeps

LEMMA FillEffectKeeps ==
  ASSUME BundleInvariant, NEW f \in Fetchers, FillEffect(f)
  PROVE  BundleInvariant'
<1>1. FirstStep(f, "check_trace", "open_trace") \in {"check_trace", "open_trace"}
  BY DEF FirstStep
<1>2. Writes(f)
  BY DEF FillEffect, Filled, Writes, NotWhole, At
<1> QED
  BY <1>1, <1>2, WritesOn DEF FillEffect, At, counters

LEMMA OpenTraceKeeps ==
  ASSUME BundleInvariant, NEW f \in Fetchers, CheckTrace(f) \/ OpenTrace(f)
  PROVE  BundleInvariant'
<1>1. /\ job[f].at \in {"check_trace", "open_trace"} /\ ~At(f, "idle")
      /\ UNCHANGED <<scopeFile, proposalFile, approvalFile, effectFile, placed>>
      /\ UNCHANGED <<commands, accidents, netVars>>
  BY DEF CheckTrace, OpenTrace, At, files, counters
<1>2. CASE End(f)
  BY <1>1, <1>2, LeaveAtOnce, InputsStay
<1>3. ASSUME NEW p \in {"open_trace", "fill_trace"}, Goto(f, p)
      PROVE  BundleInvariant'
  BY <1>1, <1>3, WritesOn DEF Writes
<1> QED
  BY <1>2, <1>3 DEF CheckTrace, OpenTrace

LEMMA FillTraceKeeps ==
  ASSUME BundleInvariant, NEW f \in Fetchers, FillTrace(f)
  PROVE  BundleInvariant'
  BY LeaveAtOnce, InputsStay DEF FillTrace, At, counters

-----------------------------------------------------------------------------
(* Commands that begin, and edits: the steps that disturb the others.       *)

LEMMA DisturbedIs ==
  ASSUME BundleInvariant, NEW g \in Fetchers
  PROVE  LET d == Disturbed(g)
         IN  /\ DOMAIN d = Fields
             /\ d.at = job[g].at /\ d.run = job[g].run /\ d.scope = job[g].scope
             /\ d.proposal = job[g].proposal /\ d.approval = job[g].approval
             /\ d.effect = job[g].effect /\ (job[g] = NoJob => d = NoJob)
<1>1. DOMAIN job[g] = Fields
  BY DEF BundleInvariant, JobShape
<1>2. CASE At(g, "idle")
  BY <1>1, <1>2 DEF Disturbed
<1>3. CASE ~At(g, "idle")
  <2> DEFINE d == [job[g] EXCEPT !.alone = FALSE]
  <2>1. Disturbed(g) = d
    BY <1>3 DEF Disturbed
  <2>2. DOMAIN d = Fields
    BY <1>1
  <2>3. /\ d.at = job[g].at /\ d.run = job[g].run /\ d.scope = job[g].scope
        /\ d.proposal = job[g].proposal /\ d.approval = job[g].approval
        /\ d.effect = job[g].effect
    BY <1>1 DEF Fields
  <2>4. job[g] # NoJob
    BY <1>3, NoJobIs DEF At
  <2> QED
    BY <2>1, <2>2, <2>3, <2>4
<1> QED
  BY <1>2, <1>3

LEMMA BeginKeeps ==
  ASSUME BundleInvariant, NEW f \in Fetchers, NEW new, Begin(f, new),
         DOMAIN new = Fields, new.at \in {"inputs", "review"}, new.approval = Unset,
         UNCHANGED <<scopeFile, proposalFile, approvalFile, effectFile>>,
         UNCHANGED <<placed, accidents, netVars>>
  PROVE  BundleInvariant'
<1> DEFINE alone == \A h \in Fetchers \ {f} : At(h, "idle")
           mine == [new EXCEPT !.run = commands + 1, !.alone = alone]
<1>1. /\ At(f, "idle") /\ commands < MaxCommands /\ commands' = commands + 1
      /\ job' = [g \in Fetchers |-> IF g # f THEN Disturbed(g) ELSE mine]
  BY DEF Begin
<1>2. commands \in Nat /\ commands' \in 0..MaxCommands /\ MaxCommands \in Nat
  <2>1. commands \in 0..MaxCommands /\ MaxCommands \in Nat
    BY BundleAssumption DEF BundleInvariant, Counted
  <2>2. commands < MaxCommands /\ commands' = commands + 1
    BY <1>1
  <2> QED
    BY <2>1, <2>2
<1>3. DOMAIN mine = Fields /\ mine.at = new.at /\ mine.run = commands + 1
      /\ mine.approval = Unset
  <2> HIDE DEF alone
  <2> QED
    BY DEF Fields
<1> HIDE DEF mine
<1>4. job'[f] = mine /\ \A g \in Fetchers \ {f} : job'[g] = Disturbed(g)
  BY <1>1
<1>5. JobShape'
  BY <1>1, <1>3, DisturbedIs DEF JobShape
<1>6. \A g \in Fetchers \ {f} : SameJob(g)
  BY <1>4, DisturbedIs DEF SameJob, netVars
<1>7. Adds(commands + 1)
  BY <1>1, <1>2 DEF Adds, netVars
<1>8. ASSUME NEW g \in Fetchers \ {f} PROVE JobIsSound(g)'
  <2>1. ~At(g, "idle") => job[g].run # commands + 1
    BY <1>2 DEF BundleInvariant, JobIsSound
  <2> QED
    BY <1>2, <1>6, <1>7, <2>1, OthersSound DEF BundleInvariant
<1>9. phase'[f] = "idle"
  BY <1>1, OutOfAdapter DEF At, netVars
<1>10. (\A w \in wire' : w.id # commands + 1) /\ (\A s \in store' : s.id # commands + 1)
  BY <1>1, <1>2 DEF BundleInvariant, Counted, netVars
<1>11. JobIsSound(f)'
  <2>1. /\ job'[f].at \in {"inputs", "review"} /\ job'[f].run = commands'
        /\ job'[f].approval = Unset /\ commands' = commands + 1
    BY <1>1, <1>3, <1>4
  <2> QED
    BY <1>2, <1>9, <1>10, <2>1
       DEF JobIsSound, At, Places, Before, NothingSent, InAdapter, HasRead, Commits
<1>12. RunsApart'
  <2>1. ASSUME NEW g \in Fetchers \ {f}, ~At(g, "idle")'
        PROVE  ~At(g, "idle") /\ job'[g].run = job[g].run /\ job[g].run # commands + 1
    BY <1>2, <1>6, <2>1 DEF SameJob, At, BundleInvariant, JobIsSound
  <2> QED
    BY <1>3, <1>4, <2>1 DEF BundleInvariant, RunsApart
<1>13. Counted'
  BY <1>1, <1>2 DEF BundleInvariant, Counted, netVars
<1>14. EffectFileIsTrue'
  <2> SUFFICES ASSUME effectFile \notin NotWhole PROVE EffectFileIsTrue'
    BY DEF EffectFileIsTrue, NotWhole
  <2>1. effectFile.run \in 0..commands /\ EffectIsTrue(effectFile)
    BY DEF BundleInvariant, EffectFileIsTrue
  <2>2. EffectIsTrue(effectFile)'
    BY <2>1 DEF EffectIsTrue, IsKept, CommitReasons, netVars
  <2>3. ASSUME NEW g \in Fetchers, job'[g].at \in Busy PROVE job'[g].run # effectFile.run
    <3>1. CASE g = f
      BY <1>2, <1>3, <1>4, <2>1, <3>1
    <3>2. CASE g # f
      BY <1>6, <2>3, <3>2 DEF SameJob, BundleInvariant, EffectFileIsTrue
    <3> QED
      BY <3>1, <3>2
  <2> QED
    BY <1>1, <1>2, <2>1, <2>2, <2>3 DEF EffectFileIsTrue, Busy, Before
<1>15. NetInvariant' /\ InputsAreKnown' /\ WireIsAllowed'
  BY NetStepKeeps, InputsStay, AllowedStays DEF BundleInvariant, WireIsAllowed, netVars
<1> QED
  BY <1>5, <1>8, <1>11, <1>12, <1>13, <1>14, <1>15 DEF BundleInvariant

LEMMA RunBundleKeeps ==
  ASSUME BundleInvariant, NEW f \in Fetchers, RunBundle(f) \/ RunPlain(f) \/ Review(f)
  PROVE  BundleInvariant'
<1>1. CASE RunBundle(f)
  <2>1. PICK overwrite : Begin(f, [NoJob EXCEPT !.at = "inputs", !.command = "bundle",
                                                !.overwrite = overwrite])
    BY <1>1 DEF RunBundle
  <2> DEFINE new == [NoJob EXCEPT !.at = "inputs", !.command = "bundle",
                                  !.overwrite = overwrite]
  <2>2. DOMAIN new = Fields /\ new.at = "inputs" /\ new.approval = Unset
    BY NoJobIs DEF Fields
  <2> HIDE DEF new
  <2> QED
    BY <1>1, <2>1, <2>2, BeginKeeps DEF RunBundle, files, new
<1>2. CASE RunPlain(f)
  <2>1. PICK command : Begin(f, [NoJob EXCEPT !.at = "inputs", !.command = command])
    BY <1>2 DEF RunPlain
  <2> DEFINE new == [NoJob EXCEPT !.at = "inputs", !.command = command]
  <2>2. DOMAIN new = Fields /\ new.at = "inputs" /\ new.approval = Unset
    BY NoJobIs DEF Fields
  <2> HIDE DEF new
  <2> QED
    BY <1>2, <2>1, <2>2, BeginKeeps DEF RunPlain, files, new
<1>3. CASE Review(f)
  <2> DEFINE new == [NoJob EXCEPT !.at = "review", !.command = "review"]
  <2>1. DOMAIN new = Fields /\ new.at = "review" /\ new.approval = Unset
    BY NoJobIs DEF Fields
  <2>2. Begin(f, new)
    BY <1>3 DEF Review
  <2> HIDE DEF new
  <2> QED
    BY <1>3, <2>1, <2>2, BeginKeeps DEF Review, files
<1> QED
  BY <1>1, <1>2, <1>3

LEMMA EditKeeps ==
  ASSUME BundleInvariant, Edit
  PROVE  BundleInvariant'
<1>1. /\ accidents < MaxAccidents /\ accidents' = accidents + 1
      /\ scopeFile' \in ScopeRecords /\ proposalFile' \in ProposalRecords
      /\ job' = [g \in Fetchers |-> Disturbed(g)]
      /\ UNCHANGED <<approvalFile, effectFile, placed, commands, netVars>>
  BY DEF Edit, Accident, BundleInvariant, InputsAreKnown
<1>2. commands \in Nat /\ accidents' \in 0..MaxAccidents
  BY <1>1, BundleAssumption DEF BundleInvariant, Counted
<1>3. JobShape' /\ \A g \in Fetchers : SameJob(g)
  BY <1>1, DisturbedIs DEF JobShape, SameJob, netVars
<1>4. Adds(0)
  BY <1>1, <1>2 DEF Adds, netVars
<1>5. ASSUME NEW g \in Fetchers PROVE JobIsSound(g)'
  <2>1. ~At(g, "idle") => job[g].run # 0
    BY <1>2 DEF BundleInvariant, JobIsSound
  <2> QED
    BY <1>2, <1>3, <1>4, <2>1, OthersSound DEF BundleInvariant
<1>6. RunsApart'
  BY <1>3 DEF BundleInvariant, RunsApart, SameJob, At
<1>7. Counted'
  BY <1>1, <1>2 DEF BundleInvariant, Counted, netVars
<1>8. EffectFileIsTrue'
  BY <1>1, <1>3 DEF BundleInvariant, EffectFileIsTrue, EffectIsTrue, IsKept, CommitReasons,
                    SameJob, NotWhole, Busy, Before, netVars
<1>9. NetInvariant' /\ WireIsAllowed'
  BY <1>1, NetStepKeeps, AllowedStays DEF BundleInvariant, WireIsAllowed, netVars
<1>10. InputsAreKnown'
  BY <1>1 DEF BundleInvariant, InputsAreKnown, NotWhole, ExpiryIsKnown, ApprovalIsCanonical,
              ApprovalFromRecord
<1> QED
  BY <1>3, <1>5, <1>6, <1>7, <1>8, <1>9, <1>10 DEF BundleInvariant

-----------------------------------------------------------------------------
(* The steps the adapter takes a part in.                                   *)

LEMMA Concludes ==
  ASSUME BundleInvariant, NEW f \in Fetchers, ~At(f, "idle"), phase'[f] = "idle",
         NEW state, NEW why, Conclude(f, state, why), UNCHANGED <<wire, store, commands>>,
         state = "committed" => \E target : IsKept(job[f].run, target),
         state # "committed" /\ why \notin CommitReasons => NothingSent(job[f].run)
  PROVE  Moves(f) /\ JobIsSound(f)' /\ GoesOn(f)
<1>1. JobShape
  BY DEF BundleInvariant
<1>2. CASE End(f)
  <2>1. Moves(f) /\ JobIsSound(f)' /\ job'[f].at = "idle"
    BY <1>1, <1>2, Ends
  <2> QED
    BY <2>1 DEF GoesOn, Busy, Before
<1>3. CASE job' = [job EXCEPT ![f].at = FirstStep(f, "check_effect", "open_effect"),
                              ![f].effect = Effect(f, state, why)]
  <2> DEFINE effect == Effect(f, state, why)
             place == FirstStep(f, "check_effect", "open_effect")
  <2>1. effect.run = job[f].run /\ effect.state = state /\ effect.reason = why
    BY DEF Effect
  <2>10. place \in {"check_effect", "open_effect"}
    BY DEF FirstStep
  <2> HIDE DEF effect, place
  <2>2. DOMAIN job' = Fetchers /\ \A g \in Fetchers \ {f} : job'[g] = job[g]
    BY <1>1, <1>3 DEF JobShape
  <2>3. /\ job'[f] = [job[f] EXCEPT !.at = place, !.effect = effect]
        /\ DOMAIN job[f] = Fields
    BY <1>1, <1>3 DEF JobShape, effect, place
  <2>4. DOMAIN job'[f] = Fields
    BY <2>3
  <2>5. /\ job'[f].at = place /\ job'[f].run = job[f].run
        /\ job'[f].effect = effect
    BY <2>3 DEF Fields
  <2>6. Moves(f) /\ GoesOn(f)
    BY <1>1, <2>2, <2>4, <2>5, <2>10 DEF Moves, GoesOn, JobShape, Busy, Before
  <2>7. job'[f].effect.run = job'[f].run /\ EffectIsTrue(job[f].effect)'
    BY <2>1, <2>5 DEF EffectIsTrue, IsKept, NothingSent, CommitReasons
  <2>8. job'[f].run \in 1..commands'
    BY <2>5 DEF BundleInvariant, JobIsSound
  <2>9. JobIsSound(f)'
    BY <2>5, <2>7, <2>8, <2>10 DEF JobIsSound, At, Places, Before, InAdapter, HasRead, Commits
  <2> QED
    BY <2>6, <2>9
<1> QED
  BY <1>2, <1>3 DEF Conclude

\* Leaving the adapter, to report what came of it, or dead.
LEMMA LeaveAdapterKeeps ==
  ASSUME BundleInvariant, NEW f \in Fetchers, ~At(f, "idle"), Leave(f),
         Moves(f), JobIsSound(f)', GoesOn(f), accidents' \in 0..MaxAccidents,
         UNCHANGED <<files, placed, commands>>
  PROVE  BundleInvariant'
<1>1. NetInvariant'
  BY LeaveKeeps DEF BundleInvariant
<1>2. \A g \in Fetchers \ {f} : SameJob(g)
  BY DEF Moves, SameJob, Leave, To, BundleInvariant, NetInvariant, NetTypes
<1>3. UNCHANGED <<wire, store>> /\ commands \in Nat
  BY DEF Leave, BundleInvariant, Counted
<1>4. Adds(job[f].run)
  BY <1>3 DEF Adds
<1>5. InputsAreKnown' /\ WireIsAllowed'
  BY <1>3, InputsStay, AllowedStays DEF BundleInvariant, WireIsAllowed, files
<1>6. Writes(f)
  BY DEF Writes, files
<1> QED
  BY <1>1, <1>2, <1>3, <1>4, <1>5, <1>6, StepKeeps DEF Moves

LEMMA LeaveIsIdle ==
  ASSUME BundleInvariant, NEW f \in Fetchers, Leave(f)
  PROVE  phase'[f] = "idle" /\ UNCHANGED <<wire, store>>
  BY DEF Leave, To, BundleInvariant, NetInvariant, NetTypes

LEMMA SentNothingYet ==
  ASSUME BundleInvariant, NEW f \in Fetchers, job[f].at \in Before
  PROVE  NothingSent(job[f].run)
  BY DEF BundleInvariant, JobIsSound

LEMMA RefuseKeeps ==
  ASSUME BundleInvariant, NEW f \in Fetchers, Refuse(f)
  PROVE  BundleInvariant'
<1>1. /\ job[f].at = "gate" /\ ~At(f, "idle") /\ JobShape /\ Leave(f)
      /\ End(f) \/ Conclude(f, "rejected", reason[f])
      /\ UNCHANGED <<files, placed, commands, accidents>>
  BY DEF Refuse, Report, At, counters, BundleInvariant
<1>2. phase'[f] = "idle" /\ UNCHANGED <<wire, store>>
  BY <1>1, LeaveIsIdle
<1>3. NothingSent(job[f].run)
  BY <1>1, SentNothingYet DEF Before
<1>4. Moves(f) /\ JobIsSound(f)' /\ GoesOn(f)
  <2>1. CASE End(f)
    BY <1>1, <1>2, <2>1, Ends DEF GoesOn, Busy, Before
  <2>2. CASE Conclude(f, "rejected", reason[f])
    BY <1>1, <1>2, <1>3, <2>2, Concludes
  <2> QED
    BY <1>1, <2>1, <2>2
<1>5. accidents' \in 0..MaxAccidents
  BY <1>1 DEF BundleInvariant, Counted
<1> QED
  BY <1>1, <1>4, <1>5, LeaveAdapterKeeps

LEMMA WithholdKeeps ==
  ASSUME BundleInvariant, NEW f \in Fetchers, Withhold(f)
  PROVE  BundleInvariant'
<1>1. /\ job[f].at = "gate" /\ ~At(f, "idle") /\ JobShape /\ Leave(f)
      /\ \/ End(f)
         \/ \E state \in {"paused", "rejected", "approved"}, why \in {Verdict(f), "none",
                "approval_required_before_commit"} : Conclude(f, state, why)
      /\ UNCHANGED <<files, placed, commands, accidents>>
  BY DEF Withhold, Stop, At, counters, BundleInvariant
<1>2. phase'[f] = "idle" /\ UNCHANGED <<wire, store>>
  BY <1>1, LeaveIsIdle
<1>3. NothingSent(job[f].run)
  BY <1>1, SentNothingYet DEF Before
<1>4. Moves(f) /\ JobIsSound(f)' /\ GoesOn(f)
  <2>1. CASE End(f)
    BY <1>1, <1>2, <2>1, Ends DEF GoesOn, Busy, Before
  <2>2. ASSUME NEW state \in {"paused", "rejected", "approved"}, NEW why,
               Conclude(f, state, why)
        PROVE  Moves(f) /\ JobIsSound(f)' /\ GoesOn(f)
    <3>1. state # "committed"
      OBVIOUS
    <3> QED
      BY <1>1, <1>2, <1>3, <2>2, <3>1, Concludes
  <2> QED
    BY <1>1, <2>1, <2>2
<1>5. accidents' \in 0..MaxAccidents
  BY <1>1 DEF BundleInvariant, Counted
<1> QED
  BY <1>1, <1>4, <1>5, LeaveAdapterKeeps

LEMMA OutcomeKeeps ==
  ASSUME BundleInvariant, NEW f \in Fetchers, Outcome(f)
  PROVE  BundleInvariant'
<1>1. /\ job[f].at = "commit" /\ ~At(f, "idle") /\ JobShape /\ Leave(f)
      /\ \/ phase[f] = "done" /\ Conclude(f, "committed", "none")
         \/ phase[f] = "failed" /\ reason[f] = "raises" /\ End(f)
         \/ phase[f] = "failed" /\ reason[f] # "raises" /\ Conclude(f, "rejected", reason[f])
      /\ UNCHANGED <<files, placed, commands, accidents>>
  BY DEF Outcome, Report, At, counters, BundleInvariant
<1>2. phase'[f] = "idle" /\ UNCHANGED <<wire, store>>
  BY <1>1, LeaveIsIdle
<1>3. Moves(f) /\ JobIsSound(f)' /\ GoesOn(f)
  <2>1. CASE phase[f] = "done" /\ Conclude(f, "committed", "none")
    <3>1. IsKept(job[f].run, fetch[f].intent.target)
      BY <2>1 DEF BundleInvariant, JobIsSound, Commits, InAdapter
    <3> QED
      BY <1>1, <1>2, <2>1, <3>1, Concludes
  <2>2. CASE phase[f] = "failed" /\ reason[f] # "raises" /\ Conclude(f, "rejected", reason[f])
    <3>1. reason[f] \in CommitReasons
      BY <1>1, <2>2 DEF BundleInvariant, JobIsSound, Commits
    <3> QED
      BY <1>1, <1>2, <2>2, <3>1, Concludes
  <2>3. CASE End(f)
    BY <1>1, <1>2, <2>3, Ends DEF GoesOn, Busy, Before
  <2> QED
    BY <1>1, <2>1, <2>2, <2>3
<1>4. accidents' \in 0..MaxAccidents
  BY <1>1 DEF BundleInvariant, Counted
<1> QED
  BY <1>1, <1>3, <1>4, LeaveAdapterKeeps

LEMMA CrashKeeps ==
  ASSUME BundleInvariant, NEW f \in Fetchers, Crash(f)
  PROVE  BundleInvariant'
<1>1. /\ ~At(f, "idle") /\ JobShape /\ End(f)
      /\ accidents < MaxAccidents /\ accidents' = accidents + 1
      /\ UNCHANGED <<files, placed, commands>>
  BY DEF Crash, Accident, BundleInvariant
<1>2. accidents' \in 0..MaxAccidents /\ commands \in Nat
  BY <1>1, BundleAssumption DEF BundleInvariant, Counted
<1>3. CASE Leave(f)
  <2>1. phase'[f] = "idle"
    BY <1>3, LeaveIsIdle
  <2>2. Moves(f) /\ JobIsSound(f)' /\ GoesOn(f)
    BY <1>1, <2>1, Ends DEF GoesOn, Busy, Before
  <2> QED
    BY <1>1, <1>2, <1>3, <2>2, LeaveAdapterKeeps
<1>4. CASE phase[f] = "idle" /\ UNCHANGED netVars
  <2>1. Moves(f) /\ JobIsSound(f)' /\ GoesOn(f)
    BY <1>1, <1>4, Ends DEF GoesOn, Busy, Before, netVars
  <2>2. \A g \in Fetchers \ {f} : SameJob(g)
    BY <1>4, <2>1, MovesOnly
  <2>3. Adds(job[f].run) /\ Writes(f)
    BY <1>1, <1>2, <1>4 DEF Adds, Writes, files, netVars
  <2>4. NetInvariant' /\ InputsAreKnown' /\ WireIsAllowed'
    BY <1>1, <1>4, NetStepKeeps, InputsStay, AllowedStays
       DEF BundleInvariant, WireIsAllowed, files, netVars
  <2> QED
    BY <1>1, <1>2, <1>4, <2>1, <2>2, <2>3, <2>4, StepKeeps DEF Moves, netVars
<1> QED
  BY <1>3, <1>4 DEF Crash, Die

LEMMA EvaluateKeeps ==
  ASSUME BundleInvariant, NEW f \in Fetchers, Evaluate(f)
  PROVE  BundleInvariant' /\ [NetNext]_netVars
<1> DEFINE why == AdmissionReason(job[f].scope, job[f].proposal)
           call == [id |-> job[f].run, scope |-> job[f].scope,
                    intent |-> job[f].proposal.intent]
<1>1. /\ job[f].at = "evaluate" /\ ~At(f, "idle") /\ JobShape
      /\ UNCHANGED <<files, placed, commands, accidents>>
  BY DEF Evaluate, At, counters, BundleInvariant
<1>2. phase[f] = "idle"
  BY <1>1, OutOfAdapter
<1>3. InputsAreKnown' /\ Writes(f) /\ accidents' \in 0..MaxAccidents /\ commands \in Nat
  BY <1>1, InputsStay DEF files, Writes, BundleInvariant, Counted
<1>4. NothingSent(job[f].run)
  BY <1>1, SentNothingYet DEF Before
<1>5. CASE why # "none"
  <2>1. Conclude(f, "rejected", why) /\ UNCHANGED netVars
    BY <1>5 DEF Evaluate
  <2>2. Moves(f) /\ JobIsSound(f)' /\ GoesOn(f)
    <3> HIDE DEF why
    <3> QED
      BY <1>1, <1>2, <1>4, <2>1, Concludes DEF netVars
  <2> QED
    BY <1>1, <1>3, <2>1, <2>2, QuietKeeps
<1>6. CASE why = "none"
  <2>1. Goto(f, "gate") /\ Prepare(f, call)
    BY <1>6 DEF Evaluate
  <2>2. job[f].run \in CallIds
    BY <1>1, <1>3, BundleAssumption DEF BundleInvariant, JobIsSound, Counted
  <2>3. job[f].scope \in NetScopes /\ job[f].proposal.intent \in NetIntents
    BY <1>1, <1>6 DEF BundleInvariant, JobIsSound, HasRead, AdmissionReason
  <2>4. /\ call \in CallRecords /\ call.id = job[f].run /\ call.scope = job[f].scope
        /\ call.intent = job[f].proposal.intent
    BY <2>2, <2>3 DEF CallRecords
  <2>5. Fresh(job[f].run)
    <3>1. \A g \in Fetchers : phase[g] # "idle" => fetch[g].id # job[f].run
      BY <1>1, <1>2 DEF BundleInvariant, JobIsSound, InAdapter, RunsApart, At
    <3> QED
      BY <1>4, <3>1 DEF Fresh, NothingSent
  <2>6. [NetNext]_netVars
    BY <2>1, <2>2, <2>3, <2>5 DEF NetNext, Call
  <2> HIDE DEF call, why
  <2>7. NetInvariant'
    BY <2>1, <2>4, <2>5, PrepareKeeps DEF BundleInvariant
  <2>8. /\ UNCHANGED <<wire, store>> /\ fetch'[f] = call
        /\ phase'[f] \in {"prepared", "failed"}
        /\ \A g \in Fetchers \ {f} : /\ phase'[g] = phase[g] /\ fetch'[g] = fetch[g]
                                     /\ reason'[g] = reason[g]
    BY <2>1 DEF Prepare, Fails, To, BundleInvariant, NetInvariant, NetTypes
  <2>9. /\ Moves(f) /\ job'[f].at = "gate" /\ job'[f].run = job[f].run
        /\ job'[f].scope = job[f].scope /\ job'[f].proposal = job[f].proposal
        /\ job'[f].approval = job[f].approval
    BY <1>1, <2>1, GoesTo
  <2>10. \A g \in Fetchers \ {f} : SameJob(g)
    BY <2>8, <2>9 DEF Moves, SameJob
  <2>11. JobIsSound(f)'
    <3>1. NothingSent(job[f].run)'
      BY <1>4, <2>8, <2>9 DEF NothingSent
    <3>2. InAdapter(f)'
      BY <2>4, <2>8, <2>9 DEF InAdapter
    <3>3. HasRead(f)'
      BY <1>1, <2>9 DEF BundleInvariant, JobIsSound, HasRead, ApprovalIsCanonical,
                        ApprovalFromRecord
    <3> QED
      BY <1>1, <2>8, <2>9, <3>1, <3>2, <3>3
         DEF BundleInvariant, JobIsSound, At, Places, Before, Commits
  <2>12. Adds(job[f].run) /\ WireIsAllowed'
    BY <1>1, <1>3, <2>8, AllowedStays DEF Adds, BundleInvariant, WireIsAllowed
  <2>13. GoesOn(f)
    BY <1>1, <2>9 DEF GoesOn, Busy, Before
  <2>14. BundleInvariant'
    BY <1>1, <1>3, <2>7, <2>8, <2>9, <2>10, <2>11, <2>12, <2>13, StepKeeps DEF Moves
  <2> QED
    BY <2>6, <2>14
<1> QED
  BY <1>5, <1>6

\* What one step of commit does to the variables of the adapter.
LEMMA CommitTouches ==
  ASSUME BundleInvariant, NEW f \in Fetchers, Commit(f)
  PROVE  /\ phase[f] # "idle" /\ phase'[f] # "idle" /\ fetch' = fetch
         /\ \A g \in Fetchers \ {f} : phase'[g] = phase[g] /\ reason'[g] = reason[g]
         /\ wire \subseteq wire'
         /\ \A w \in wire' \ wire : /\ w.id = fetch[f].id /\ w.scope = fetch[f].scope
                                    /\ w.intent = fetch[f].intent
         /\ \A s \in store : \E t \in store' : t.target = s.target
         /\ \A s \in store' \ store : s.id = fetch[f].id
         /\ phase'[f] = "failed" => reason'[f] \in CommitReasons \cup {"raises"}
         /\ phase'[f] = "done" => IsKept(fetch[f].id, fetch[f].intent.target)'
<1>1. NetTypes /\ Answered
  BY DEF BundleInvariant, NetInvariant
<1>2. CASE Pin(f)
  <2>1. PICK resolved \in Resolutions :
          LET why == PinReason(fetch[f].scope, FetchUrl(f), resolved)
          IN  IF why # "none" THEN Fails(f, why) /\ UNCHANGED pinned
              ELSE To(f, "pinned") /\ UNCHANGED reason
    BY <1>2 DEF Pin
  <2>2. PinReason(fetch[f].scope, FetchUrl(f), resolved)
          \in CommitReasons \cup {"raises", "none"}
    BY DEF PinReason, CommitReasons
  <2> QED
    BY <1>1, <1>2, <2>1, <2>2 DEF Pin, Fails, To, NetTypes
<1>3. CASE SendRaises(f) \/ ConnectFails(f) \/ ReadFails(f) \/ PersistFails(f)
  BY <1>1, <1>3 DEF SendRaises, ConnectFails, ReadFails, PersistFails, Fails, To, NetTypes, CommitReasons
<1>4. CASE Request(f)
  <2> DEFINE sent == Sent(f, pinned[f])
  <2>1. /\ sent.id = fetch[f].id /\ sent.scope = fetch[f].scope
        /\ sent.intent = fetch[f].intent
    BY DEF Sent
  <2> HIDE DEF sent
  <2>2. wire' = wire \cup {sent}
    BY <1>4 DEF Request, sent
  <2>3. \/ \E why \in CommitReasons \cup {"raises"} : Fails(f, why)
        \/ To(f, "reading") /\ UNCHANGED reason
    BY <1>4 DEF Request, CommitReasons
  <2> QED
    BY <1>1, <1>4, <2>1, <2>2, <2>3 DEF Request, Fails, To, NetTypes
<1>5. CASE Read(f)
  BY <1>1, <1>5 DEF Read, Fails, To, NetTypes, CommitReasons
<1>6. CASE EndOfBody(f)
  BY <1>1, <1>6 DEF EndOfBody, To, NetTypes
<1>7. CASE Persist(f)
  <2> DEFINE kept == File(f)
  <2>1. kept.target = fetch[f].intent.target /\ kept.id = fetch[f].id
    BY DEF File
  <2> HIDE DEF kept
  <2>2. /\ store' = {s \in store : s.target # fetch[f].intent.target} \cup {kept}
        /\ phase[f] = "fetched" /\ phase' = [phase EXCEPT ![f] = "done"]
        /\ UNCHANGED <<fetch, reason, wire>>
    BY <1>7 DEF Persist, To, kept
  <2>3. \E w \in wire : w.id = fetch[f].id /\ w.intent = fetch[f].intent
    BY <1>1, <2>2 DEF Answered
  <2>4. IsKept(fetch[f].id, fetch[f].intent.target)'
    BY <2>1, <2>2, <2>3 DEF IsKept
  <2> QED
    BY <1>1, <2>1, <2>2, <2>4 DEF NetTypes
<1> QED
  BY <1>2, <1>3, <1>4, <1>5, <1>6, <1>7 DEF Commit

LEMMA CommitEffectKeeps ==
  ASSUME BundleInvariant, NEW f \in Fetchers, CommitEffect(f)
  PROVE  BundleInvariant'
<1>1. /\ job[f].at = "commit" /\ ~At(f, "idle") /\ Commit(f)
      /\ UNCHANGED <<files, job, placed, commands, accidents>>
  BY DEF CommitEffect, At, counters
<1>2. NetInvariant'
  BY <1>1, CommitKeeps DEF BundleInvariant
<1>3. /\ fetch[f].id = job[f].run /\ fetch[f].scope = job[f].scope
      /\ fetch[f].intent = job[f].proposal.intent
      /\ Allowed(job[f].scope, job[f].proposal.intent)
  BY <1>1, CommitTouches DEF BundleInvariant, JobIsSound, InAdapter, Commits
<1>4. Adds(job[f].run) /\ commands \in Nat /\ accidents' \in 0..MaxAccidents
  BY <1>1, <1>3, CommitTouches DEF Adds, BundleInvariant, Counted
<1>5. \A g \in Fetchers \ {f} : SameJob(g)
  BY <1>1, CommitTouches DEF SameJob
<1>6. WireIsAllowed'
  <2> SUFFICES ASSUME NEW w \in wire' PROVE Allowed(w.scope, w.intent)'
    BY DEF WireIsAllowed
  <2>1. Allowed(w.scope, w.intent)
    BY <1>1, <1>3, CommitTouches DEF BundleInvariant, WireIsAllowed
  <2> QED
    BY <1>1, <2>1, AllowedStays
<1>7. JobIsSound(f)'
  <2>1. (job[f].at = "commit" => Allowed(job[f].scope, job[f].proposal.intent))'
    BY <1>1, <1>3, AllowedStays
  <2>2. Commits(f)'
    BY <1>1, <2>1, CommitTouches DEF Commits, CommitReasons
  <2>3. InAdapter(f)' /\ HasRead(f)'
    BY <1>1, <1>3, CommitTouches
       DEF BundleInvariant, JobIsSound, InAdapter, HasRead, ApprovalIsCanonical,
           ApprovalFromRecord
  <2> QED
    BY <1>1, <2>2, <2>3 DEF BundleInvariant, JobIsSound, At, Places, Before
<1>8. InputsAreKnown' /\ Writes(f) /\ GoesOn(f) /\ JobShape'
  BY <1>1, InputsStay DEF files, Writes, GoesOn, BundleInvariant, JobShape
<1> QED
  BY <1>1, <1>2, <1>4, <1>5, <1>6, <1>7, <1>8, StepKeeps DEF Busy

-----------------------------------------------------------------------------
LEMMA InitInvariant == Init => BundleInvariant
<1> SUFFICES ASSUME Init PROVE BundleInvariant
  OBVIOUS
<1>1. PICK b \in Bundles :
        /\ scopeFile = b.scope /\ proposalFile = b.proposal /\ approvalFile = b.approval
        /\ effectFile = IF b.paused THEN PausedRun ELSE Absent
  BY DEF Init
<1>2. /\ job = [f \in Fetchers |-> NoJob] /\ placed = {approvalFile} \ {Absent}
      /\ commands = 0 /\ accidents = 0 /\ wire = {} /\ store = {}
      /\ \A f \in Fetchers : phase[f] = "idle"
  BY DEF Init, NetInit
<1>3. NetInvariant
  BY NetInitInvariant DEF Init
<1>4. JobShape /\ RunsApart /\ \A f \in Fetchers : JobIsSound(f)
  BY <1>2, NoJobIs DEF JobShape, RunsApart, JobIsSound, At, Places, Before, InAdapter,
                       HasRead, Commits
<1>5. Counted /\ WireIsAllowed
  BY <1>2, BundleAssumption DEF Counted, WireIsAllowed
<1>6. InputsAreKnown
  BY <1>1, <1>2, BundleAssumption DEF InputsAreKnown, NotWhole
<1>7. EffectFileIsTrue
  <2> SUFFICES ASSUME effectFile \notin NotWhole PROVE EffectFileIsTrue
    BY DEF EffectFileIsTrue
  <2>1. effectFile = PausedRun
    BY <1>1 DEF NotWhole
  <2>2. effectFile.run = 0 /\ effectFile.state = "paused"
    BY <2>1 DEF PausedRun
  <2>3. \A f \in Fetchers : job[f].at \notin Busy
    BY <1>2, NoJobIs DEF Busy, Before
  <2> QED
    BY <1>2, <2>2, <2>3 DEF EffectFileIsTrue, EffectIsTrue
<1> QED
  BY <1>3, <1>4, <1>5, <1>6, <1>7 DEF BundleInvariant

LEMMA NextKeeps ==
  ASSUME BundleInvariant, [Next]_vars
  PROVE  BundleInvariant' /\ [NetNext]_netVars
<1>1. CASE UNCHANGED vars
  <2>1. NetInvariant' /\ InputsAreKnown'
    BY <1>1, NetStepKeeps, InputsStay DEF vars, files, BundleInvariant
  <2>2. WireIsAllowed'
    BY <1>1, AllowedStays DEF vars, BundleInvariant, WireIsAllowed, netVars
  <2>3. JobShape' /\ RunsApart' /\ Counted'
    BY <1>1 DEF vars, counters, netVars, BundleInvariant, JobShape, RunsApart, Counted, At
  <2>4. EffectFileIsTrue'
    BY <1>1 DEF vars, files, counters, netVars, BundleInvariant, EffectFileIsTrue, NotWhole,
                EffectIsTrue, IsKept, CommitReasons, Busy, Before
  <2>5. ASSUME NEW f \in Fetchers PROVE JobIsSound(f)'
    <3>1. Adds(0) /\ SameJob(f) /\ commands \in Nat
      BY <1>1 DEF vars, files, counters, netVars, Adds, SameJob, BundleInvariant, Counted
    <3>2. ~At(f, "idle") => job[f].run # 0
      BY <3>1 DEF BundleInvariant, JobIsSound
    <3> QED
      BY <3>1, <3>2, OthersSound DEF BundleInvariant
  <2> QED
    BY <1>1, <2>1, <2>2, <2>3, <2>4, <2>5 DEF BundleInvariant, vars
<1>2. CASE Edit
  BY <1>2, EditKeeps DEF Edit
<1>3. ASSUME NEW f \in Fetchers,
             \/ RunBundle(f) \/ RunPlain(f) \/ Review(f) \/ WalkAway(f) \/ Decide(f)
             \/ OpenApproval(f) \/ FillApproval(f) \/ ReadInputs(f) \/ ReadApproval(f)
             \/ Proceed(f) \/ CheckEffect(f) \/ OpenEffect(f) \/ FillEffect(f)
             \/ CheckTrace(f) \/ OpenTrace(f) \/ FillTrace(f)
      PROVE  BundleInvariant' /\ [NetNext]_netVars
  <2>1. UNCHANGED netVars
    BY <1>3 DEF RunBundle, RunPlain, Review, WalkAway, Decide, OpenApproval, FillApproval,
                ReadInputs, ReadApproval, Proceed, CheckEffect, OpenEffect, FillEffect,
                CheckTrace, OpenTrace, FillTrace
  <2> QED
    BY <1>3, <2>1, RunBundleKeeps, WalkAwayKeeps, DecideKeeps, OpenApprovalKeeps,
       FillApprovalKeeps, ReadInputsKeeps, ReadApprovalKeeps, ProceedKeeps, OpenEffectKeeps,
       FillEffectKeeps, OpenTraceKeeps, FillTraceKeeps
<1>4. ASSUME NEW f \in Fetchers, Refuse(f) \/ Withhold(f) \/ Outcome(f) \/ CommitEffect(f)
      PROVE  BundleInvariant' /\ [NetNext]_netVars
  <2>1. [NetNext]_netVars
    BY <1>4 DEF Refuse, Withhold, Outcome, CommitEffect, NetNext
  <2> QED
    BY <1>4, <2>1, RefuseKeeps, WithholdKeeps, OutcomeKeeps, CommitEffectKeeps
<1>5. ASSUME NEW f \in Fetchers, Crash(f)
      PROVE  BundleInvariant' /\ [NetNext]_netVars
  <2>1. [NetNext]_netVars
    BY <1>5 DEF Crash, NetNext
  <2> QED
    BY <1>5, <2>1, CrashKeeps
<1> QED
  BY <1>1, <1>2, <1>3, <1>4, <1>5, EvaluateKeeps DEF Next, Step

LEMMA BundleInvariantHolds == Spec => []BundleInvariant
<1>1. BundleInvariant /\ [Next]_vars => BundleInvariant'
  BY NextKeeps
<1> QED
  BY <1>1, InitInvariant, PTL DEF Spec

-----------------------------------------------------------------------------
(* A command that nobody disturbs: what it finds at each place is what it   *)
(* left there, so that it ends with its own report, and a decision with the *)
(* report of what was decided.                                              *)

Recording == {"bundle", "approve", "deny"}
Deciding == {"approve", "deny"}
Running == {"inputs", "approval", "evaluate", "gate", "commit"}
Reporting == {"check_effect", "open_effect", "fill_effect",
              "check_trace", "open_trace", "fill_trace"}

\* Each command is where only it can be.
CommandFits(f) ==
  /\ At(f, "review") => job[f].command = "review"
  /\ job[f].at \in {"open_approval", "fill_approval"} => job[f].command \in Deciding
  /\ job[f].at \in Running => job[f].command \in Recording \cup {"interpret", "plain"}
  /\ job[f].at \in Reporting =>
       /\ job[f].command \in Recording
       /\ \E state, why : job[f].effect = Effect(f, state, why)
  /\ job[f].at \in {"check_effect", "check_trace"} => ~job[f].overwrite

\* The outputs are as the command found and has left them.
OutputsStay(f) ==
  /\ job[f].at \in Running \cup {"check_effect", "open_effect"}
       /\ job[f].command \in Recording =>
       OutputsAreWritable(job[f].overwrite)
  /\ job[f].at \in {"fill_effect", "check_trace", "open_trace"} =>
       job[f].overwrite \/ traceFile = Absent
  /\ At(f, "fill_effect") => effectFile = Empty
  /\ job[f].at \in {"check_trace", "open_trace", "fill_trace"} => effectFile = job[f].effect
  /\ At(f, "fill_trace") => traceFile = Empty

StatusOf(command) == IF command = "approve" THEN "approved" ELSE "denied"

\* What was decided is what the command reads back, and what its evaluation and
\* its report come to.
DecisionStands(f) ==
  LET command == job[f].command
      decision == DecisionRecord(StatusOf(command))
  IN  /\ job[f].at \in {"open_approval", "fill_approval", "inputs", "approval"} =>
           InputsAreCanonical /\ ReadProposal.intent # Unset
      /\ job[f].at \in {"open_approval", "fill_approval"} => job[f].approval = decision
      /\ At(f, "fill_approval") => approvalFile = Empty
      /\ job[f].at \in {"inputs", "approval"} => approvalFile = decision
      /\ job[f].at \in Running \cup Reporting => job[f].overwrite
      /\ At(f, "approval") => job[f].scope = ReadScope /\ job[f].proposal = ReadProposal
      /\ job[f].at \in {"evaluate", "gate", "commit"} =>
           Verdict(f) = IF command = "approve" THEN "none" ELSE "approval_denied"
      /\ At(f, "gate") /\ phase[f] = "failed" => reason[f] \notin ApprovalReasons
      /\ command = "deny" => ~At(f, "commit")
      /\ command = "deny" /\ job[f].at \in Reporting => \A w \in wire : w.id # job[f].run
      /\ job[f].at \in Reporting =>
           IF command = "approve"
           THEN job[f].effect.state # "paused" /\ job[f].effect.reason \notin ApprovalReasons
           ELSE job[f].effect.state = "rejected"

Alone(f) == ~At(f, "idle") /\ job[f].alone

AloneInvariant ==
  \A f \in Fetchers : Alone(f) =>
    /\ \A g \in Fetchers \ {f} : At(g, "idle")
    /\ CommandFits(f) /\ OutputsStay(f)

DecisionInvariant ==
  \A f \in Fetchers : Alone(f) /\ job[f].command \in Deciding => DecisionStands(f)

\* What stands for an absent, empty or garbled file, a null or a malformed field
\* is no record.
MarksAreNoRecords ==
  \A mark \in NotWhole \cup Missing \cup {Malformed} : mark # [x \in DOMAIN mark |-> mark[x]]

LEMMA InputsRead ==
  ASSUME UNCHANGED <<scopeFile, proposalFile>>
  PROVE  /\ InputsAreCanonical' <=> InputsAreCanonical
         /\ ReadScope' = ReadScope /\ ReadProposal' = ReadProposal
         /\ \A status : DecisionRecord(status)' = DecisionRecord(status)
<1>1. /\ InputsAreCanonical' <=> InputsAreCanonical
      /\ ReadScope' = ReadScope /\ ReadProposal' = ReadProposal
  BY DEF InputsAreCanonical, ReadScope, ReadProposal
<1>2. ASSUME NEW status PROVE DecisionRecord(status)' = DecisionRecord(status)
  BY <1>1 DEF DecisionRecord, MakeApprovalDecision, Decision, IntentSha256
<1> QED
  BY <1>1, <1>2

\* What a step leaves of a command that goes on as it is called.
SameCall(f) ==
  /\ job'[f].run = job[f].run /\ job'[f].command = job[f].command
  /\ job'[f].alone = job[f].alone

LEMMA GoesToSame ==
  ASSUME JobShape, NEW f \in Fetchers, NEW p, Goto(f, p)
  PROVE  /\ SameCall(f) /\ job'[f].at = p /\ job'[f].overwrite = job[f].overwrite
         /\ job'[f].scope = job[f].scope /\ job'[f].proposal = job[f].proposal
         /\ job'[f].approval = job[f].approval /\ job'[f].effect = job[f].effect
  BY GoesTo DEF SameCall

LEMMA EndsIdle ==
  ASSUME JobShape, NEW f \in Fetchers, End(f)
  PROVE  At(f, "idle")'
  BY NoJobIs DEF End, JobShape, At

LEMMA ConcludesWith ==
  ASSUME JobShape, NEW f \in Fetchers, NEW state, NEW why, Conclude(f, state, why),
         ~At(f, "idle")'
  PROVE  /\ job[f].command \notin {"interpret", "plain"}
         /\ SameCall(f) /\ job'[f].overwrite = job[f].overwrite
         /\ job'[f].at = IF job[f].overwrite THEN "open_effect" ELSE "check_effect"
         /\ job'[f].effect = Effect(f, state, why)
<1> DEFINE effect == Effect(f, state, why)
           place == IF job[f].overwrite THEN "open_effect" ELSE "check_effect"
<1>1. /\ job[f].command \notin {"interpret", "plain"}
      /\ job' = [job EXCEPT ![f].at = place, ![f].effect = effect]
  BY EndsIdle DEF Conclude, FirstStep
<1> HIDE DEF effect, place
<1>2. /\ job'[f] = [job[f] EXCEPT !.at = place, !.effect = effect]
      /\ DOMAIN job[f] = Fields
  BY <1>1 DEF JobShape
<1>3. /\ SameCall(f) /\ job'[f].at = place /\ job'[f].overwrite = job[f].overwrite
      /\ job'[f].effect = effect
  BY <1>2 DEF Fields, SameCall
<1> QED
  BY <1>1, <1>3 DEF effect, place

LEMMA DecideDoes ==
  ASSUME JobShape, NEW f \in Fetchers, Decide(f), ~At(f, "idle")'
  PROVE  /\ IsPending /\ job'[f].at = "open_approval" /\ job'[f].alone = job[f].alone
         /\ job'[f].command \in Deciding
         /\ job'[f].approval = DecisionRecord(StatusOf(job'[f].command))
<1>1. IsPending
  BY EndsIdle DEF Decide
<1>2. PICK command \in {"approve", "deny"} :
        job' = [job EXCEPT ![f].at = "open_approval", ![f].command = command,
                           ![f].approval = DecisionRecord(StatusOf(command))]
  BY <1>1 DEF Decide, StatusOf
<1> DEFINE decision == DecisionRecord(StatusOf(command))
<1> HIDE DEF decision
<1>3. /\ job'[f] = [job[f] EXCEPT !.at = "open_approval", !.command = command,
                                  !.approval = decision]
      /\ DOMAIN job[f] = Fields
  BY <1>2 DEF JobShape, decision
<1>4. /\ job'[f].at = "open_approval" /\ job'[f].alone = job[f].alone
      /\ job'[f].command = command /\ job'[f].approval = decision
  BY <1>3 DEF Fields
<1> QED
  BY <1>1, <1>4 DEF decision, Deciding

LEMMA FillApprovalDoes ==
  ASSUME JobShape, NEW f \in Fetchers, FillApproval(f)
  PROVE  SameCall(f) /\ job'[f].at = "inputs" /\ job'[f].overwrite = TRUE
<1>1. /\ job'[f] = [job[f] EXCEPT !.at = "inputs", !.overwrite = TRUE, !.approval = Unset]
      /\ DOMAIN job[f] = Fields
  BY DEF FillApproval, JobShape
<1> QED
  BY <1>1 DEF Fields, SameCall

LEMMA ReadInputsDoes ==
  ASSUME JobShape, NEW f \in Fetchers, ReadInputs(f), ~At(f, "idle")'
  PROVE  /\ SameCall(f) /\ job'[f].at = "approval" /\ job'[f].overwrite = job[f].overwrite
         /\ job'[f].scope = ReadScope /\ job'[f].proposal = ReadProposal
<1> DEFINE scope == ReadScope
           proposal == ReadProposal
<1>1. job' = [job EXCEPT ![f].at = "approval", ![f].scope = scope, ![f].proposal = proposal]
  BY EndsIdle DEF ReadInputs
<1> HIDE DEF scope, proposal
<1>2. /\ job'[f] = [job[f] EXCEPT !.at = "approval", !.scope = scope, !.proposal = proposal]
      /\ DOMAIN job[f] = Fields
  BY <1>1 DEF JobShape
<1>3. /\ SameCall(f) /\ job'[f].at = "approval" /\ job'[f].overwrite = job[f].overwrite
      /\ job'[f].scope = scope /\ job'[f].proposal = proposal
  BY <1>2 DEF Fields, SameCall
<1> QED
  BY <1>3 DEF scope, proposal

LEMMA ReadApprovalDoes ==
  ASSUME JobShape, NEW f \in Fetchers, ReadApproval(f), ~At(f, "idle")'
  PROVE  /\ SameCall(f) /\ job'[f].at = "evaluate" /\ job'[f].overwrite = job[f].overwrite
         /\ job'[f].scope = job[f].scope /\ job'[f].proposal = job[f].proposal
         /\ \/ approvalFile = Absent \/ job[f].command \in {"interpret", "plain"}
            \/ job'[f].approval = ApprovalFromRecord(approvalFile)
<1>1. CASE /\ approvalFile = Absent \/ job[f].command \in {"interpret", "plain"}
           /\ Goto(f, "evaluate")
  BY <1>1, GoesToSame
<1>2. CASE job' = [job EXCEPT ![f].at = "evaluate",
                              ![f].approval = ApprovalFromRecord(approvalFile)]
  <2> DEFINE approval == ApprovalFromRecord(approvalFile)
  <2> HIDE DEF approval
  <2>1. /\ job'[f] = [job[f] EXCEPT !.at = "evaluate", !.approval = approval]
        /\ DOMAIN job[f] = Fields
    BY <1>2 DEF JobShape, approval
  <2>2. /\ SameCall(f) /\ job'[f].at = "evaluate" /\ job'[f].overwrite = job[f].overwrite
        /\ job'[f].scope = job[f].scope /\ job'[f].proposal = job[f].proposal
        /\ job'[f].approval = approval
    BY <2>1 DEF Fields, SameCall
  <2> QED
    BY <2>2 DEF approval
<1> QED
  BY <1>1, <1>2, EndsIdle DEF ReadApproval

-----------------------------------------------------------------------------
Fits(f) == CommandFits(f) /\ OutputsStay(f)

\* A command up to its commit only reads the outputs.
LEMMA StartFits ==
  ASSUME BundleInvariant, NEW f \in Fetchers, Fits(f), ~At(f, "idle")',
         \/ Decide(f) \/ OpenApproval(f) \/ FillApproval(f) \/ ReadInputs(f) \/ ReadApproval(f)
         \/ Proceed(f) \/ CommitEffect(f)
  PROVE  Fits(f)'
<1>1. JobShape
  BY DEF BundleInvariant
<1>2. UNCHANGED <<effectFile, traceFile>>
  BY DEF Decide, OpenApproval, FillApproval, ReadInputs, ReadApproval, Proceed, CommitEffect,
         files
<1> USE DEF Fits, CommandFits, OutputsStay, OutputsAreWritable, At, Running, Reporting, SameCall
<1>3. CASE Decide(f)
  BY <1>1, <1>3, DecideDoes
<1>4. CASE OpenApproval(f)
  BY <1>1, <1>4, GoesToSame DEF OpenApproval
<1>5. CASE FillApproval(f)
  BY <1>1, <1>5, FillApprovalDoes DEF FillApproval, Recording, Deciding
<1>6. CASE ReadInputs(f)
  BY <1>1, <1>2, <1>6, ReadInputsDoes DEF ReadInputs
<1>7. CASE ReadApproval(f)
  BY <1>1, <1>2, <1>7, ReadApprovalDoes DEF ReadApproval
<1>8. CASE Proceed(f)
  BY <1>1, <1>2, <1>8, GoesToSame DEF Proceed
<1>9. CASE CommitEffect(f)
  BY <1>2, <1>9 DEF CommitEffect
<1> QED
  BY <1>3, <1>4, <1>5, <1>6, <1>7, <1>8, <1>9

LEMMA ConclusionFits ==
  ASSUME BundleInvariant, NEW f \in Fetchers, Fits(f), ~At(f, "idle")',
         Evaluate(f) \/ Refuse(f) \/ Withhold(f) \/ Outcome(f)
  PROVE  Fits(f)'
<1>1. JobShape
  BY DEF BundleInvariant
<1>2. UNCHANGED <<effectFile, traceFile>>
  BY DEF Evaluate, Refuse, Withhold, Outcome, files
<1>3. job[f].at \in {"evaluate", "gate", "commit"}
  BY DEF Evaluate, Refuse, Withhold, Outcome, At
<1>4. CASE Goto(f, "gate")
  BY <1>1, <1>2, <1>3, <1>4, GoesToSame
     DEF Fits, CommandFits, OutputsStay, OutputsAreWritable, At, Running, Reporting, SameCall
<1>5. ASSUME NEW state, NEW why, Conclude(f, state, why)
      PROVE  Fits(f)'
  <2>1. /\ job[f].command \notin {"interpret", "plain"}
        /\ SameCall(f) /\ job'[f].overwrite = job[f].overwrite
        /\ job'[f].at = IF job[f].overwrite THEN "open_effect" ELSE "check_effect"
        /\ job'[f].effect = Effect(f, state, why)
    BY <1>1, <1>5, ConcludesWith
  <2>2. Effect(f, state, why) = Effect(f, state, why)'
    BY <2>1 DEF Effect, SameCall
  <2>3. CommandFits(f)'
    BY <1>3, <2>1, <2>2 DEF Fits, CommandFits, At, Running, Reporting, SameCall
  <2> QED
    BY <1>2, <1>3, <2>1, <2>3
       DEF Fits, CommandFits, OutputsStay, OutputsAreWritable, At, Running, Reporting, SameCall
<1> QED
  BY <1>1, <1>4, <1>5, EndsIdle DEF Evaluate, Refuse, Withhold, Outcome

LEMMA ReportGoesOn ==
  ASSUME JobShape, NEW f \in Fetchers, ~At(f, "idle")',
         CheckEffect(f) \/ OpenEffect(f) \/ FillEffect(f) \/ CheckTrace(f) \/ OpenTrace(f)
  PROVE  /\ SameCall(f) /\ job'[f].overwrite = job[f].overwrite
         /\ job'[f].effect = job[f].effect /\ job'[f].at \in Reporting
         /\ CheckEffect(f) => job'[f].at = "open_effect"
         /\ OpenEffect(f) => job'[f].at = "fill_effect"
         /\ FillEffect(f) => job'[f].at = IF job[f].overwrite THEN "open_trace" ELSE "check_trace"
         /\ CheckTrace(f) => job'[f].at = "open_trace"
         /\ OpenTrace(f) => job'[f].at = "fill_trace"
<1> USE GoesToSame, EndsIdle DEF Reporting
<1>1. CASE CheckEffect(f)
  BY <1>1 DEF CheckEffect, OpenEffect, FillEffect, CheckTrace, OpenTrace, At
<1>2. CASE OpenEffect(f)
  BY <1>2 DEF CheckEffect, OpenEffect, FillEffect, CheckTrace, OpenTrace, At
<1>3. CASE FillEffect(f)
  BY <1>3 DEF CheckEffect, OpenEffect, FillEffect, CheckTrace, OpenTrace, At, FirstStep
<1>4. CASE CheckTrace(f)
  BY <1>4 DEF CheckEffect, OpenEffect, FillEffect, CheckTrace, OpenTrace, At
<1>5. CASE OpenTrace(f)
  BY <1>5 DEF CheckEffect, OpenEffect, FillEffect, CheckTrace, OpenTrace, At
<1> QED
  BY <1>1, <1>2, <1>3, <1>4, <1>5

LEMMA ReportFits ==
  ASSUME BundleInvariant, NEW f \in Fetchers, Fits(f), ~At(f, "idle")',
         CheckEffect(f) \/ OpenEffect(f) \/ FillEffect(f) \/ CheckTrace(f) \/ OpenTrace(f)
  PROVE  Fits(f)'
<1>1. JobShape /\ job[f].at \in Reporting
  BY DEF BundleInvariant, CheckEffect, OpenEffect, FillEffect, CheckTrace, OpenTrace, At,
         Reporting
<1>2. /\ SameCall(f) /\ job'[f].overwrite = job[f].overwrite
      /\ job'[f].effect = job[f].effect /\ job'[f].at \in Reporting
      /\ FillEffect(f) => job'[f].at = IF job[f].overwrite THEN "open_trace" ELSE "check_trace"
      /\ ~FillEffect(f) => job'[f].at \in {"open_effect", "fill_effect", "open_trace", "fill_trace"}
  BY <1>1, ReportGoesOn
<1>3. CommandFits(f)'
  <2>1. PICK state, why : job[f].effect = Effect(f, state, why)
    BY <1>1 DEF Fits, CommandFits
  <2>2. job'[f].effect = Effect(f, state, why)'
    BY <1>2, <2>1 DEF Effect, SameCall
  <2> QED
    BY <1>1, <1>2, <2>2 DEF Fits, CommandFits, At, Running, Reporting, SameCall
<1> USE DEF Fits, OutputsStay, OutputsAreWritable, CommandFits, At, Running, Reporting, SameCall
<1>4. CASE CheckEffect(f)
  BY <1>1, <1>2, <1>3, <1>4, ReportGoesOn DEF CheckEffect, files
<1>5. CASE OpenEffect(f)
  BY <1>1, <1>2, <1>3, <1>5, ReportGoesOn DEF OpenEffect
<1>6. CASE FillEffect(f)
  BY <1>1, <1>2, <1>3, <1>6, ReportGoesOn DEF FillEffect, Filled
<1>7. CASE CheckTrace(f)
  BY <1>1, <1>2, <1>3, <1>7, ReportGoesOn DEF CheckTrace, files
<1>8. CASE OpenTrace(f)
  BY <1>1, <1>2, <1>3, <1>8, ReportGoesOn DEF OpenTrace
<1> QED
  BY <1>4, <1>5, <1>6, <1>7, <1>8

-----------------------------------------------------------------------------
LEMMA TurnMoves ==
  ASSUME JobShape, NEW f \in Fetchers, Step(f) \/ Crash(f)
  PROVE  ~At(f, "idle") /\ \A g \in Fetchers \ {f} : job'[g] = job[g]
<1>1. ~At(f, "idle")
  BY DEF Step, At, WalkAway, Decide, OpenApproval, FillApproval, ReadInputs, ReadApproval,
         Evaluate, Refuse, Withhold, Proceed, CommitEffect, Outcome, CheckEffect, OpenEffect,
         FillEffect, CheckTrace, OpenTrace, FillTrace, Crash
<1> SUFFICES ASSUME NEW g \in Fetchers \ {f} PROVE job'[g] = job[g]
  BY <1>1
<1>2. g \in DOMAIN job
  BY DEF JobShape
<1>3. ASSUME End(f) \/ \E p : Goto(f, p) PROVE job'[g] = job[g]
  BY <1>2, <1>3 DEF End, Goto
<1>4. ASSUME NEW state, NEW why, Conclude(f, state, why) PROVE job'[g] = job[g]
  BY <1>2, <1>3, <1>4 DEF Conclude
<1>5. CASE Decide(f)
  BY <1>2, <1>3, <1>5 DEF Decide
<1>6. CASE FillApproval(f)
  BY <1>2, <1>6 DEF FillApproval
<1>7. CASE ReadInputs(f)
  BY <1>2, <1>3, <1>7 DEF ReadInputs
<1>8. CASE ReadApproval(f)
  BY <1>2, <1>3, <1>8 DEF ReadApproval
<1>9. CASE Evaluate(f) \/ Refuse(f) \/ Withhold(f) \/ Outcome(f)
  BY <1>3, <1>4, <1>9 DEF Evaluate, Refuse, Withhold, Outcome
<1>10. CASE CommitEffect(f)
  BY <1>10 DEF CommitEffect
<1>11. CASE \/ WalkAway(f) \/ OpenApproval(f) \/ Proceed(f) \/ CheckEffect(f)
            \/ OpenEffect(f) \/ FillEffect(f) \/ CheckTrace(f) \/ OpenTrace(f)
            \/ FillTrace(f) \/ Crash(f)
  BY <1>3, <1>11 DEF WalkAway, OpenApproval, Proceed, CheckEffect, OpenEffect, FillEffect,
                     CheckTrace, OpenTrace, FillTrace, Crash
<1> QED
  BY <1>5, <1>6, <1>7, <1>8, <1>9, <1>10, <1>11 DEF Step

LEMMA TurnCalls ==
  ASSUME JobShape, NEW f \in Fetchers, Step(f), ~Decide(f), ~At(f, "idle")'
  PROVE  SameCall(f)
<1>1. CASE FillApproval(f) \/ ReadInputs(f) \/ ReadApproval(f)
  BY <1>1, FillApprovalDoes, ReadInputsDoes, ReadApprovalDoes
<1>2. CASE Evaluate(f) \/ Refuse(f) \/ Withhold(f) \/ Outcome(f)
  BY <1>2, GoesToSame, EndsIdle, ConcludesWith DEF Evaluate, Refuse, Withhold, Outcome
<1>3. CASE CommitEffect(f)
  BY <1>3 DEF CommitEffect, SameCall
<1>4. CASE \/ WalkAway(f) \/ OpenApproval(f) \/ Proceed(f) \/ CheckEffect(f)
           \/ OpenEffect(f) \/ FillEffect(f) \/ CheckTrace(f) \/ OpenTrace(f) \/ FillTrace(f)
  BY <1>4, GoesToSame, EndsIdle
     DEF WalkAway, OpenApproval, Proceed, CheckEffect, OpenEffect, FillEffect, CheckTrace,
         OpenTrace, FillTrace
<1> QED
  BY <1>1, <1>2, <1>3, <1>4 DEF Step

LEMMA TurnStays ==
  ASSUME JobShape, NEW f \in Fetchers, Step(f), ~At(f, "idle")'
  PROVE  job'[f].alone = job[f].alone
  BY DecideDoes, TurnCalls DEF SameCall

LEMMA TurnFits ==
  ASSUME BundleInvariant, NEW f \in Fetchers, Fits(f), Step(f), ~At(f, "idle")'
  PROVE  Fits(f)'
<1>1. ~WalkAway(f) /\ ~FillTrace(f)
  BY EndsIdle DEF WalkAway, FillTrace, BundleInvariant
<1> QED
  BY <1>1, StartFits, ConclusionFits, ReportFits DEF Step

\* A command that begins is disturbed by every other that runs, and disturbs it.
LEMMA BeginDisturbs ==
  ASSUME BundleInvariant, NEW f \in Fetchers, NEW new, Begin(f, new), DOMAIN new = Fields
  PROVE  /\ \A g \in Fetchers \ {f} : /\ At(g, "idle")' <=> At(g, "idle")
                                      /\ ~Alone(g)'
         /\ job'[f].at = new.at /\ job'[f].command = new.command
         /\ job'[f].overwrite = new.overwrite /\ job'[f].run = commands + 1
         /\ job'[f].alone <=> \A g \in Fetchers \ {f} : At(g, "idle")
<1> DEFINE alone == \A h \in Fetchers \ {f} : At(h, "idle")
           mine == [new EXCEPT !.run = commands + 1, !.alone = alone]
<1>1. job' = [g \in Fetchers |-> IF g # f THEN Disturbed(g) ELSE mine]
  BY DEF Begin
<1>2. /\ mine.at = new.at /\ mine.command = new.command /\ mine.overwrite = new.overwrite
      /\ mine.run = commands + 1 /\ mine.alone = alone
  <2> HIDE DEF alone
  <2> QED
    BY DEF Fields
<1>3. job'[f] = mine
  BY <1>1
<1> HIDE DEF mine
<1>4. ASSUME NEW g \in Fetchers \ {f}
      PROVE  (At(g, "idle")' <=> At(g, "idle")) /\ ~Alone(g)'
  <2>1. job'[g] = Disturbed(g) /\ Disturbed(g).at = job[g].at
    BY <1>1, DisturbedIs
  <2>2. ~At(g, "idle") => Disturbed(g).alone = FALSE
    BY DEF Disturbed, BundleInvariant, JobShape, Fields
  <2> QED
    BY <2>1, <2>2 DEF Alone, At
<1> QED
  BY <1>2, <1>3, <1>4

LEMMA StartsFit ==
  ASSUME BundleInvariant, NEW f \in Fetchers, RunBundle(f) \/ RunPlain(f) \/ Review(f)
  PROVE  /\ Fits(f)' /\ job'[f].command \notin Deciding
         /\ \A g \in Fetchers \ {f} : /\ At(g, "idle")' <=> At(g, "idle")
                                      /\ ~Alone(g)'
         /\ Alone(f)' => \A g \in Fetchers \ {f} : At(g, "idle")'
<1> USE DEF Fits, CommandFits, OutputsStay, OutputsAreWritable, At, Running, Reporting,
            Recording, Deciding, Alone, files
<1>1. CASE RunBundle(f)
  <2>1. PICK overwrite \in BOOLEAN :
          /\ OutputsAreWritable(overwrite)
          /\ Begin(f, [NoJob EXCEPT !.at = "inputs", !.command = "bundle",
                                    !.overwrite = overwrite])
    BY <1>1 DEF RunBundle
  <2> DEFINE new == [NoJob EXCEPT !.at = "inputs", !.command = "bundle",
                                  !.overwrite = overwrite]
  <2>2. /\ DOMAIN new = Fields /\ new.at = "inputs" /\ new.command = "bundle"
        /\ new.overwrite = overwrite
    BY NoJobIs DEF Fields
  <2>3. Begin(f, new) /\ UNCHANGED <<effectFile, traceFile>>
    BY <1>1, <2>1 DEF RunBundle
  <2> HIDE DEF new
  <2> QED
    BY <2>1, <2>2, <2>3, BeginDisturbs
<1>2. CASE RunPlain(f)
  <2>1. PICK command \in {"interpret", "plain"} :
          Begin(f, [NoJob EXCEPT !.at = "inputs", !.command = command])
    BY <1>2 DEF RunPlain
  <2> DEFINE new == [NoJob EXCEPT !.at = "inputs", !.command = command]
  <2>2. DOMAIN new = Fields /\ new.at = "inputs" /\ new.command = command
    BY NoJobIs DEF Fields
  <2>3. Begin(f, new)
    BY <2>1
  <2> HIDE DEF new
  <2> QED
    BY <1>2, <2>2, <2>3, BeginDisturbs
<1>3. CASE Review(f)
  <2> DEFINE new == [NoJob EXCEPT !.at = "review", !.command = "review"]
  <2>1. DOMAIN new = Fields /\ new.at = "review" /\ new.command = "review"
    BY NoJobIs DEF Fields
  <2>2. Begin(f, new)
    BY <1>3 DEF Review
  <2> HIDE DEF new
  <2> QED
    BY <1>3, <2>1, <2>2, BeginDisturbs
<1> QED
  BY <1>1, <1>2, <1>3

\* An edit disturbs whoever is running.
LEMMA EditDisturbs ==
  ASSUME BundleInvariant, Edit, NEW f \in Fetchers
  PROVE  ~Alone(f)'
<1>1. job'[f] = Disturbed(f) /\ Disturbed(f).at = job[f].at
  BY DisturbedIs DEF Edit
<1>2. ~At(f, "idle") => Disturbed(f).alone = FALSE
  BY DEF Disturbed, BundleInvariant, JobShape, Fields
<1> QED
  BY <1>1, <1>2 DEF Alone, At

LEMMA AloneKeeps ==
  ASSUME BundleInvariant, AloneInvariant, [Next]_vars
  PROVE  AloneInvariant'
<1> SUFFICES ASSUME NEW f \in Fetchers, Alone(f)'
             PROVE  (\A g \in Fetchers \ {f} : At(g, "idle")') /\ Fits(f)'
  BY DEF AloneInvariant, Fits
<1>1. Alone(f) => (\A g \in Fetchers \ {f} : At(g, "idle")) /\ Fits(f)
  BY DEF AloneInvariant, Fits
<1>2. CASE UNCHANGED vars
  BY <1>1, <1>2 DEF vars, files, counters, netVars, Alone, At, Fits, CommandFits, OutputsStay,
                    OutputsAreWritable, Effect
<1>3. CASE Edit
  BY <1>3, EditDisturbs
<1>4. ASSUME NEW g \in Fetchers, RunBundle(g) \/ RunPlain(g) \/ Review(g)
      PROVE  (\A h \in Fetchers \ {f} : At(h, "idle")') /\ Fits(f)'
  BY <1>4, StartsFit
<1>5. ASSUME NEW g \in Fetchers, Step(g) \/ Crash(g)
      PROVE  (\A h \in Fetchers \ {f} : At(h, "idle")') /\ Fits(f)'
  <2>1. ~At(g, "idle") /\ \A h \in Fetchers \ {g} : job'[h] = job[h]
    BY <1>5, TurnMoves DEF BundleInvariant
  <2>2. g = f
    BY <1>1, <2>1 DEF Alone, At
  <2>3. Step(f)
    BY <1>5, <2>2, EndsIdle DEF Crash, Alone, BundleInvariant
  <2>4. ~At(f, "idle")'
    BY DEF Alone
  <2>5. CASE Alone(f)
    BY <1>1, <2>1, <2>2, <2>3, <2>4, <2>5, TurnFits DEF At
  <2>6. CASE ~Alone(f)
    <3>1. job'[f].alone = job[f].alone
      BY <2>3, <2>4, TurnStays DEF BundleInvariant
    <3> QED
      BY <2>1, <2>2, <2>6, <3>1 DEF Alone
  <2> QED
    BY <2>5, <2>6
<1> QED
  BY <1>2, <1>3, <1>4, <1>5 DEF Next, Step

-----------------------------------------------------------------------------
LEMMA RecordsAreWhole ==
  ASSUME MarksAreNoRecords, NEW r, r = [x \in DOMAIN r |-> r[x]]
  PROVE  r \notin NotWhole \cup Missing \cup {Malformed}
  BY DEF MarksAreNoRecords

LEMMA EffectIsWhole ==
  ASSUME MarksAreNoRecords, NEW f, NEW state, NEW why
  PROVE  Effect(f, state, why) \notin NotWhole /\ Effect(f, state, why).run = job[f].run
<1> DEFINE r == Effect(f, state, why)
<1>1. r = [x \in DOMAIN r |-> r[x]] /\ r.run = job[f].run
  BY DEF Effect
<1> HIDE DEF r
<1>2. r \notin NotWhole
  BY <1>1, RecordsAreWhole
<1> QED
  BY <1>1, <1>2 DEF r

LEMMA TraceIsWhole ==
  ASSUME MarksAreNoRecords, NEW n
  PROVE  [run |-> n] \notin NotWhole /\ [run |-> n].run = n
<1> DEFINE r == [run |-> n]
<1>1. r = [x \in DOMAIN r |-> r[x]] /\ r.run = n
  OBVIOUS
<1> HIDE DEF r
<1>2. r \notin NotWhole
  BY <1>1, RecordsAreWhole
<1> QED
  BY <1>1, <1>2 DEF r

\* An undisturbed command that ends does so by a step of its own.
LEMMA EndsByTurn ==
  ASSUME BundleInvariant, [Next]_vars, NEW f \in Fetchers, EndsAlone(f)
  PROVE  Alone(f) /\ Step(f) /\ At(f, "idle")'
<1>1. Alone(f) /\ At(f, "idle")' /\ accidents' = accidents /\ accidents \in Nat
  BY BundleAssumption DEF EndsAlone, Alone, At, BundleInvariant, Counted
<1>2. ~Edit /\ \A g \in Fetchers : ~Crash(g)
  BY <1>1 DEF Edit, Crash, Accident
<1>3. job' # job
  BY <1>1 DEF Alone, At
<1>4. ASSUME NEW g \in Fetchers, RunBundle(g) \/ RunPlain(g) \/ Review(g)
      PROVE  FALSE
  <2>1. At(g, "idle")
    BY <1>4 DEF RunBundle, RunPlain, Review, Begin
  <2>2. g # f
    BY <1>1, <2>1 DEF Alone
  <2> QED
    BY <1>1, <1>4, <2>2, StartsFit DEF Alone
<1>5. ASSUME NEW g \in Fetchers, Step(g) PROVE g = f
  BY <1>1, <1>5, TurnMoves DEF BundleInvariant, Alone, At
<1>6. PICK g \in Fetchers : Step(g)
  BY <1>2, <1>3, <1>4 DEF Next, Step, vars
<1> QED
  BY <1>1, <1>5, <1>6

\* Where an undisturbed command that has something to report can end: when the
\* reports are written, by the adapter's exception, or before it could send
\* anything.
LEMMA EndsReported ==
  ASSUME MarksAreNoRecords, BundleInvariant, AloneInvariant, [Next]_vars,
         NEW f \in Fetchers, EndsAlone(f), job[f].command \in Recording, ~Raised(f)
  PROVE  \/ At(f, "fill_trace") /\ FillTrace(f) /\ Reported(f) /\ effectFile' = job[f].effect
         \/ job[f].at \in Before /\ (ReadInputs(f) \/ ReadApproval(f) \/ Refuse(f) \/ Withhold(f))
<1>1. Alone(f) /\ Step(f) /\ At(f, "idle")'
  BY EndsByTurn
<1>2. CommandFits(f) /\ OutputsStay(f) /\ JobShape
  BY <1>1 DEF AloneInvariant, BundleInvariant
<1>3. ~WalkAway(f) /\ ~Decide(f)
  BY <1>2 DEF CommandFits, Recording, WalkAway, Decide
<1>4. ASSUME NEW state, NEW why, Conclude(f, state, why) PROVE FALSE
  <2> DEFINE place == FirstStep(f, "check_effect", "open_effect")
  <2>1. job' = [job EXCEPT ![f].at = place, ![f].effect = Effect(f, state, why)]
    BY <1>4 DEF Conclude, Recording
  <2>2. place # "idle"
    BY DEF FirstStep
  <2> HIDE DEF place
  <2>3. job'[f].at = place
    BY <1>2, <2>1 DEF JobShape, Fields
  <2> QED
    BY <1>1, <2>2, <2>3 DEF At
<1>5. ASSUME NEW p \in Places \ {"idle"}, Goto(f, p) PROVE FALSE
  BY <1>1, <1>2, <1>5, GoesToSame DEF At
<1>6. ~Evaluate(f) /\ ~Outcome(f) /\ ~Proceed(f) /\ ~CommitEffect(f)
  BY <1>1, <1>4, <1>5
     DEF Evaluate, Outcome, Report, Raised, Proceed, CommitEffect, Places, Alone, At
<1>7. /\ ~OpenApproval(f) /\ ~FillApproval(f) /\ ~OpenEffect(f) /\ ~FillEffect(f)
      /\ ~OpenTrace(f)
  BY <1>1, <1>2, <1>5, FillApprovalDoes
     DEF OpenApproval, OpenEffect, FillEffect, OpenTrace, FirstStep, Places, At
<1>8. ~CheckEffect(f)
  <2> SUFFICES ASSUME CheckEffect(f) PROVE FALSE
    OBVIOUS
  <2>1. effectFile # Absent /\ At(f, "check_effect")
    BY <1>5 DEF CheckEffect, Places
  <2> QED
    BY <1>2, <2>1 DEF OutputsStay, OutputsAreWritable, CommandFits, Reporting, At
<1>9. ~CheckTrace(f)
  <2> SUFFICES ASSUME CheckTrace(f) PROVE FALSE
    OBVIOUS
  <2>1. traceFile # Absent /\ At(f, "check_trace")
    BY <1>5 DEF CheckTrace, Places
  <2> QED
    BY <1>2, <2>1 DEF OutputsStay, CommandFits, At
<1>10. CASE FillTrace(f)
  <2>1. /\ At(f, "fill_trace") /\ traceFile = Empty /\ effectFile' = job[f].effect
        /\ \E state, why : job[f].effect = Effect(f, state, why)
    BY <1>2, <1>10 DEF FillTrace, OutputsStay, CommandFits, At, Reporting
  <2>2. traceFile' = [run |-> job[f].run]
    BY <1>10, <2>1 DEF FillTrace, Filled
  <2>3. Reported(f)
    BY <2>1, <2>2, EffectIsWhole, TraceIsWhole DEF Reported, NotWhole
  <2> QED
    BY <1>10, <2>1, <2>3
<1>11. CASE ReadInputs(f) \/ ReadApproval(f) \/ Refuse(f) \/ Withhold(f)
  BY <1>11 DEF ReadInputs, ReadApproval, Refuse, Withhold, Before, At
<1> QED
  BY <1>1, <1>3, <1>6, <1>7, <1>8, <1>9, <1>10, <1>11 DEF Step

LEMMA AloneInvariantHolds == Spec => []AloneInvariant
<1>1. Init => AloneInvariant
  BY NoJobIs DEF Init, AloneInvariant, Alone, At
<1>2. BundleInvariant /\ AloneInvariant /\ [Next]_vars => AloneInvariant'
  BY AloneKeeps
<1> QED
  BY <1>1, <1>2, BundleInvariantHolds, PTL DEF Spec

-----------------------------------------------------------------------------
\* The decision of approve_bundle, read back for what it was made for, says yes
\* or no as it was meant.
LEMMA DecisionIsClear ==
  ASSUME MarksAreNoRecords, InputsAreCanonical, ReadProposal.intent # Unset,
         NEW status \in {"approved", "denied"}
  PROVE  LET r == DecisionRecord(status)
         IN  /\ r \notin NotWhole /\ ApprovalIsCanonical(r) /\ ~Wrapped(r)
             /\ ApprovalVerdict(ReadScope, ReadProposal.intent, Kind, ApprovalFromRecord(r),
                                FALSE, Now)
                  = IF status = "approved" THEN "none" ELSE "approval_denied"
<1> DEFINE intent == ReadProposal.intent
           d == Decision(status, ReadScope, intent, Unset)
           r == DecisionRecord(status)
           read == ApprovalFromRecord(r)
<1>1. /\ DOMAIN d = {"status", "scope_id", "intent_id", "intent_sha256", "expires_at"}
      /\ d.expires_at = Unset /\ d.status = status
      /\ d.scope_id = ReadScope.scope_id /\ d.intent_id = intent.intent_id
      /\ d.intent_sha256 = IntentSha256(intent)
  BY DEF Decision
<1>2. r = [field \in DOMAIN d \cup {"authority"} |->
             IF field = "authority" THEN "performer" ELSE d[field]]
  BY DEF DecisionRecord, MakeApprovalDecision
<1>3. RequiredString(intent.intent_id)
  <2>1. intent = IntentFromRecord(proposalFile.intent) /\ IntentIsCanonical(proposalFile.intent)
    BY DEF InputsAreCanonical, ReadProposal, ProposalFromRecord, ProposalIsCanonical
  <2>2. RequiredString(proposalFile.intent.intent_id)
    BY <2>1 DEF IntentIsCanonical
  <2>3. IntentFromRecord(proposalFile.intent).intent_id = proposalFile.intent.intent_id
    BY DEF IntentFromRecord
  <2> QED
    BY <2>1, <2>2, <2>3
<1> HIDE DEF d, r, intent
<1>4. DOMAIN r = DOMAIN d \cup {"authority"} /\ r = [x \in DOMAIN r |-> r[x]]
  BY <1>2
<1>5. /\ r.status = status /\ r.expires_at = Unset /\ r.authority = "performer"
      /\ r.scope_id = ReadScope.scope_id /\ r.intent_id = intent.intent_id
      /\ r.intent_sha256 = IntentSha256(intent)
  BY <1>1, <1>2
<1>6. r \notin NotWhole \cup Missing \cup {Malformed}
  BY <1>4, RecordsAreWhole
<1>7. ~Wrapped(r) /\ Unwrapped(r) = r
  BY <1>1, <1>4 DEF Unwrapped, Wrapped
<1>8. ApprovalIsCanonical(r)
  BY <1>5, <1>6, <1>7 DEF ApprovalIsCanonical, ApprovalStatuses, Authorities
<1>9. /\ read.status = status /\ read.expires_at = Unset
      /\ read.scope_id \in {Unset, ReadScope.scope_id}
      /\ read.intent_id = intent.intent_id /\ intent.intent_id # Unset
      /\ read.intent_sha256 \in {Unset, IntentSha256(intent)}
  BY <1>3, <1>5, <1>7, RecordAssumption
     DEF ApprovalFromRecord, StringOrUnset, OrUnset, RequiredString, Missing
<1>10. read # Unset
  <2>1. read = [x \in DOMAIN read |-> read[x]]
    BY DEF ApprovalFromRecord
  <2> HIDE DEF read
  <2> QED
    BY <2>1, RecordsAreWhole DEF Missing
<1> HIDE DEF read
<1>11. ApprovalFor(ReadScope, intent, Kind, read, FALSE) = read
  BY <1>10 DEF ApprovalFor
<1>12. ApprovalRejectionReason(ReadScope, intent, read, Now)
         = IF status = "approved" THEN "none" ELSE "approval_denied"
  BY <1>9, ApprovalAssumption DEF ApprovalRejectionReason, Expired
<1>13. ApprovalVerdict(ReadScope, intent, Kind, read, FALSE, Now)
         = IF status = "approved" THEN "none" ELSE "approval_denied"
  BY <1>9, <1>11, <1>12 DEF ApprovalVerdict
<1> QED
  BY <1>6, <1>7, <1>8, <1>13 DEF r, read, intent

\* Neither admission nor an adapter gives a reason of the approval checks.
LEMMA OtherReasons ==
  /\ \A scope, proposal : AdmissionReason(scope, proposal) \notin ApprovalReasons
  /\ \A why \in CommitReasons : why \notin ApprovalReasons
  /\ \A scope, intent, resolved : PrepareReason(scope, intent, resolved) \notin ApprovalReasons
<1>1. \A scope, proposal : AdmissionReason(scope, proposal) \notin ApprovalReasons
  BY DEF AdmissionReason, ApprovalReasons
<1>2. \A why \in CommitReasons : why \notin ApprovalReasons
  BY DEF CommitReasons, ApprovalReasons
<1>3. ASSUME NEW scope, NEW intent, NEW resolved
      PROVE  PrepareReason(scope, intent, resolved) \notin ApprovalReasons
  <2> DEFINE url == intent.input.url
  <2>1. AllowlistVerdict(url, scope.network_allow)
          \in {"none", "raises", "network_url_not_in_allowlist"}
    BY DEF AllowlistVerdict
  <2>2. UrlReason(url) \notin ApprovalReasons
    BY DEF UrlReason, ApprovalReasons
  <2> QED
    BY <2>1, <2>2 DEF PrepareReason, ApprovalReasons
<1> QED
  BY <1>1, <1>2, <1>3

LEMMA VerdictStays ==
  ASSUME NEW f \in Fetchers, job'[f].scope = job[f].scope,
         job'[f].proposal = job[f].proposal, job'[f].approval = job[f].approval
  PROVE  Verdict(f)' = Verdict(f)
  BY DEF Verdict, ApprovalVerdict, ApprovalFor, ApprovalRejectionReason, Decision, Expired,
         IntentSha256

\* The decision is taken, written and read back.
LEMMA DecisionIsRead ==
  ASSUME MarksAreNoRecords, BundleInvariant, NEW f \in Fetchers, Fits(f),
         job[f].command \in Deciding => DecisionStands(f), ~At(f, "idle")',
         \/ Decide(f) \/ OpenApproval(f) \/ FillApproval(f) \/ ReadInputs(f) \/ ReadApproval(f),
         job'[f].command \in Deciding
  PROVE  DecisionStands(f)'
<1>1. JobShape
  BY DEF BundleInvariant
<1>2. UNCHANGED <<scopeFile, proposalFile, netVars>>
  BY DEF Decide, OpenApproval, FillApproval, ReadInputs, ReadApproval, files
<1>3. /\ InputsAreCanonical' <=> InputsAreCanonical
      /\ ReadScope' = ReadScope /\ ReadProposal' = ReadProposal
      /\ \A status : DecisionRecord(status)' = DecisionRecord(status)
  BY <1>2, InputsRead
<1> USE DEF DecisionStands, At, Running, Reporting, SameCall
<1>4. CASE Decide(f)
  BY <1>1, <1>3, <1>4, DecideDoes DEF IsPending
<1>5. CASE OpenApproval(f)
  BY <1>1, <1>3, <1>5, GoesToSame DEF OpenApproval
<1>6. CASE FillApproval(f)
  BY <1>1, <1>3, <1>6, FillApprovalDoes DEF FillApproval, Filled
<1>7. CASE ReadInputs(f)
  BY <1>1, <1>3, <1>7, ReadInputsDoes DEF ReadInputs, files
<1>8. CASE ReadApproval(f)
  <2> DEFINE status == StatusOf(job[f].command)
             decision == DecisionRecord(status)
  <2>1. /\ SameCall(f) /\ job'[f].at = "evaluate" /\ job'[f].overwrite = job[f].overwrite
        /\ job'[f].scope = job[f].scope /\ job'[f].proposal = job[f].proposal
        /\ \/ approvalFile = Absent \/ job[f].command \in {"interpret", "plain"}
           \/ job'[f].approval = ApprovalFromRecord(approvalFile)
    BY <1>1, <1>8, ReadApprovalDoes
  <2>2. /\ At(f, "approval") /\ job[f].command \in Deciding /\ DecisionStands(f)
    BY <1>8, <2>1 DEF ReadApproval
  <2>3. /\ InputsAreCanonical /\ ReadProposal.intent # Unset /\ approvalFile = decision
        /\ job[f].scope = ReadScope /\ job[f].proposal = ReadProposal /\ job[f].overwrite
    BY <2>2
  <2>4. status \in {"approved", "denied"} /\ (status = "approved" <=> job[f].command = "approve")
    BY <2>2 DEF StatusOf, Deciding
  <2> HIDE DEF status, decision
  <2>5. /\ decision \notin NotWhole
        /\ ApprovalVerdict(ReadScope, ReadProposal.intent, Kind, ApprovalFromRecord(decision),
                           FALSE, Now)
             = IF status = "approved" THEN "none" ELSE "approval_denied"
    BY <2>3, <2>4, DecisionIsClear DEF decision
  <2>6. job'[f].approval = ApprovalFromRecord(decision)
    BY <2>1, <2>2, <2>3, <2>5 DEF NotWhole, Deciding
  <2>7. Verdict(f)' = ApprovalVerdict(ReadScope, ReadProposal.intent, Kind,
                                      ApprovalFromRecord(decision), FALSE, Now)
    BY <2>1, <2>3, <2>6
       DEF Verdict, ApprovalVerdict, ApprovalFor, ApprovalRejectionReason, Decision, Expired,
           IntentSha256
  <2>8. Verdict(f)' = IF job'[f].command = "approve" THEN "none" ELSE "approval_denied"
    BY <2>1, <2>4, <2>5, <2>7
  <2> QED
    BY <2>1, <2>3, <2>8
<1> QED
  BY <1>4, <1>5, <1>6, <1>7, <1>8

\* It is evaluated: approved it is not held back for the approval's sake, denied
\* it sends nothing.
LEMMA DecisionConcludes ==
  ASSUME BundleInvariant, NEW f \in Fetchers, DecisionStands(f), job[f].command \in Deciding,
         NEW state, NEW why, Conclude(f, state, why), ~At(f, "idle")',
         UNCHANGED wire, job[f].overwrite,
         job[f].command = "approve" => state # "paused" /\ why \notin ApprovalReasons,
         job[f].command = "deny" => state = "rejected" /\ NothingSent(job[f].run)
  PROVE  DecisionStands(f)'
<1>1. /\ SameCall(f) /\ job'[f].at = "open_effect" /\ job'[f].overwrite
      /\ job'[f].effect = Effect(f, state, why)
  BY ConcludesWith DEF BundleInvariant
<1>2. Effect(f, state, why).state = state /\ Effect(f, state, why).reason = why
  BY DEF Effect
<1> QED
  BY <1>1, <1>2 DEF DecisionStands, At, Running, Reporting, SameCall, NothingSent, Deciding

LEMMA DecisionIsEvaluated ==
  ASSUME BundleInvariant, NEW f \in Fetchers, DecisionStands(f),
         job[f].command \in Deciding, ~At(f, "idle")', Evaluate(f)
  PROVE  DecisionStands(f)'
<1> DEFINE why == AdmissionReason(job[f].scope, job[f].proposal)
           call == [id |-> job[f].run, scope |-> job[f].scope,
                    intent |-> job[f].proposal.intent]
<1>1. JobShape /\ At(f, "evaluate") /\ job[f].overwrite
  BY DEF BundleInvariant, Evaluate, DecisionStands, At, Running
<1>2. CASE why # "none"
  <2>1. Conclude(f, "rejected", why) /\ UNCHANGED wire /\ why \notin ApprovalReasons
    BY <1>2, OtherReasons DEF Evaluate, netVars
  <2>2. NothingSent(job[f].run)
    BY <1>1, SentNothingYet DEF Before, At
  <2> HIDE DEF why
  <2> QED
    BY <1>1, <2>1, <2>2, DecisionConcludes
<1>3. CASE why = "none"
  <2>1. Goto(f, "gate") /\ Prepare(f, call)
    BY <1>3 DEF Evaluate
  <2>2. job[f].scope \in NetScopes /\ job[f].proposal.intent \in NetIntents
    BY <1>1, <1>3 DEF BundleInvariant, JobIsSound, HasRead, AdmissionReason, At
  <2>3. call.scope = job[f].scope /\ call.intent = job[f].proposal.intent
    OBVIOUS
  <2> HIDE DEF call, why
  <2>4. phase'[f] = "failed" => reason'[f] \notin ApprovalReasons
    <3>1. PICK resolved \in Resolutions :
            LET refusal == PrepareReason(call.scope, call.intent, resolved)
            IN  IF refusal # "none" THEN Fails(f, refusal)
                ELSE To(f, "prepared") /\ UNCHANGED reason
      BY <2>1 DEF Prepare
    <3> DEFINE refusal == PrepareReason(call.scope, call.intent, resolved)
    <3>2. refusal \notin ApprovalReasons
      BY OtherReasons
    <3>3. IF refusal # "none" THEN Fails(f, refusal) ELSE To(f, "prepared")
      BY <3>1
    <3> HIDE DEF refusal
    <3> QED
      BY <3>2, <3>3 DEF Fails, To, BundleInvariant, NetInvariant, NetTypes
  <2>5. /\ SameCall(f) /\ job'[f].at = "gate" /\ job'[f].overwrite = job[f].overwrite
        /\ job'[f].scope = job[f].scope /\ job'[f].proposal = job[f].proposal
        /\ job'[f].approval = job[f].approval
    BY <1>1, <2>1, GoesToSame
  <2>6. Verdict(f)' = Verdict(f)
    BY <2>5, VerdictStays
  <2> QED
    BY <1>1, <2>4, <2>5, <2>6 DEF DecisionStands, At, Running, Reporting, SameCall
<1> QED
  BY <1>2, <1>3

LEMMA DecisionPasses ==
  ASSUME BundleInvariant, NEW f \in Fetchers, DecisionStands(f), job[f].command \in Deciding,
         ~At(f, "idle")',
         Refuse(f) \/ Withhold(f) \/ Proceed(f) \/ CommitEffect(f) \/ Outcome(f)
  PROVE  DecisionStands(f)'
<1>1. JobShape /\ job[f].at \in {"gate", "commit"} /\ job[f].overwrite
  BY DEF BundleInvariant, Refuse, Withhold, Proceed, CommitEffect, Outcome, DecisionStands, At,
         Running
<1>2. Verdict(f) = IF job[f].command = "approve" THEN "none" ELSE "approval_denied"
  BY <1>1 DEF DecisionStands
<1>3. CASE Refuse(f)
  <2>1. reason[f] \notin ApprovalReasons /\ Leave(f)
    BY <1>3 DEF Refuse, DecisionStands, Report
  <2>2. Conclude(f, "rejected", reason[f]) /\ UNCHANGED wire
    BY <1>1, <1>3, <2>1, EndsIdle DEF Refuse, Leave
  <2>3. NothingSent(job[f].run)
    BY <1>3, SentNothingYet DEF Refuse, Before, At
  <2> QED
    BY <1>1, <2>1, <2>2, <2>3, DecisionConcludes
<1>4. CASE Withhold(f)
  <2>1. UNCHANGED wire
    BY <1>4 DEF Withhold, Stop, Leave
  <2>2. NothingSent(job[f].run)
    BY <1>4, SentNothingYet DEF Withhold, Before, At
  <2>3. CASE job[f].command = "approve"
    <3>1. Conclude(f, "approved", "none")
      BY <1>2, <1>4, <2>3 DEF Withhold
    <3> QED
      BY <1>1, <2>1, <2>3, <3>1, DecisionConcludes DEF ApprovalReasons
  <2>4. CASE job[f].command = "deny"
    <3>1. Conclude(f, "rejected", "approval_denied")
      BY <1>2, <1>4, <2>4 DEF Withhold
    <3> QED
      BY <1>1, <2>1, <2>2, <2>4, <3>1, DecisionConcludes
  <2> QED
    BY <2>3, <2>4 DEF Deciding
<1>5. CASE Proceed(f)
  <2>1. /\ SameCall(f) /\ job'[f].at = "commit" /\ job'[f].overwrite = job[f].overwrite
        /\ job'[f].scope = job[f].scope /\ job'[f].proposal = job[f].proposal
        /\ job'[f].approval = job[f].approval
    BY <1>1, <1>5, GoesToSame DEF Proceed
  <2>2. Verdict(f)' = Verdict(f) /\ job[f].command = "approve"
    BY <1>2, <1>5, <2>1, VerdictStays DEF Proceed, Deciding
  <2> QED
    BY <1>1, <1>2, <2>1, <2>2 DEF DecisionStands, At, Running, Reporting, SameCall
<1>6. CASE CommitEffect(f)
  <2>1. UNCHANGED job /\ job[f].at = "commit"
    BY <1>6 DEF CommitEffect, At
  <2>2. Verdict(f)' = Verdict(f)
    BY <2>1, VerdictStays
  <2> QED
    BY <1>1, <1>2, <2>1, <2>2 DEF DecisionStands, At, Running, Reporting
<1>7. CASE Outcome(f)
  <2>1. job[f].command = "approve" /\ Leave(f) /\ At(f, "commit")
    BY <1>7 DEF Outcome, DecisionStands, Deciding, Report
  <2>2. UNCHANGED wire
    BY <2>1 DEF Leave
  <2>3. \/ Conclude(f, "committed", "none")
        \/ phase[f] = "failed" /\ Conclude(f, "rejected", reason[f])
    BY <1>1, <1>7, EndsIdle DEF Outcome, Report
  <2>4. phase[f] = "failed" => reason[f] \notin ApprovalReasons
    BY <2>1, OtherReasons DEF BundleInvariant, JobIsSound, Commits, At, ApprovalReasons
  <2> QED
    BY <1>1, <2>1, <2>2, <2>3, <2>4, DecisionConcludes DEF ApprovalReasons
<1> QED
  BY <1>3, <1>4, <1>5, <1>6, <1>7

LEMMA DecisionIsReported ==
  ASSUME BundleInvariant, NEW f \in Fetchers, DecisionStands(f), job[f].command \in Deciding,
         ~At(f, "idle")',
         CheckEffect(f) \/ OpenEffect(f) \/ FillEffect(f) \/ CheckTrace(f) \/ OpenTrace(f)
  PROVE  DecisionStands(f)'
<1>1. JobShape /\ job[f].at \in Reporting /\ UNCHANGED wire
  BY DEF BundleInvariant, CheckEffect, OpenEffect, FillEffect, CheckTrace, OpenTrace, At,
         Reporting, netVars
<1>2. /\ SameCall(f) /\ job'[f].at \in Reporting /\ job'[f].overwrite = job[f].overwrite
      /\ job'[f].effect = job[f].effect
  BY <1>1, ReportGoesOn
<1> QED
  BY <1>1, <1>2 DEF DecisionStands, At, Running, Reporting, SameCall

LEMMA DecisionKeeps ==
  ASSUME MarksAreNoRecords, BundleInvariant, AloneInvariant, DecisionInvariant, [Next]_vars
  PROVE  DecisionInvariant'
<1> SUFFICES ASSUME NEW f \in Fetchers, Alone(f)', job'[f].command \in Deciding
             PROVE  DecisionStands(f)'
  BY DEF DecisionInvariant
<1>1. ~At(f, "idle")'
  BY DEF Alone
<1>2. Alone(f) => /\ \A g \in Fetchers \ {f} : At(g, "idle")
                  /\ Fits(f)
                  /\ job[f].command \in Deciding => DecisionStands(f)
  BY DEF AloneInvariant, DecisionInvariant, Fits
<1>3. CASE UNCHANGED vars
  <2>1. Alone(f) /\ job[f].command \in Deciding
    BY <1>3 DEF vars, Alone, At
  <2>2. /\ InputsAreCanonical' <=> InputsAreCanonical
        /\ ReadScope' = ReadScope /\ ReadProposal' = ReadProposal
        /\ \A status : DecisionRecord(status)' = DecisionRecord(status)
    BY <1>3, InputsRead DEF vars, files
  <2>3. Verdict(f)' = Verdict(f)
    BY <1>3, VerdictStays DEF vars
  <2> QED
    BY <1>2, <1>3, <2>1, <2>2, <2>3 DEF vars, files, netVars, DecisionStands, At
<1>4. CASE Edit
  BY <1>4, EditDisturbs
<1>5. ASSUME NEW g \in Fetchers, RunBundle(g) \/ RunPlain(g) \/ Review(g)
      PROVE  DecisionStands(f)'
  BY <1>5, StartsFit
<1>6. ASSUME NEW g \in Fetchers, Step(g) \/ Crash(g)
      PROVE  DecisionStands(f)'
  <2>1. ~At(g, "idle") /\ \A h \in Fetchers \ {g} : job'[h] = job[h]
    BY <1>6, TurnMoves DEF BundleInvariant
  <2>2. g = f
    BY <1>2, <2>1 DEF Alone, At
  <2>3. Step(f)
    BY <1>1, <1>6, <2>2, EndsIdle DEF Crash, BundleInvariant
  <2>4. Alone(f)
    BY <1>1, <2>1, <2>2, <2>3, TurnStays DEF Alone, BundleInvariant
  <2>5. Fits(f) /\ (job[f].command \in Deciding => DecisionStands(f))
    BY <1>2, <2>4
  <2>6. CASE \/ Decide(f) \/ OpenApproval(f) \/ FillApproval(f) \/ ReadInputs(f)
             \/ ReadApproval(f)
    BY <1>1, <2>5, <2>6, DecisionIsRead
  <2>7. CASE ~(\/ Decide(f) \/ OpenApproval(f) \/ FillApproval(f) \/ ReadInputs(f)
               \/ ReadApproval(f))
    <3>1. job[f].command \in Deciding
      BY <1>1, <2>3, <2>7, TurnCalls DEF BundleInvariant, SameCall
    <3>2. ~WalkAway(f) /\ ~FillTrace(f)
      BY <1>1, EndsIdle DEF WalkAway, FillTrace, BundleInvariant
    <3> QED
      BY <1>1, <2>3, <2>5, <2>7, <3>1, <3>2, DecisionIsEvaluated, DecisionPasses,
         DecisionIsReported DEF Step
  <2> QED
    BY <2>6, <2>7
<1> QED
  BY <1>3, <1>4, <1>5, <1>6 DEF Next, Step

LEMMA DecisionInvariantHolds ==
  ASSUME MarksAreNoRecords
  PROVE  Spec => []DecisionInvariant
<1>1. Init => DecisionInvariant
  BY NoJobIs DEF Init, DecisionInvariant, Alone, At
<1>2. BundleInvariant /\ AloneInvariant /\ DecisionInvariant /\ [Next]_vars
        => DecisionInvariant'
  BY DecisionKeeps
<1> QED
  BY <1>1, <1>2, BundleInvariantHolds, AloneInvariantHolds, PTL DEF Spec

\* A decision that nobody disturbs does not end before it could send anything.
LEMMA DecisionEndsLate ==
  ASSUME MarksAreNoRecords, BundleInvariant, NEW f \in Fetchers, DecisionStands(f),
         job[f].command \in Deciding, ~Raised(f),
         ReadInputs(f) \/ ReadApproval(f) \/ Refuse(f) \/ Withhold(f)
  PROVE  ~At(f, "idle")'
<1>1. JobShape
  BY DEF BundleInvariant
<1>2. ASSUME NEW state, NEW why, Conclude(f, state, why) PROVE ~At(f, "idle")'
  <2> DEFINE effect == Effect(f, state, why)
             place == FirstStep(f, "check_effect", "open_effect")
  <2>1. job' = [job EXCEPT ![f].at = place, ![f].effect = effect]
    BY <1>2 DEF Conclude, Deciding
  <2>2. place # "idle"
    BY DEF FirstStep
  <2> HIDE DEF effect, place
  <2> QED
    BY <1>1, <2>1, <2>2 DEF JobShape, Fields, At
<1>3. CASE ReadInputs(f)
  <2> DEFINE scope == ReadScope
             proposal == ReadProposal
  <2>1. job' = [job EXCEPT ![f].at = "approval", ![f].scope = scope, ![f].proposal = proposal]
    BY <1>3 DEF ReadInputs, DecisionStands, At
  <2> HIDE DEF scope, proposal
  <2> QED
    BY <1>1, <2>1 DEF JobShape, Fields, At
<1>4. CASE ReadApproval(f)
  <2> DEFINE decision == DecisionRecord(StatusOf(job[f].command))
             approval == ApprovalFromRecord(approvalFile)
  <2>1. /\ approvalFile = decision /\ InputsAreCanonical /\ ReadProposal.intent # Unset
        /\ StatusOf(job[f].command) \in {"approved", "denied"}
    BY <1>4 DEF ReadApproval, DecisionStands, At, StatusOf
  <2>2. decision \notin NotWhole /\ ApprovalIsCanonical(decision) /\ ~Wrapped(decision)
    BY <2>1, DecisionIsClear
  <2> HIDE DEF decision
  <2>3. job' = [job EXCEPT ![f].at = "evaluate", ![f].approval = approval]
    BY <1>4, <2>1, <2>2 DEF ReadApproval, Deciding, NotWhole
  <2> HIDE DEF approval
  <2> QED
    BY <1>1, <2>3 DEF JobShape, Fields, At
<1>5. CASE Refuse(f)
  BY <1>2, <1>5 DEF Refuse, Raised
<1>6. CASE Withhold(f)
  <2>1. Verdict(f) \in {"none", "approval_denied"}
    BY <1>6 DEF Withhold, DecisionStands, At
  <2> QED
    BY <1>2, <1>6, <2>1 DEF Withhold
<1> QED
  BY <1>3, <1>4, <1>5, <1>6

-----------------------------------------------------------------------------
\* Whatever its operators do at once, a bundle uses the network exactly as the
\* adapter promises: every call is a new one, with a scope and an intent that
\* were lowered from the files, and no step goes past the adapter.
THEOREM BundleUsesAdapter == Spec => NetSpec
<1>1. Init => NetInit
  BY DEF Init
<1>2. BundleInvariant /\ [Next]_vars => [NetNext]_netVars
  BY NextKeeps
<1> QED
  BY <1>1, <1>2, BundleInvariantHolds, PTL DEF Spec, NetSpec

\* So what holds of the adapter holds under run bundles too: it connects only
\* to what was checked.
THEOREM BundleConnectsToChecked == Spec => []ConnectsToChecked
  BY BundleUsesAdapter, NetConnectsToChecked, PTL

\* It keeps only bounded answers of an allowed type to requests that were made.
THEOREM BundleStoredWithinScope == Spec => []StoredWithinScope
  BY BundleUsesAdapter, NetStoredWithinScope, PTL

\* Whoever overlaps, edits or dies, no request leaves under a scope.json that
\* asks for approval without an approval that was placed for exactly its scope
\* and intent, and none for what others are to perform.
THEOREM BundleRequestsApproved == Spec => []RequestsApproved
<1>1. BundleInvariant => RequestsApproved
  BY InvariantAnswers
<1> QED
  BY <1>1, BundleInvariantHolds, PTL

\* A whole effect.json does not claim a response that is not kept, nor hide a
\* request that was sent behind a pause or an early refusal.
THEOREM BundleEvidenceIsTrue == Spec => []EvidenceIsTrue
<1>1. BundleInvariant => EvidenceIsTrue
  BY InvariantAnswers
<1> QED
  BY <1>1, BundleInvariantHolds, PTL

\* Type correctness, with numbers of their own for running commands.
THEOREM BundleTypes == Spec => []TypeOK
<1>1. BundleInvariant => TypeOK
  BY InvariantTypes
<1> QED
  BY <1>1, BundleInvariantHolds, PTL

\* cli.py writes effect.json and trace.json after the effect: of a run, approve
\* or deny that nobody disturbs, that does not die and that no exception of the
\* adapter ends, a request that was sent is reported, in whole files under its
\* own number.
THEOREM BundleRequestsReported ==
  ASSUME MarksAreNoRecords
  PROVE  Spec => RequestsReported
<1>1. BundleInvariant /\ AloneInvariant /\ [Next]_vars
        => [\A f \in Fetchers : Raised(f) \/ RequestIsReported(f)]_vars
  <2> SUFFICES ASSUME BundleInvariant, AloneInvariant, [Next]_vars, NEW f \in Fetchers,
                      ~Raised(f), EndsAlone(f), job[f].command \in Recording,
                      NEW w \in wire, w.id = job[f].run
               PROVE  Reported(f)
    BY DEF RequestIsReported, Recording
  <2> QED
    BY EndsReported, SentNothingYet DEF NothingSent
<1> QED
  BY <1>1, BundleInvariantHolds, AloneInvariantHolds, PTL DEF Spec, RequestsReported

\* approve_bundle writes the decision and runs the bundle again: of an approval or
\* a denial that nobody disturbs, that does not die and whose run no exception of
\* the adapter ends, the report is the outcome of that decision; an approved run
\* is neither paused nor turned away for want of approval, a denied one is
\* rejected and sends nothing.
THEOREM BundleDecisionFollowed ==
  ASSUME MarksAreNoRecords
  PROVE  Spec => DecisionFollowed
<1>1. BundleInvariant /\ AloneInvariant /\ DecisionInvariant /\ [Next]_vars
        => [\A f \in Fetchers : Raised(f) \/ DecisionIsFollowed(f)]_vars
  <2> SUFFICES ASSUME BundleInvariant, AloneInvariant, DecisionInvariant, [Next]_vars,
                      NEW f \in Fetchers, ~Raised(f), EndsAlone(f),
                      job[f].command \in Deciding
               PROVE  DecisionIsFollowed(f)
    BY DEF DecisionIsFollowed, Deciding
  <2>1. Alone(f) /\ At(f, "idle")' /\ DecisionStands(f) /\ job[f].command \in Recording
    BY EndsByTurn DEF DecisionInvariant, Deciding, Recording
  <2>2. At(f, "fill_trace") /\ FillTrace(f) /\ Reported(f) /\ effectFile' = job[f].effect
    BY <2>1, EndsReported, DecisionEndsLate
  <2>3. wire' = wire
    BY <2>2 DEF FillTrace, netVars
  <2> QED
    BY <2>1, <2>2, <2>3 DEF DecisionIsFollowed, DecisionStands, At, Reporting
<1> QED
  BY <1>1, BundleInvariantHolds, AloneInvariantHolds, DecisionInvariantHolds, PTL
     DEF Spec, DecisionFollowed

\* Whatever capabilities a block declares, its scope admits no URL: a block has
\* no line for the allowlist, and an empty one allows nothing.
THEOREM BlockReachesNoNetwork ==
  ASSUME NEW b, NEW max_bytes, NEW url
  PROVE  AllowlistVerdict(url, ScopeFromRecord(BlockRecord(b), max_bytes).network_allow)
           = "network_url_not_in_allowlist"
<1>1. ScopeFromRecord(BlockRecord(b), max_bytes).network_allow = <<>>
  BY DEF ScopeFromRecord, BlockRecord, OrDefault
<1>2. DOMAIN <<>> = {}
  OBVIOUS
<1> QED
  BY <1>1, <1>2 DEF AllowlistVerdict
=============================================================================
