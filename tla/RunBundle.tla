------------------------------- MODULE RunBundle -------------------------------
(***************************************************************************)
(* A run bundle (cli.py): a directory with scope.json, proposal.json and   *)
(* perhaps approval.json, that `fermata bundle run` evaluates into         *)
(* effect.json and trace.json, and `fermata approve` decides when it is    *)
(* paused.  Several operators work on one bundle at once, without any lock, *)
(* people edit its inputs, commands die; each action is one stretch of a   *)
(* command between two accesses to the directory.  The proposals are for   *)
(* network.fetch: an operator is a caller of NetworkAdapter, whose actions *)
(* are taken in the place of adapter.prepare and adapter.commit.           *)
(*                                                                         *)
(* A file is written by truncating it and then filling it (write_text), so *)
(* it can be seen empty, and two commands that fill it after both have     *)
(* truncated it can leave one record with the tail of the other.           *)
(***************************************************************************)
EXTENDS RuntimeApi, NetworkAdapter

CONSTANTS ScopeRecords, ProposalRecords,  \* what scope.json, proposal.json may hold
          Bundles,                        \* what a bundle may hold at first
          Absent, Empty, Garbled,         \* a file that is not a JSON record
          DefaultMaxBytes,                \* max_bytes of a scope that has none
          Now,                            \* the time, which stands still here
          MaxCommands, MaxAccidents       \* bounds on what happens

NotWhole == {Absent, Empty, Garbled}

\* An expires_at that is no timestamp is one of the values that stand for it.
ExpiryIsKnown(record) ==
  ApprovalIsCanonical(record) =>
    \/ ApprovalFromRecord(record).expires_at \in {Unset, Unparsable, Naive}
    \/ ApprovalFromRecord(record).expires_at \in Int

ASSUME BundleAssumption ==
  /\ NoValue = Unset /\ Invalid = Malformed
  /\ \A b \in Bundles : /\ b.scope \in ScopeRecords /\ b.proposal \in ProposalRecords
                        /\ b.approval \notin {Empty, Garbled}
                        /\ b.approval # Absent => ExpiryIsKnown(b.approval)
  /\ \A s \in ScopeRecords :
       ScopeOutcome(s) = "lowered" => ScopeFromRecord(s, DefaultMaxBytes) \in NetScopes
  /\ \A p \in ProposalRecords :
       ProposalIsCanonical(p) => ProposalFromRecord(p).intent \in NetIntents \cup {Unset}
  /\ \A i \in NetIntents : i.intent_id # Unset
  /\ 1..MaxCommands \subseteq CallIds
  /\ Now \in Int /\ MaxCommands \in Nat /\ MaxAccidents \in Nat

VARIABLES scopeFile, proposalFile, approvalFile, effectFile, traceFile,
          job,       \* the command each operator has running
          placed,    \* every approval record that was put into approval.json
          commands, accidents

files == <<scopeFile, proposalFile, approvalFile, effectFile, traceFile>>
counters == <<commands, accidents>>
vars == <<files, job, placed, counters, netVars>>

Kind == "network.fetch"

\* What a command knows: how it was called, the number of its run (its
\* trace_id), what it has read, and the effect it is about to report.  "alone"
\* says that nobody else has done anything to the bundle since it began.
NoJob == [at |-> "idle", command |-> "none", overwrite |-> FALSE, run |-> 0,
          scope |-> Unset, proposal |-> Unset, approval |-> Unset,
          effect |-> Unset, alone |-> TRUE]

\* Nobody has run the bundle yet, or a run was paused before anybody looked.
PausedRun == [run |-> 0, state |-> "paused", reason |-> "approval_required_before_commit"]

Init == /\ \E b \in Bundles :
             /\ scopeFile = b.scope
             /\ proposalFile = b.proposal
             /\ approvalFile = b.approval
             /\ effectFile = IF b.paused THEN PausedRun ELSE Absent
             /\ traceFile = IF b.paused THEN [run |-> 0] ELSE Absent
        /\ job = [f \in Fetchers |-> NoJob]
        /\ placed = {approvalFile} \ {Absent}
        /\ commands = 0 /\ accidents = 0
        /\ NetInit

-----------------------------------------------------------------------------
At(f, place) == job[f].at = place

Goto(f, place) == job' = [job EXCEPT ![f].at = place]

\* The command is over: it answered, refused, or its exception went all the way.
End(f) == job' = [job EXCEPT ![f] = NoJob]

\* A new command disturbs, and is disturbed by, those that are running.
Disturbed(g) == IF At(g, "idle") THEN job[g] ELSE [job[g] EXCEPT !.alone = FALSE]

\* Seeded fault, not used: a new run takes the number of the last one.
BeginSharingNumber(f, new) ==
  /\ At(f, "idle")
  /\ commands < MaxCommands
  /\ commands' = commands + 1
  /\ job' = [g \in Fetchers |->
               IF g # f THEN Disturbed(g)
               ELSE [new EXCEPT !.run = commands,
                                !.alone = \A h \in Fetchers \ {f} : At(h, "idle")]]

Begin(f, new) ==
  /\ At(f, "idle")
  /\ commands < MaxCommands
  /\ commands' = commands + 1
  /\ job' = [g \in Fetchers |->
               IF g # f THEN Disturbed(g)
               ELSE [new EXCEPT !.run = commands + 1,
                                !.alone = \A h \in Fetchers \ {f} : At(h, "idle")]]

InputsAreCanonical ==
  ScopeOutcome(scopeFile) = "lowered" /\ ProposalIsCanonical(proposalFile)

ReadScope == ScopeFromRecord(scopeFile, DefaultMaxBytes)
ReadProposal == ProposalFromRecord(proposalFile)

\* Seeded fault, not used: only the write itself looks for an earlier file.
OutputsAreUnchecked(overwrite) == overwrite \in BOOLEAN

\* require_writable_outputs.
OutputsAreWritable(overwrite) ==
  overwrite \/ (effectFile = Absent /\ traceFile = Absent)

\* read_pending_approval: the last effect is paused and there is an intent.
IsPending ==
  /\ effectFile \notin NotWhole
  /\ effectFile.state = "paused"
  /\ InputsAreCanonical
  /\ ReadProposal.intent # Unset

\* write_text into a file that was truncated: another command may have filled
\* it in the meantime, and the longer record keeps its tail.
Filled(file, record) == IF file = Empty THEN {record} ELSE {record, Garbled}

Effect(f, state, why) == [run |-> job[f].run, state |-> state, reason |-> why]

\* write_json_object looks for an earlier file unless it may replace it.
FirstStep(f, check, open) == IF job[f].overwrite THEN open ELSE check

\* The effect is known; the commands without a bundle only print it.
Conclude(f, state, why) ==
  IF job[f].command \in {"interpret", "plain"} THEN End(f)
  ELSE job' = [job EXCEPT ![f].at = FirstStep(f, "check_effect", "open_effect"),
                          ![f].effect = Effect(f, state, why)]

-----------------------------------------------------------------------------
\* `fermata bundle run`, which refuses before anything else if its outputs are
\* there, and `fermata run` and `interpret`, which have none.
RunBundle(f) ==
  /\ \E overwrite \in BOOLEAN :
       /\ OutputsAreWritable(overwrite)
       /\ Begin(f, [NoJob EXCEPT !.at = "inputs", !.command = "bundle",
                                 !.overwrite = overwrite])
  /\ UNCHANGED <<files, placed, accidents, netVars>>

RunPlain(f) ==
  /\ \E command \in {"interpret", "plain"} :
       Begin(f, [NoJob EXCEPT !.at = "inputs", !.command = command])
  /\ UNCHANGED <<files, placed, accidents, netVars>>

\* `fermata approve`: what is pending is shown to the operator.
Review(f) ==
  /\ IsPending
  /\ Begin(f, [NoJob EXCEPT !.at = "review", !.command = "review"])
  /\ UNCHANGED <<files, placed, accidents, netVars>>

\* --render-only, or nobody there to decide.
WalkAway(f) ==
  /\ At(f, "review")
  /\ End(f)
  /\ UNCHANGED <<files, placed, counters, netVars>>

DecisionRecord(status) ==
  LET decision == MakeApprovalDecision(ReadScope, ReadProposal.intent, status, Unset)
  IN  [field \in DOMAIN decision \cup {"authority"} |->
         IF field = "authority" THEN "performer" ELSE decision[field]]

\* approve_bundle: the decision is about what the files hold now.
Decide(f) ==
  /\ At(f, "review")
  /\ IF ~IsPending THEN End(f)
     ELSE \E command \in {"approve", "deny"} :
            job' = [job EXCEPT
                      ![f].at = "open_approval", ![f].command = command,
                      ![f].approval = DecisionRecord(IF command = "approve"
                                                     THEN "approved" ELSE "denied")]
  /\ UNCHANGED <<files, placed, counters, netVars>>

\* Seeded fault, not used: a decision does not replace an earlier record.
OpenApprovalUnlessThere(f) ==
  /\ At(f, "open_approval")
  /\ IF approvalFile # Absent
     THEN End(f) /\ UNCHANGED approvalFile
     ELSE approvalFile' = Empty /\ Goto(f, "fill_approval")
  /\ UNCHANGED <<scopeFile, proposalFile, effectFile, traceFile>>
  /\ UNCHANGED <<placed, counters, netVars>>

OpenApproval(f) ==
  /\ At(f, "open_approval")
  /\ approvalFile' = Empty
  /\ Goto(f, "fill_approval")
  /\ UNCHANGED <<scopeFile, proposalFile, effectFile, traceFile>>
  /\ UNCHANGED <<placed, counters, netVars>>

\* The decision is in the file, and run_bundle follows, overwriting.
FillApproval(f) ==
  /\ At(f, "fill_approval")
  /\ approvalFile' \in Filled(approvalFile, job[f].approval)
  /\ placed' = placed \cup {job[f].approval}
  /\ job' = [job EXCEPT ![f].at = "inputs", ![f].overwrite = TRUE, ![f].approval = Unset]
  /\ UNCHANGED <<scopeFile, proposalFile, effectFile, traceFile, counters, netVars>>

-----------------------------------------------------------------------------
\* A scope or a proposal that cannot be lowered ends the command.
ReadInputs(f) ==
  /\ At(f, "inputs")
  /\ IF InputsAreCanonical
     THEN job' = [job EXCEPT ![f].at = "approval", ![f].scope = ReadScope,
                             ![f].proposal = ReadProposal]
     ELSE End(f)
  /\ UNCHANGED <<files, placed, counters, netVars>>

\* Only a bundle's approval may be in a wrapper.
Wrapped(record) == "approval" \in DOMAIN record

\* No approval.json is no approval; one that is not canonical ends the command.
ReadApproval(f) ==
  /\ At(f, "approval")
  /\ \/ /\ approvalFile = Absent \/ job[f].command \in {"interpret", "plain"}
        /\ Goto(f, "evaluate")
     \/ /\ approvalFile # Absent
        /\ IF /\ approvalFile \notin NotWhole /\ ApprovalIsCanonical(approvalFile)
              /\ Wrapped(approvalFile) => job[f].command \notin {"interpret", "plain"}
           THEN job' = [job EXCEPT ![f].at = "evaluate",
                                   ![f].approval = ApprovalFromRecord(approvalFile)]
           ELSE End(f)
  /\ UNCHANGED <<files, placed, counters, netVars>>

Mode(f) == IF job[f].command = "interpret" THEN "interpret" ELSE "run"

\* Admission, and prepare of the adapter.
Evaluate(f) ==
  /\ At(f, "evaluate")
  /\ LET why == AdmissionReason(job[f].scope, job[f].proposal)
     IN  IF why # "none"
         THEN Conclude(f, "rejected", why) /\ UNCHANGED netVars
         ELSE /\ Goto(f, "gate")
              /\ Prepare(f, [id |-> job[f].run, scope |-> job[f].scope,
                             intent |-> job[f].proposal.intent])
  /\ UNCHANGED <<files, placed, counters>>

\* What prepare refused, or else what the approval lets happen.
Refuse(f) ==
  /\ At(f, "gate")
  /\ phase[f] = "failed"
  /\ Report(f)
  /\ IF reason[f] = "raises" THEN End(f) ELSE Conclude(f, "rejected", reason[f])
  /\ UNCHANGED <<files, placed, counters>>

Verdict(f) ==
  ApprovalVerdict(job[f].scope, job[f].proposal.intent, Kind, job[f].approval, FALSE, Now)

StaysInside(f) ==
  \/ StopsAtApproval(Mode(f), job[f].proposal)
  \/ job[f].proposal.intent.custody_mode = "record_only"

Withhold(f) ==
  /\ At(f, "gate")
  /\ phase[f] = "prepared"
  /\ Verdict(f) # "none" \/ StaysInside(f)
  /\ Stop(f)
  /\ IF Verdict(f) = "requested"
     THEN Conclude(f, "paused", "approval_required_before_commit")
     ELSE IF Verdict(f) = "raises" THEN End(f)
     ELSE IF Verdict(f) # "none" THEN Conclude(f, "rejected", Verdict(f))
     ELSE Conclude(f, "approved", "none")
  /\ UNCHANGED <<files, placed, counters>>

Proceed(f) ==
  /\ At(f, "gate")
  /\ phase[f] = "prepared"
  /\ Verdict(f) = "none" /\ ~StaysInside(f)
  /\ Goto(f, "commit")
  /\ UNCHANGED <<files, placed, counters, netVars>>

CommitEffect(f) ==
  /\ At(f, "commit")
  /\ Commit(f)
  /\ UNCHANGED <<files, job, placed, counters>>

Outcome(f) ==
  /\ At(f, "commit")
  /\ Report(f)
  /\ IF phase[f] = "done" THEN Conclude(f, "committed", "none")
     ELSE IF reason[f] = "raises" THEN End(f)
     ELSE Conclude(f, "rejected", reason[f])
  /\ UNCHANGED <<files, placed, counters>>

-----------------------------------------------------------------------------
\* write_json_object for effect.json and then for trace.json.  What was not
\* there when it looked may be there when it opens the file.
CheckEffect(f) ==
  /\ At(f, "check_effect")
  /\ IF effectFile # Absent THEN End(f) ELSE Goto(f, "open_effect")
  /\ UNCHANGED <<files, placed, counters, netVars>>

OpenEffect(f) ==
  /\ At(f, "open_effect")
  /\ effectFile' = Empty
  /\ Goto(f, "fill_effect")
  /\ UNCHANGED <<scopeFile, proposalFile, approvalFile, traceFile>>
  /\ UNCHANGED <<placed, counters, netVars>>

FillEffect(f) ==
  /\ At(f, "fill_effect")
  /\ effectFile' \in Filled(effectFile, job[f].effect)
  /\ Goto(f, FirstStep(f, "check_trace", "open_trace"))
  /\ UNCHANGED <<scopeFile, proposalFile, approvalFile, traceFile>>
  /\ UNCHANGED <<placed, counters, netVars>>

CheckTrace(f) ==
  /\ At(f, "check_trace")
  /\ IF traceFile # Absent THEN End(f) ELSE Goto(f, "open_trace")
  /\ UNCHANGED <<files, placed, counters, netVars>>

OpenTrace(f) ==
  /\ At(f, "open_trace")
  /\ traceFile' = Empty
  /\ Goto(f, "fill_trace")
  /\ UNCHANGED <<scopeFile, proposalFile, approvalFile, effectFile>>
  /\ UNCHANGED <<placed, counters, netVars>>

FillTrace(f) ==
  /\ At(f, "fill_trace")
  /\ traceFile' \in Filled(traceFile, [run |-> job[f].run])
  /\ End(f)
  /\ UNCHANGED <<scopeFile, proposalFile, approvalFile, effectFile>>
  /\ UNCHANGED <<placed, counters, netVars>>

-----------------------------------------------------------------------------
\* Edits and deaths, which nobody plans.
Accident == accidents < MaxAccidents /\ accidents' = accidents + 1

\* Somebody changes what is proposed, or the scope it is for.
Edit ==
  /\ Accident
  /\ \/ scopeFile' \in ScopeRecords \ {scopeFile} /\ UNCHANGED proposalFile
     \/ proposalFile' \in ProposalRecords \ {proposalFile} /\ UNCHANGED scopeFile
  /\ job' = [g \in Fetchers |-> Disturbed(g)]
  /\ UNCHANGED <<approvalFile, effectFile, traceFile, placed, commands, netVars>>

\* A command is killed, or a file cannot be written: the exception is not caught.
Crash(f) ==
  /\ ~At(f, "idle")
  /\ Accident
  /\ End(f)
  /\ IF phase[f] = "idle" THEN UNCHANGED netVars ELSE Die(f)
  /\ UNCHANGED <<files, placed, commands>>

\* What a command does by itself once it has begun.
Step(f) ==
  \/ WalkAway(f) \/ Decide(f) \/ OpenApproval(f) \/ FillApproval(f)
  \/ ReadInputs(f) \/ ReadApproval(f) \/ Evaluate(f) \/ Refuse(f) \/ Withhold(f)
  \/ Proceed(f) \/ CommitEffect(f) \/ Outcome(f)
  \/ CheckEffect(f) \/ OpenEffect(f) \/ FillEffect(f)
  \/ CheckTrace(f) \/ OpenTrace(f) \/ FillTrace(f)

Next == \/ Edit
        \/ \E f \in Fetchers :
             RunBundle(f) \/ RunPlain(f) \/ Review(f) \/ Step(f) \/ Crash(f)

Spec == Init /\ [][Next]_vars

-----------------------------------------------------------------------------
Places == {"idle", "review", "open_approval", "fill_approval", "inputs", "approval",
           "evaluate", "gate", "commit", "check_effect", "open_effect", "fill_effect",
           "check_trace", "open_trace", "fill_trace"}

\* The variables have their types; numbers of running commands are their own,
\* and an operator is inside the adapter only while it evaluates.
TypeOK ==
  /\ \A f \in Fetchers :
       /\ job[f].at \in Places
       /\ job[f].run \in 0..commands
       /\ At(f, "idle") <=> job[f] = NoJob
       /\ phase[f] # "idle" => /\ job[f].at \in {"gate", "commit"}
                               /\ fetch[f].id = job[f].run
  /\ \A f, g \in Fetchers : ~At(f, "idle") /\ job[f].run = job[g].run => f = g
  /\ approvalFile \notin NotWhole => approvalFile \in placed
  /\ effectFile \notin NotWhole => effectFile.run \in 0..commands
  /\ commands \in 0..MaxCommands /\ accidents \in 0..MaxAccidents

\* As a person reads scope.json: this scope wants to be asked before a fetch.
AsksFirst(record) ==
  \/ record.approval_required_for \notin Missing /\ Kind \in record.approval_required_for
  \/ record.approvals \notin Missing /\ \E c \in record.approvals : Kind \in c

\* Whoever overlaps, edits or dies: no request leaves under a scope.json that
\* asks for approval unless a record for exactly that scope and intent that
\* lets it go was put into approval.json; and none at all for an intent that
\* is to be performed by somebody else.
RequestsApproved ==
  \A w \in wire :
    /\ w.intent.custody_mode # "record_only"
    /\ \A s \in ScopeRecords :
         /\ ScopeOutcome(s) = "lowered"
         /\ w.scope = ScopeFromRecord(s, DefaultMaxBytes)
         /\ AsksFirst(s)
         => \E a \in placed : /\ ApprovalIsCanonical(a)
                              /\ Clears(w.scope, w.intent, Kind,
                                        ApprovalFromRecord(a), FALSE, Now)

\* The reasons for a rejection after a request may have left.
CommitReasons == {"network_redirect_not_allowed", "network_request_failed",
                  "network_response_too_large", "network_content_type_not_allowed",
                  "network_host_is_private", "adapter_commit_failed"}

\* What a whole effect.json says happened: "committed" that the response, or a
\* later one, is in its place; a pause, a refusal before commit or a hand-over
\* that the run sent nothing.
EvidenceIsTrue ==
  effectFile \notin NotWhole =>
    LET sent == {w \in wire : w.id = effectFile.run}
    IN  /\ effectFile.state = "committed" =>
             \E w \in sent : \E s \in store : s.target = w.intent.target
        /\ effectFile.state # "committed" /\ effectFile.reason \notin CommitReasons =>
             sent = {}

\* The reasons for a rejection because of what was decided, or not.
ApprovalReasons ==
  {"approval_scope_mismatch", "approval_intent_mismatch", "approval_intent_hash_mismatch",
   "approval_denied", "approval_expired", "approval_not_decided", "approval_unbound"}

\* A command that nobody disturbed is over, other than by dying.
EndsAlone(f) ==
  /\ ~At(f, "idle") /\ job'[f].at = "idle"
  /\ job[f].alone /\ accidents' = accidents

\* The adapter's exception ends the command, with a traceback for an answer.
Raised(f) == phase[f] = "failed" /\ reason[f] = "raises"

\* Both files are whole after this step and are those of the run.
Reported(f) ==
  /\ effectFile' \notin NotWhole /\ effectFile'.run = job[f].run
  /\ traceFile' \notin NotWhole /\ traceFile'.run = job[f].run

RequestIsReported(f) ==
  EndsAlone(f) /\ job[f].command \in {"bundle", "approve", "deny"}
    /\ (\E w \in wire : w.id = job[f].run)
  => Reported(f)

\* A bundle command that sent a request, that nobody disturbed and that no
\* exception of the adapter ended, does not end without evidence of it,
\* whatever was in the directory before.
RequestsReported == [][\A f \in Fetchers : Raised(f) \/ RequestIsReported(f)]_vars

DecisionIsFollowed(f) ==
  EndsAlone(f) /\ job[f].command \in {"approve", "deny"} =>
    /\ Reported(f)
    /\ job[f].command = "approve" =>
         /\ effectFile'.state # "paused"
         /\ effectFile'.reason \notin ApprovalReasons
    /\ job[f].command = "deny" =>
         /\ effectFile'.state = "rejected"
         /\ \A w \in wire' : w.id # job[f].run

\* A decision that nobody disturbed is followed by its own outcome, unless an
\* exception of the adapter ends the re-run.
DecisionFollowed == [][\A f \in Fetchers : Raised(f) \/ DecisionIsFollowed(f)]_vars
=============================================================================
