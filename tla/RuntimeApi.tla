------------------------------ MODULE RuntimeApi ------------------------------
(***************************************************************************)
(* How runtime_api.py lowers the JSON records of a caller into a scope, a  *)
(* proposal and an approval, what it refuses, and which evaluator a        *)
(* proposal is handed to (with interpreter.py for what it may not commit). *)
(*                                                                         *)
(* A record is a function of its fields.  A field is Unset when the record *)
(* does not have it, Null when it is null, Malformed when it is of another *)
(* type than the field asks for or an empty string; otherwise it is its    *)
(* value.  An array whose order does not matter is a set, a condition is   *)
(* the set of capabilities it names as effect.kind == "<capability>".  The *)
(* four lists of a scope that are looked at only "if raw:" are an empty    *)
(* list when they are an empty string or object, and Null when 0 or false. *)
(***************************************************************************)
EXTENDS Approvals, Sequences

CONSTANTS Null, Malformed

ASSUME RecordAssumption ==
  /\ Unset # Null /\ Unset # Malformed /\ Null # Malformed /\ Malformed # "scope"
  /\ {Null, Malformed} \cap {Unparsable, Naive} = {}

Missing == {Unset, Null}

RequiredString(value) == value \notin Missing \cup {Malformed}

\* _optional_idempotency_key: null is absent, anything but a string an error.
OptionalKey(value) == value # Malformed

\* _optional_custody_mode.
OptionalCustody(value) == value \in Missing \cup {"record_only", "execute"}

OrUnset(value) == IF value = Null THEN Unset ELSE value

\* isinstance(value, str) else None: here a malformed field is dropped.
StringOrUnset(value) == IF value = Malformed THEN Unset ELSE OrUnset(value)

\* "if raw:" skips the check of a list that is null, absent or empty.
FalsyOrNames(value) ==
  value \in Missing \/ (value # Malformed /\ Malformed \notin value)

FalsyOrTexts(value) ==
  value \in Missing \/ (value # Malformed /\ \A i \in DOMAIN value : value[i] # Malformed)

NamesIn(value) == IF value \in Missing THEN {} ELSE value

-----------------------------------------------------------------------------
\* intent_from_record: every reason for a RuntimeApiError.
IntentIsCanonical(intent) ==
  /\ intent \notin Missing \cup {Malformed}
  /\ intent.input \notin Missing \cup {Malformed}
  /\ \A f \in {"intent_id", "proposal_id", "adapter", "operation", "target",
               "required_capability"} : RequiredString(intent[f])
  /\ OptionalKey(intent.idempotency_key)
  /\ OptionalCustody(intent.custody_mode)

IntentFromRecord(intent) ==
  [intent EXCEPT !.idempotency_key = OrUnset(@), !.custody_mode = OrUnset(@)]

SpeechActs == {"need", "claim", "doubt", "intend", "remember", "boundary"}

\* proposal_from_record; only an "intend" has to have an intent.
ProposalIsCanonical(proposal) ==
  /\ proposal.schema_version = "0.1"
  /\ proposal.record_type = "proposal"
  /\ proposal.speech_act \in SpeechActs
  /\ proposal.speech_act = "intend" => IntentIsCanonical(proposal.intent)
  /\ RequiredString(proposal.proposal_id)
  /\ RequiredString(proposal.actor)
  /\ proposal.evidence \notin {Null, Malformed}

\* The lowered proposal; who made it, why and how sure decides nothing.
ProposalFromRecord(proposal) ==
  [proposal_id |-> proposal.proposal_id,
   speech_act  |-> proposal.speech_act,
   intent      |-> IF proposal.speech_act = "intend"
                   THEN IntentFromRecord(proposal.intent) ELSE Unset]

-----------------------------------------------------------------------------
CapabilitiesAreNamed(scope) ==
  /\ scope.capabilities \notin Missing \cup {Malformed, {}}
  /\ Malformed \notin scope.capabilities

\* A condition the grammar does not recognize names nothing and is an error;
\* so is one that names a capability the scope does not declare.
ConditionIsRecognized(condition, scope) ==
  /\ condition \notin {Malformed, {}}
  /\ condition \subseteq scope.capabilities

ApprovalsAreRecognized(scope) ==
  /\ FalsyOrNames(scope.approval_required_for)
  /\ scope.approvals # Malformed
  /\ scope.approvals \in Missing
       \/ \A c \in scope.approvals : ConditionIsRecognized(c, scope)

OrDefault(value, default) == IF value = Unset THEN default ELSE value

BudgetIsSound(scope) ==
  LET cap == OrDefault(scope.max_effects_per_window, 0)
      window == OrDefault(scope.rate_window_seconds, 0)
  IN  cap \in Nat /\ window \in Int /\ (cap > 0 => window > 0)

\* scope_from_record, in its order: a record_type that is an object or an array
\* cannot be looked up in a set, and a null list of prefixes or content types
\* passes the check "if raw:" and is then given to tuple(); both are TypeErrors.
ScopeOutcome(scope) ==
  IF scope.schema_version \notin {Unset, "0.1"} THEN "refused"
  ELSE IF scope.record_type = Malformed THEN "raises"
  ELSE IF \/ scope.record_type \notin Missing \cup {"scope"}
          \/ ~CapabilitiesAreNamed(scope)
          \/ ~ApprovalsAreRecognized(scope)
          \/ ~FalsyOrTexts(scope.network_allow) THEN "refused"
  ELSE IF scope.network_allow = Null THEN "raises"
  ELSE IF \/ scope.allow_private_network \notin BOOLEAN \cup {Unset}
          \/ ~FalsyOrNames(scope.network_allowed_content_types) THEN "refused"
  ELSE IF scope.network_allowed_content_types = Null THEN "raises"
  ELSE IF \/ ~BudgetIsSound(scope)
          \/ ~RequiredString(scope.scope_id)
          \/ scope.max_bytes \notin (Nat \ {0}) \cup {Unset} THEN "refused"
  ELSE "lowered"

\* Seeded fault, not used: only the local alpha shorthand asks for approvals.
EnrolledByShorthand(scope) == NamesIn(scope.approval_required_for)

\* Both the shorthand and the canonical conditions enroll what they name.
Enrolled(scope) ==
  NamesIn(scope.approval_required_for) \cup UNION NamesIn(scope.approvals)

ScopeFromRecord(scope, default_max_bytes) ==
  [scope_id |-> scope.scope_id,
   capabilities |-> scope.capabilities,
   approval_required_for |-> Enrolled(scope),
   max_bytes |-> OrDefault(scope.max_bytes, default_max_bytes),
   max_effects_per_window |-> OrDefault(scope.max_effects_per_window, 0),
   rate_window_seconds |-> OrDefault(scope.rate_window_seconds, 0),
   network_allow |-> OrDefault(scope.network_allow, <<>>),
   allow_private_network |-> scope.allow_private_network = TRUE,
   network_allowed_content_types |-> NamesIn(scope.network_allowed_content_types)]

-----------------------------------------------------------------------------
Authorities == {"performer", "council", "runtime", "none"}

\* approval_from_bundle_record: a wrapper has a field "approval".
Unwrapped(record) ==
  IF "approval" \in DOMAIN record THEN record.approval ELSE record

\* approval_from_record: only a status and an authority must be well-formed.
ApprovalIsCanonical(record) ==
  LET approval == Unwrapped(record)
  IN  /\ approval \notin Missing \cup {Malformed}
      /\ approval.status \in ApprovalStatuses
      /\ approval.authority \in Authorities

\* Its other fields count as absent when they are not strings: an expires_at
\* that is a number never expires.
ApprovalFromRecord(record) ==
  LET approval == Unwrapped(record)
  IN  [status |-> approval.status,
       scope_id |-> StringOrUnset(approval.scope_id),
       intent_id |-> StringOrUnset(approval.intent_id),
       intent_sha256 |-> StringOrUnset(approval.intent_sha256),
       expires_at |-> StringOrUnset(approval.expires_at)]

-----------------------------------------------------------------------------
Adapters == {[adapter |-> "file", operation |-> "write"],
             [adapter |-> "memory", operation |-> "write"],
             [adapter |-> "network", operation |-> "fetch"]}

CapabilityOf(intent) ==
  CASE intent.adapter = "file"    -> "file.write"
    [] intent.adapter = "memory"  -> "memory.write"
    [] intent.adapter = "network" -> "network.fetch"

Dispatched(intent) == [adapter |-> intent.adapter, operation |-> intent.operation] \in Adapters

\* interpret and run, and the checks of evaluate_with_adapter that need no
\* shared state: what refuses a proposal before its adapter sees it.
AdmissionReason(scope, proposal) ==
  LET intent == proposal.intent
  IN  IF proposal.speech_act # "intend" \/ intent = Unset THEN "proposal_is_not_an_intent"
      ELSE IF ~Dispatched(intent) THEN "unsupported_adapter_for_interpret"
      ELSE IF intent.required_capability # CapabilityOf(intent)
           THEN "unsupported_capability_for_operation"
      ELSE IF CapabilityOf(intent) \notin scope.capabilities THEN "missing_capability"
      ELSE "none"

\* The dry-run flag: "interpret" evaluates without committing, and so does
\* "run" what no adapter takes.
StopsAtApproval(mode, proposal) ==
  \/ mode = "interpret"
  \/ proposal.intent = Unset
  \/ ~Dispatched(proposal.intent)
=============================================================================
