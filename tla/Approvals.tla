------------------------------ MODULE Approvals ------------------------------
(***************************************************************************)
(* The approval decisions of runtime_ir.py, as operators: how an intent is *)
(* hashed, which decision governs a proposal, and whether that decision    *)
(* lets the commit go ahead at a given time.                               *)
(*                                                                         *)
(* A scope is a record with scope_id and approval_required_for (a set of   *)
(* effect kinds); an intent has intent_id, idempotency_key, custody_mode   *)
(* and whatever else its hash covers; an approval has status, scope_id,    *)
(* intent_id, intent_sha256 and expires_at.                                *)
(***************************************************************************)
EXTENDS Integers

CONSTANTS Unset,       \* Python's None
          Unparsable,  \* an expires_at that is not an ISO timestamp
          Naive        \* an expires_at that is one, but without a time zone

ASSUME ApprovalAssumption == Unset \notin {Unparsable, Naive}

ApprovalStatuses == {"approved", "denied", "expired", "requested", "not_required"}

\* A collision-free hash is its input: the intent without its unset optional
\* fields, so that a set idempotency_key or custody_mode makes another intent.
IntentSha256(intent) ==
  LET unset == {f \in {"idempotency_key", "custody_mode"} : intent[f] = Unset}
  IN  [f \in DOMAIN intent \ unset |-> intent[f]]

Decision(status, scope, intent, expires) ==
  [status |-> status, scope_id |-> scope.scope_id, intent_id |-> intent.intent_id,
   intent_sha256 |-> IntentSha256(intent), expires_at |-> expires]

\* make_approval_decision: what a performer or council issues.
MakeApprovalDecision(scope, intent, status, expires) ==
  Decision(status, scope, intent, expires)

\* approval_for: a supplied decision wins as it is; otherwise the scope says
\* whether one is required, and the legacy flag stands in for it.
ApprovalFor(scope, intent, kind, approval, granted) ==
  IF approval # Unset THEN approval
  ELSE IF kind \notin scope.approval_required_for
       THEN Decision("not_required", scope, intent, Unset)
       ELSE Decision(IF granted THEN "approved" ELSE "requested", scope, intent, Unset)

\* Seeded fault, not used: an approval still good at the instant it expires.
ExpiredLate(approval, now) ==
  /\ approval.expires_at # Unset
  /\ \/ approval.expires_at = Unparsable
     \/ approval.expires_at < now

Expired(approval, now) ==
  /\ approval.expires_at # Unset
  /\ \/ approval.expires_at = Unparsable
     \/ approval.expires_at <= now

\* approval_rejection_reason: the first check that fails, "none" if all pass.
\* Python refuses to compare a naive timestamp with the aware clock: TypeError.
ApprovalRejectionReason(scope, intent, approval, now) ==
  IF approval.scope_id \notin {Unset, scope.scope_id} THEN "approval_scope_mismatch"
  ELSE IF approval.intent_id \notin {Unset, intent.intent_id}
       THEN "approval_intent_mismatch"
  ELSE IF approval.intent_sha256 \notin {Unset, IntentSha256(intent)}
       THEN "approval_intent_hash_mismatch"
  ELSE IF approval.status = "denied" THEN "approval_denied"
  ELSE IF approval.status = "expired" THEN "approval_expired"
  ELSE IF approval.status = "requested" THEN "approval_not_decided"
  ELSE IF /\ approval.status = "approved"
          /\ approval.intent_id = Unset
          /\ approval.intent_sha256 = Unset THEN "approval_unbound"
  ELSE IF approval.expires_at = Naive THEN "raises"
  ELSE IF Expired(approval, now) THEN "approval_expired"
  ELSE "none"

\* The transition the runtime takes on a decision: pause, reject or go on.
ApprovalVerdict(scope, intent, kind, approval, granted, now) ==
  LET d == ApprovalFor(scope, intent, kind, approval, granted)
  IN  IF d.status = "requested" THEN "requested"
      ELSE ApprovalRejectionReason(scope, intent, d, now)

-----------------------------------------------------------------------------
\* A decision is bound to the scope and intent it is presented with: it names
\* no other, and an approval names at least the intent.
BoundTo(approval, scope, intent) ==
  /\ approval.scope_id \in {Unset, scope.scope_id}
  /\ approval.intent_id \in {Unset, intent.intent_id}
  /\ approval.intent_sha256 \in {Unset, IntentSha256(intent)}
  /\ approval.status = "approved" =>
       approval.intent_id # Unset \/ approval.intent_sha256 # Unset

\* What an approval is to mean: a commit may go ahead at a time when nobody had
\* to be asked, or who was asked said yes to this, and that is still in force.
Clears(scope, intent, kind, approval, granted, now) ==
  IF approval = Unset
  THEN granted \/ kind \notin scope.approval_required_for
  ELSE /\ approval.status \in {"approved", "not_required"}
       /\ BoundTo(approval, scope, intent)
       /\ \/ approval.expires_at = Unset
          \/ approval.expires_at \notin {Unparsable, Naive} /\ now < approval.expires_at
=============================================================================
