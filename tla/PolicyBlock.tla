----------------------------- MODULE PolicyBlock -----------------------------
(***************************************************************************)
(* The scope an authority writes as a block of lines (policy_parser.py):   *)
(* which blocks parse, and the scope record they become.                   *)
(*                                                                         *)
(* A block is the sequence of its lines that are neither blank nor only a  *)
(* comment; a line is a record of what it says.  Everything after // is    *)
(* dropped, in a quoted text too: `cut` tells that it was, and a condition *)
(* is the set of capabilities named in what is left of it.                 *)
(***************************************************************************)
EXTENDS RuntimeApi

ResourceKinds == {"file", "db", "message", "memory", "network", "tool"}

PolicyEffects == {"allow", "deny", "pause", "require_approval", "require_evidence"}

AuditFields == {"trace", "dry_run", "approval", "input_hash", "output_hash",
                "actor", "scope", "adapter_ack", "verification"}

\* No other statement is known, "approval grant" for one.  The kind of a
\* capability is what its name says before the first dot.
LineIsSound(line) ==
  \/ line.says \in {"resource", "capability"} /\ line.kind \in ResourceKinds /\ ~line.cut
  \/ line.says = "policy" /\ line.effect \in PolicyEffects
  \/ line.says = "approval" /\ line.authority \in Authorities
  \/ line.says = "audit" /\ line.fields \subseteq AuditFields

Body(block) == 2..(Len(block) - 1)

Said(block, statement) ==
  {block[i] : i \in {j \in Body(block) : block[j].says = statement}}

\* One scope and nothing after it; a second header or a close within it is no
\* sound line.
IsPolicyBlock(block) ==
  /\ Len(block) > 1
  /\ block[1].says = "scope" /\ block[Len(block)].says = "close"
  /\ \A i \in Body(block) : LineIsSound(block[i])
  /\ Said(block, "resource") # {}
  /\ Said(block, "capability") # {}

\* A later audit line replaces an earlier one; the other statements add up.
Retained(block) ==
  LET at == {i \in Body(block) : block[i].says = "audit"}
  IN  IF at = {} THEN Unset
      ELSE block[CHOOSE i \in at : \A j \in at : j <= i].fields

IfAny(S) == IF S = {} THEN Unset ELSE S

\* parse_policy_block: a block cannot say anything of the fields after `audit`.
BlockRecord(block) ==
  [schema_version |-> "0.1",
   record_type |-> "scope",
   scope_id |-> block[1].name,
   resources |-> {[kind |-> l.kind, target |-> l.target] : l \in Said(block, "resource")},
   capabilities |-> {l.name : l \in Said(block, "capability")},
   policies |-> IfAny({[effect |-> l.effect, condition |-> l.condition] :
                         l \in Said(block, "policy")}),
   approvals |-> IfAny({l.condition : l \in Said(block, "approval")}),
   audit |-> Retained(block),
   approval_required_for |-> Unset, max_bytes |-> Unset,
   max_effects_per_window |-> Unset, rate_window_seconds |-> Unset,
   network_allow |-> Unset, allow_private_network |-> Unset,
   network_allowed_content_types |-> Unset]
=============================================================================
