---------------------------- MODULE OperatorProofs ----------------------------
(***************************************************************************)
(* What the operators that keep no state do, for all their arguments: the  *)
(* append to a JSON-lines file and the read-back of the trace ledger, the  *)
(* verdict on an approval, and the records that policy blocks and speech   *)
(* acts are lowered to.                                                    *)
(***************************************************************************)
EXTENDS TraceLedger, PolicyBlock, Tongue, TLAPS

LedgerOf(S) == [pieces : Seq([record : S, parses : BOOLEAN]), open : BOOLEAN]

LEMMA SeqElement ==
  ASSUME NEW T, NEW s \in Seq(T), NEW i \in 1..Len(s)
  PROVE  s[i] \in T
  OBVIOUS

LEMMA LastUnreadableIsPieces ==
  ASSUME NEW S, NEW s \in Seq([record : S, parses : BOOLEAN])
  PROVE  /\ WithLastUnreadable(s) \in Seq([record : S, parses : BOOLEAN])
         /\ Len(WithLastUnreadable(s)) = Len(s)
         /\ \A i \in 1..Len(s) : WithLastUnreadable(s)[i].record = s[i].record
<1> DEFINE t == WithLastUnreadable(s)
<1>1. DOMAIN s = 1..Len(s) /\ Len(s) \in Nat
  OBVIOUS
<1>2. t \in [1..Len(s) -> [record : S, parses : BOOLEAN]]
  <2> SUFFICES ASSUME NEW i \in 1..Len(s)
               PROVE  t[i] \in [record : S, parses : BOOLEAN]
    BY <1>1 DEF WithLastUnreadable
  <2>1. s[i] \in [record : S, parses : BOOLEAN]
    BY SeqElement
  <2> QED
    BY <1>1, <2>1 DEF WithLastUnreadable
<1>3. t \in Seq([record : S, parses : BOOLEAN]) /\ Len(t) = Len(s)
  BY <1>1, <1>2
<1>4. ASSUME NEW i \in 1..Len(s) PROVE t[i].record = s[i].record
  <2>1. s[i] \in [record : S, parses : BOOLEAN]
    BY SeqElement
  <2> QED
    BY <1>1, <2>1 DEF WithLastUnreadable
<1> QED
  BY <1>3, <1>4

\* Whole, torn or unterminated, an append adds one record at the end and loses
\* track of none before it: it can only make the last one unreadable.
THEOREM AppendKeepsRecords ==
  ASSUME NEW S, NEW l \in LedgerOf(S), NEW r \in S, NEW outcome \in AppendOutcomes
  PROVE  LET m == AppendTo(l, r, outcome)
         IN  /\ m \in LedgerOf(S)
             /\ DOMAIN l.pieces = 1..Len(l.pieces)
             /\ DOMAIN m.pieces = 1..(Len(l.pieces) + 1)
             /\ \A i \in 1..Len(l.pieces) : m.pieces[i].record = l.pieces[i].record
             /\ m.pieces[Len(l.pieces) + 1].record = r
<1> DEFINE old == IF l.open THEN WithLastUnreadable(l.pieces) ELSE l.pieces
           new == [record |-> r, parses |-> outcome # Torn /\ ~l.open]
           m == AppendTo(l, r, outcome)
<1>1. l.pieces \in Seq([record : S, parses : BOOLEAN]) /\ l.open \in BOOLEAN
  BY DEF LedgerOf
<1>2. /\ old \in Seq([record : S, parses : BOOLEAN])
      /\ Len(old) = Len(l.pieces)
      /\ \A i \in 1..Len(l.pieces) : old[i].record = l.pieces[i].record
  <2>1. CASE l.open
    BY <1>1, <2>1, LastUnreadableIsPieces
  <2>2. CASE ~l.open
    BY <1>1, <2>2
  <2> QED
    BY <2>1, <2>2
<1>3. new \in [record : S, parses : BOOLEAN]
  OBVIOUS
<1>4. m.pieces = Append(old, new) /\ m.open = (outcome # Whole)
  BY DEF AppendTo
<1>5. m \in LedgerOf(S)
  <2>1. Append(old, new) \in Seq([record : S, parses : BOOLEAN])
    BY <1>2, <1>3
  <2> QED
    BY <2>1 DEF AppendTo, LedgerOf
<1>6. /\ DOMAIN m.pieces = 1..(Len(l.pieces) + 1)
      /\ \A i \in 1..Len(l.pieces) : m.pieces[i] = old[i]
      /\ m.pieces[Len(l.pieces) + 1] = new
  <2> HIDE DEF old, new, m
  <2> QED
    BY <1>1, <1>2, <1>3, <1>4
<1> QED
  BY <1>1, <1>2, <1>5, <1>6

-----------------------------------------------------------------------------
\* The trace has a line of its own that no later append can run into.
HasItsLine(l, r) ==
  \E i \in 1..Len(l.pieces) : /\ l.pieces[i].record = r /\ l.pieces[i].parses
                              /\ i = Len(l.pieces) => ~l.open

LEMMA Pieces ==
  ASSUME NEW S, NEW l \in LedgerOf(S)
  PROVE  /\ l.pieces \in Seq([record : S, parses : BOOLEAN]) /\ l.open \in BOOLEAN
         /\ Len(l.pieces) \in Nat /\ DOMAIN l.pieces = 1..Len(l.pieces)
  BY DEF LedgerOf

LEMMA LastOfAppended ==
  ASSUME NEW S, NEW l \in LedgerOf(S), NEW r \in S, NEW outcome \in AppendOutcomes
  PROVE  LET m == AppendTo(l, r, outcome)
         IN  /\ Len(m.pieces) = Len(l.pieces) + 1
             /\ m.pieces[Len(m.pieces)] = [record |-> r, parses |-> outcome # Torn /\ ~l.open]
             /\ m.open = (outcome # Whole)
             /\ \A i \in 1..Len(l.pieces) :
                  m.pieces[i] = IF l.open THEN WithLastUnreadable(l.pieces)[i]
                                ELSE l.pieces[i]
<1> DEFINE old == IF l.open THEN WithLastUnreadable(l.pieces) ELSE l.pieces
           new == [record |-> r, parses |-> outcome # Torn /\ ~l.open]
           m == AppendTo(l, r, outcome)
<1>1. old \in Seq([record : S, parses : BOOLEAN]) /\ Len(old) = Len(l.pieces)
  BY Pieces, LastUnreadableIsPieces
<1>2. new \in [record : S, parses : BOOLEAN]
  OBVIOUS
<1>3. m.pieces = Append(old, new) /\ m.open = (outcome # Whole)
  BY DEF AppendTo
<1> HIDE DEF new, m
<1>4. /\ Len(m.pieces) = Len(l.pieces) + 1 /\ m.pieces[Len(m.pieces)] = new
      /\ \A i \in 1..Len(l.pieces) : m.pieces[i] = old[i]
  <2> HIDE DEF old
  <2> QED
    BY <1>1, <1>2, <1>3
<1> QED
  BY <1>3, <1>4 DEF new, m

LEMMA LastOfWhole ==
  ASSUME NEW S, NEW l \in LedgerOf(S), NEW r \in S,
         NEW m, m = AppendTo(l, r, Whole)
  PROVE  /\ Len(m.pieces) = Len(l.pieces) + 1 /\ Len(l.pieces) \in Nat
         /\ m \in LedgerOf(S) /\ ~m.open
         /\ m.pieces[Len(m.pieces)].record = r
         /\ m.pieces[Len(m.pieces)].parses <=> ~l.open
         /\ \A i \in 1..Len(l.pieces) :
              m.pieces[i] = IF l.open THEN WithLastUnreadable(l.pieces)[i] ELSE l.pieces[i]
<1>1. Whole \in AppendOutcomes /\ Whole # Torn
  BY DEF AppendOutcomes, Whole, Torn
<1>2. /\ Len(m.pieces) = Len(l.pieces) + 1
      /\ m.pieces[Len(m.pieces)] = [record |-> r, parses |-> Whole # Torn /\ ~l.open]
      /\ m.open = (Whole # Whole)
      /\ \A i \in 1..Len(l.pieces) :
           m.pieces[i] = IF l.open THEN WithLastUnreadable(l.pieces)[i] ELSE l.pieces[i]
  BY <1>1, LastOfAppended
<1> DEFINE new == [record |-> r, parses |-> Whole # Torn /\ ~l.open]
<1>3. new.record = r /\ (new.parses <=> Whole # Torn /\ ~l.open)
  OBVIOUS
<1>4. /\ m.pieces[Len(m.pieces)].record = r
      /\ m.pieces[Len(m.pieces)].parses <=> ~l.open
  <2>1. m.pieces[Len(m.pieces)] = new
    BY <1>2
  <2> HIDE DEF new
  <2> QED
    BY <1>1, <1>3, <2>1, Zenon
<1>5. ~m.open
  BY <1>2, Zenon
<1>6. m \in LedgerOf(S)
  BY <1>1, AppendKeepsRecords
<1>7. Len(l.pieces) \in Nat
  BY Pieces
<1> HIDE DEF LedgerOf
<1> QED
  BY <1>2, <1>4, <1>5, <1>6, <1>7

\* An append that is whole and read back before anybody else appends is always
\* acknowledged, whatever state earlier appends left the file in.
THEOREM WholeAppendIsVerified ==
  ASSUME NEW S, NEW l \in LedgerOf(S), NEW r \in S, NEW scope, TraceFits(scope, r)
  PROVE  TraceAnswer(TraceAppended(l, scope, r, Whole), scope, r, Whole) = "verified"
<1> DEFINE m == AppendTo(l, r, Whole)
<1>1. Len(m.pieces) # 0 /\ ~m.open /\ m.pieces[Len(m.pieces)].record = r
  BY LastOfWhole
<1>2. TailIs(m, r)
  BY <1>1 DEF TailIs
<1> QED
  BY <1>2 DEF TraceAnswer, TraceAppended, Verified

\* "Verified" is never answered for a trace whose bytes are not in the file.
THEOREM VerifiedIsInTheFile ==
  ASSUME NEW S, NEW l \in LedgerOf(S), NEW r, Verified(l, r)
  PROVE  r \in RecordsOf(l)
<1>1. CASE TailIs(l, r)
  <2>1. Len(l.pieces) \in DOMAIN l.pieces /\ l.pieces[Len(l.pieces)].record = r
    BY <1>1, Pieces DEF TailIs
  <2> QED
    BY <2>1 DEF RecordsOf
<1>2. CASE Scanned(l, r)
  BY <1>2 DEF Scanned, ReadableRecordsOf, RecordsOf
<1> QED
  BY <1>1, <1>2 DEF Verified

\* A line of its own is kept through any later append, torn ones included, so a
\* read-back that comes late, and every later reader that skips bad lines,
\* finds the trace.
THEOREM LinesAreKept ==
  ASSUME NEW S, NEW l \in LedgerOf(S), NEW r, NEW q \in S, NEW outcome \in AppendOutcomes,
         HasItsLine(l, r)
  PROVE  LET m == AppendTo(l, q, outcome)
         IN  HasItsLine(m, r) /\ Verified(m, r) /\ r \in ReadableRecordsOf(m)
<1> DEFINE m == AppendTo(l, q, outcome)
<1>1. PICK i \in 1..Len(l.pieces) : /\ l.pieces[i].record = r /\ l.pieces[i].parses
                                    /\ i = Len(l.pieces) => ~l.open
  BY DEF HasItsLine
<1>2. m.pieces[i] = l.pieces[i]
  <2>1. l.open => WithLastUnreadable(l.pieces)[i] = l.pieces[i]
    BY <1>1, Pieces DEF WithLastUnreadable
  <2> QED
    BY <2>1, LastOfAppended
<1>3. i \in 1..Len(m.pieces) /\ i # Len(m.pieces) /\ DOMAIN m.pieces = 1..Len(m.pieces)
  BY <1>1, LastOfAppended, Pieces, AppendKeepsRecords
<1>4. HasItsLine(m, r)
  BY <1>1, <1>2, <1>3 DEF HasItsLine
<1>5. r \in ReadableRecordsOf(m)
  BY <1>1, <1>2, <1>3 DEF ReadableRecordsOf
<1> QED
  BY <1>4, <1>5 DEF Verified, Scanned

\* A whole append to a file that ends in a newline gives the trace such a line.
THEOREM TerminatedAppendHasItsLine ==
  ASSUME NEW S, NEW l \in LedgerOf(S), NEW r \in S, ~l.open
  PROVE  HasItsLine(AppendTo(l, r, Whole), r)
<1> DEFINE m == AppendTo(l, r, Whole)
<1>1. ~m.open /\ m.pieces[Len(m.pieces)].record = r /\ m.pieces[Len(m.pieces)].parses
  BY LastOfWhole
<1>2. Len(m.pieces) \in 1..Len(m.pieces)
  BY LastOfWhole
<1> QED
  BY <1>1, <1>2 DEF HasItsLine

\* After an unterminated fragment the same append is verified all the same,
\* although no reader finds the trace: it shares its line with the fragment.
THEOREM FragmentHidesVerified ==
  ASSUME NEW S, NEW l \in LedgerOf(S), NEW r \in S, l.open, r \notin ReadableRecordsOf(l)
  PROVE  LET m == AppendTo(l, r, Whole)
         IN  Verified(m, r) /\ r \notin ReadableRecordsOf(m)
<1> DEFINE m == AppendTo(l, r, Whole)
           n == Len(l.pieces)
<1>1. /\ Len(m.pieces) = n + 1 /\ n \in Nat /\ ~m.open
      /\ m.pieces[n + 1].record = r /\ ~m.pieces[n + 1].parses
      /\ \A i \in 1..n : m.pieces[i] = WithLastUnreadable(l.pieces)[i]
  BY LastOfWhole
<1>2. DOMAIN m.pieces = 1..(n + 1) /\ DOMAIN l.pieces = 1..n
  BY <1>1, LastOfWhole, Pieces
<1>3. TailIs(m, r)
  <2>1. m.pieces # <<>>
    BY <1>1
  <2> QED
    BY <1>1, <2>1 DEF TailIs
<1>4. ASSUME NEW i \in DOMAIN m.pieces, m.pieces[i].parses
      PROVE  m.pieces[i].record # r
  <2>1. i \in 1..n
    BY <1>1, <1>2, <1>4
  <2>2. l.pieces[i] \in [record : S, parses : BOOLEAN]
    BY <2>1, Pieces, SeqElement
  <2>3. i = n => m.pieces[i] = [l.pieces[i] EXCEPT !.parses = FALSE]
    BY <1>1, <1>2, <2>1 DEF WithLastUnreadable
  <2>4. i # n
    BY <1>4, <2>2, <2>3
  <2>5. m.pieces[i] = l.pieces[i]
    BY <1>1, <1>2, <2>1, <2>4 DEF WithLastUnreadable
  <2> QED
    BY <1>2, <1>4, <2>1, <2>5 DEF ReadableRecordsOf
<1>5. r \notin ReadableRecordsOf(m)
  BY <1>4 DEF ReadableRecordsOf
<1> QED
  BY <1>3, <1>5 DEF Verified

-----------------------------------------------------------------------------
\* approval_for and approval_rejection_reason let a commit go ahead exactly
\* when the approval clears it, whatever the scope, the intent, the decision
\* and the time.
THEOREM VerdictIsClearance ==
  ASSUME NEW scope, NEW intent, NEW kind, NEW approval, NEW granted \in BOOLEAN,
         NEW now \in Int, intent.intent_id # Unset,
         approval # Unset =>
           /\ approval.status \in ApprovalStatuses
           /\ approval.expires_at \in Int \cup {Unset, Unparsable, Naive}
  PROVE  ApprovalVerdict(scope, intent, kind, approval, granted, now) = "none"
           <=> Clears(scope, intent, kind, approval, granted, now)
<1>1. CASE approval # Unset
  <2>1. ApprovalFor(scope, intent, kind, approval, granted) = approval
    BY <1>1 DEF ApprovalFor
  <2> DEFINE unexpired ==
        \/ approval.expires_at = Unset
        \/ approval.expires_at \notin {Unparsable, Naive} /\ now < approval.expires_at
  <2>2. unexpired <=> approval.expires_at # Naive /\ ~Expired(approval, now)
    BY <1>1, ApprovalAssumption DEF Expired
  <2> HIDE DEF unexpired
  <2>3. CASE ~BoundTo(approval, scope, intent)
    BY <1>1, <2>1, <2>3 DEF ApprovalVerdict, ApprovalRejectionReason, Clears, BoundTo
  <2>4. CASE BoundTo(approval, scope, intent)
    <3>1. ApprovalRejectionReason(scope, intent, approval, now) =
            IF approval.status = "denied" THEN "approval_denied"
            ELSE IF approval.status = "expired" THEN "approval_expired"
            ELSE IF approval.status = "requested" THEN "approval_not_decided"
            ELSE IF approval.expires_at = Naive THEN "raises"
            ELSE IF Expired(approval, now) THEN "approval_expired"
            ELSE "none"
      BY <2>4 DEF ApprovalRejectionReason, BoundTo
    <3>2. Clears(scope, intent, kind, approval, granted, now)
            <=> approval.status \in {"approved", "not_required"} /\ unexpired
      BY <1>1, <2>4 DEF Clears, unexpired
    <3> QED
      BY <1>1, <2>1, <2>2, <3>1, <3>2 DEF ApprovalVerdict, ApprovalStatuses
  <2> QED
    BY <2>3, <2>4
<1>2. CASE approval = Unset
  <2> DEFINE d == ApprovalFor(scope, intent, kind, approval, granted)
  <2>1. d = Decision(IF kind \notin scope.approval_required_for THEN "not_required"
                     ELSE IF granted THEN "approved" ELSE "requested",
                     scope, intent, Unset)
    BY <1>2 DEF ApprovalFor
  <2>2. /\ d.scope_id = scope.scope_id /\ d.intent_id = intent.intent_id
        /\ d.intent_sha256 = IntentSha256(intent) /\ d.expires_at = Unset
    BY <2>1 DEF Decision
  <2>3. d.status = IF kind \notin scope.approval_required_for THEN "not_required"
                   ELSE IF granted THEN "approved" ELSE "requested"
    BY <2>1 DEF Decision
  <2> HIDE DEF d
  <2>4. d.status # "requested" => ApprovalRejectionReason(scope, intent, d, now) = "none"
    BY <2>2, <2>3, ApprovalAssumption DEF ApprovalRejectionReason, Expired
  <2> QED
    BY <1>2, <2>3, <2>4 DEF ApprovalVerdict, Clears, d
<1> QED
  BY <1>1, <1>2

-----------------------------------------------------------------------------
\* Strings and lists are none of the values that stand for a missing or
\* malformed field.
Ordinary(value) == value \notin Missing \cup {Malformed}

BlockIsText(b) ==
  /\ Ordinary(b[1].name)
  /\ Ordinary({l.name : l \in Said(b, "capability")})
  /\ Ordinary({l.condition : l \in Said(b, "approval")})
  /\ \A l \in Said(b, "capability") : l.name # Malformed
  /\ \A l \in Said(b, "approval") : l.condition # Malformed

LEMMA MissingOrNot == Unset \in Missing /\ Unset # Malformed /\ Unset # Null
  BY RecordAssumption DEF Missing

\* Every block that parses lowers to a scope, unless a condition names nothing
\* or a capability the block does not declare; then it is refused, and nothing
\* that parses makes the lowering raise anything else.
THEOREM BlockOutcome ==
  ASSUME NEW b, IsPolicyBlock(b), BlockIsText(b)
  PROVE  ScopeOutcome(BlockRecord(b)) =
           IF \A l \in Said(b, "approval") : /\ l.condition # {}
                                             /\ l.condition \subseteq BlockRecord(b).capabilities
           THEN "lowered" ELSE "refused"
<1> DEFINE s == BlockRecord(b)
           conditions == {l.condition : l \in Said(b, "approval")}
           recognized == \A l \in Said(b, "approval") :
                           l.condition # {} /\ l.condition \subseteq s.capabilities
<1>1. /\ s.schema_version = "0.1" /\ s.record_type = "scope"
      /\ s.scope_id = b[1].name
      /\ s.capabilities = {l.name : l \in Said(b, "capability")}
      /\ s.approvals = IfAny(conditions)
      /\ s.approval_required_for = Unset /\ s.max_bytes = Unset
      /\ s.max_effects_per_window = Unset /\ s.rate_window_seconds = Unset
      /\ s.network_allow = Unset /\ s.allow_private_network = Unset
      /\ s.network_allowed_content_types = Unset
  BY DEF BlockRecord
<1> HIDE DEF s
<1>2. CapabilitiesAreNamed(s)
  BY <1>1 DEF CapabilitiesAreNamed, IsPolicyBlock, BlockIsText, Ordinary
<1>3. ApprovalsAreRecognized(s) <=> recognized
  <2>1. FalsyOrNames(s.approval_required_for)
    BY <1>1, MissingOrNot DEF FalsyOrNames
  <2>2. CASE conditions = {}
    <3>1. s.approvals = Unset /\ Said(b, "approval") = {}
      BY <1>1, <2>2 DEF IfAny
    <3> QED
      BY <2>1, <3>1, MissingOrNot DEF ApprovalsAreRecognized
  <2>3. CASE conditions # {}
    <3>1. s.approvals = conditions /\ conditions \notin Missing /\ conditions # Malformed
      BY <1>1, <2>3 DEF IfAny, BlockIsText, Ordinary
    <3>2. \A l \in Said(b, "approval") :
            ConditionIsRecognized(l.condition, s)
              <=> l.condition # {} /\ l.condition \subseteq s.capabilities
      BY DEF ConditionIsRecognized, BlockIsText
    <3> QED
      BY <2>1, <3>1, <3>2 DEF ApprovalsAreRecognized
  <2> QED
    BY <2>2, <2>3
<1>4. /\ FalsyOrTexts(s.network_allow) /\ s.network_allow # Null
      /\ FalsyOrNames(s.network_allowed_content_types)
      /\ s.network_allowed_content_types # Null
  BY <1>1, MissingOrNot DEF FalsyOrTexts, FalsyOrNames
<1>5. BudgetIsSound(s)
  BY <1>1 DEF BudgetIsSound, OrDefault
<1>6. RequiredString(s.scope_id)
  BY <1>1 DEF RequiredString, BlockIsText, Ordinary
<1>7. /\ s.allow_private_network \in BOOLEAN \cup {Unset}
      /\ s.max_bytes \in (Nat \ {0}) \cup {Unset}
  BY <1>1
<1>8. ScopeOutcome(s) = IF ApprovalsAreRecognized(s) THEN "lowered" ELSE "refused"
  BY <1>1, <1>2, <1>4, <1>5, <1>6, <1>7, RecordAssumption DEF ScopeOutcome
<1> QED
  BY <1>3, <1>8 DEF s

\* The runtime asks for approval of exactly what the approval lines name: none
\* is lost on the way from the block to the scope and none is added.
THEOREM BlockAsks ==
  ASSUME NEW b, BlockIsText(b), NEW max_bytes
  PROVE  ScopeFromRecord(BlockRecord(b), max_bytes).approval_required_for =
           UNION {l.condition : l \in Said(b, "approval")}
<1> DEFINE conditions == {l.condition : l \in Said(b, "approval")}
<1>1. /\ BlockRecord(b).approvals = IfAny(conditions)
      /\ BlockRecord(b).approval_required_for = Unset
  BY DEF BlockRecord
<1>2. NamesIn(BlockRecord(b).approval_required_for) = {}
  BY <1>1, MissingOrNot DEF NamesIn
<1>3. NamesIn(BlockRecord(b).approvals) = conditions
  BY <1>1, MissingOrNot DEF NamesIn, IfAny, BlockIsText, Ordinary
<1>4. Enrolled(BlockRecord(b)) = UNION conditions
  BY <1>2, <1>3 DEF Enrolled
<1> QED
  BY <1>4 DEF ScopeFromRecord

-----------------------------------------------------------------------------
\* The parser keeps records valid: every line it takes from a named actor is
\* acknowledged, so the bridge's other refusals are for nobody.
THEOREM SpeechIsAcknowledged ==
  ASSUME NEW line, NEW actor, NEW scope_id, Parses(line), RequiredString(actor),
         Ordinary(ProposalIdFor(line)), line.says = "claim" => Ordinary(EvidenceOf(line))
  PROVE  ProposeFromUtterance(line, actor, scope_id).state = "proposal"
<1> DEFINE p == ParsedLine(line, actor)
<1>1. /\ p.schema_version = "0.1" /\ p.record_type = "proposal" /\ p.speech_act = line.says
      /\ p.proposal_id = ProposalIdFor(line) /\ p.actor = actor
      /\ p.evidence = EvidenceOf(line)
  BY DEF ParsedLine
<1> HIDE DEF p
<1>2. line.says \in SpokenActs
  BY DEF Parses, SpokenActs
<1>3. line.says \in SpeechActs /\ line.says # "intend"
  BY <1>2 DEF SpokenActs, SpeechActs
<1>4. p.evidence \notin {Null, Malformed}
  BY <1>1, MissingOrNot DEF EvidenceOf, Ordinary, Missing
<1>5. ProposalIsCanonical(p)
  BY <1>1, <1>3, <1>4 DEF ProposalIsCanonical, RequiredString, Ordinary
<1>6. ProposalFromRecord(p).speech_act = line.says
  BY <1>1 DEF ProposalFromRecord
<1> QED
  BY <1>2, <1>5, <1>6 DEF ProposeFromUtterance, p

\* No spoken line is ever handed to an adapter: under any scope and in either
\* mode the runtime turns its record away as no intent, and stops short of a
\* commit.
THEOREM SpeechNeverActs ==
  ASSUME NEW line, NEW actor, NEW scope, NEW mode, Parses(line)
  PROVE  LET proposal == ProposalFromRecord(ParsedLine(line, actor))
         IN  /\ AdmissionReason(scope, proposal) = "proposal_is_not_an_intent"
             /\ StopsAtApproval(mode, proposal)
<1> DEFINE proposal == ProposalFromRecord(ParsedLine(line, actor))
<1>1. line.says # "intend"
  BY DEF Parses
<1>2. proposal.speech_act # "intend" /\ proposal.intent = Unset
  BY <1>1 DEF ProposalFromRecord, ParsedLine
<1> QED
  BY <1>2 DEF AdmissionReason, StopsAtApproval
=============================================================================
