-------------------------------- MODULE Tongue --------------------------------
(***************************************************************************)
(* Speech acts: the lines tongue_parser.py turns into proposal records and *)
(* tongue_bridge.py acknowledges with an effect that was only proposed.    *)
(*                                                                         *)
(* A line is a record of its first word and its parts; a part is Unset     *)
(* when the line does not have it in the form the word asks for.           *)
(***************************************************************************)
EXTENDS RuntimeApi

SpokenActs == {"need", "claim", "doubt", "remember", "boundary"}

\* The parsers in turn: each takes the lines of one first word.
Parses(line) ==
  \/ line.says = "need" /\ line.capability # Unset /\ line.target # Unset
  \/ line.says = "claim" /\ line.claim # Unset
  \/ line.says = "doubt" /\ line.doubt # Unset
  \/ line.says = "remember" /\ line.lifespan \in {"session", "project", "durable"}
                            /\ line.candidate # Unset
  \/ line.says = "boundary" /\ line.body # Unset

\* A digest, taken not to collide: one line, one proposal, however often said.
ProposalIdFor(line) == <<"prop", line>>

\* evidence_list: the items that are not blank.
EvidenceOf(line) ==
  IF line.says # "claim" THEN Unset
  ELSE IF line.evidence = Unset THEN {} ELSE line.evidence \ {""}

\* parse_line; the parts are in the payload, which the lowering drops.
ParsedLine(line, actor) ==
  [schema_version |-> "0.1", record_type |-> "proposal", speech_act |-> line.says,
   proposal_id |-> ProposalIdFor(line), actor |-> actor,
   evidence |-> EvidenceOf(line), intent |-> Unset]

\* _acknowledgement_detail.
Detail(line) ==
  [offer |-> IF line.says = "boundary" THEN line.offer ELSE Unset,
   capability |-> IF line.says = "need" THEN line.capability ELSE Unset,
   target |-> IF line.says = "need" THEN line.target ELSE Unset]

\* propose_from_utterance with acknowledge_proposal: refused with a
\* TongueBridgeError, or an effect in the first state there is, of no intent.
ProposeFromUtterance(line, actor, scope_id) ==
  LET proposal == ProposalFromRecord(ParsedLine(line, actor))
  IN  IF \/ ~Parses(line)
         \/ ~ProposalIsCanonical(ParsedLine(line, actor))
         \/ proposal.speech_act \notin SpokenActs
      THEN [state |-> "refused"]
      ELSE [state |-> "proposal", proposal_id |-> proposal.proposal_id,
            intent_id |-> Unset, scope_id |-> scope_id, detail |-> Detail(line)]
=============================================================================
