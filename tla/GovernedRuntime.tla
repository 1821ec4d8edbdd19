--------------------------- MODULE GovernedRuntime ---------------------------
(***************************************************************************)
(* The evaluation pipeline every governed effect goes through              *)
(* (evaluate_with_adapter and _run_committable in runtime_core.py), run by *)
(* several callers at once over the ledgers of one sandbox root:           *)
(*                                                                         *)
(*   admission -> key lock -> replay or conflict -> prepare -> approval    *)
(*     -> rate budget -> commit (or record-only custody)                   *)
(*     -> idempotency record -> rate record -> unlock and return           *)
(*                                                                         *)
(* Each action is one stretch of code between two accesses to shared       *)
(* state, so the steps of concurrent callers interleave at every read and  *)
(* write of a ledger.  The adapter is any that keeps the GovernedAdapter   *)
(* contract: prepare touches nothing, commit either performs the effect or *)
(* refuses, or performs it and then fails to verify it.  The key lock is   *)
(* one step here; IdempotencyLock is how the code builds it.               *)
(***************************************************************************)
EXTENDS Approvals, JsonlLedger, FiniteSets

CONSTANTS Callers, NoCaller,
          Requests,   \* the calls of evaluate_with_adapter that may be made
          Faults,     \* the kinds of fault the environment may inject
          MaxCalls,   \* bound on calls made
          MaxFaults,  \* bound on faults injected
          MaxClock    \* bound on the clock

FaultKinds == {"crash", "lock_error", "lookup_error", "record_error", "record_torn",
               "record_unterminated", "budget_error", "rate_error", "unverified"}

\* Every intent has the fields of the dataclass, set or not: intent_id stands
\* for what is to be done, well_typed for a string target and an object input.
IntentFields == {"intent_id", "operation", "well_typed", "required_capability",
                 "idempotency_key", "custody_mode"}

ASSUME RequestAssumption ==
  /\ Unset \notin Requests
  /\ \A r \in Requests :
       /\ r.intent = [f \in IntentFields |-> r.intent[f]]
       /\ r.intent.intent_id # Unset /\ r.approval_granted \in BOOLEAN
       /\ r.scope.max_effects_per_window \in Int /\ r.scope.rate_window_seconds \in Int
       /\ r.approval # Unset =>
            /\ r.approval.status \in ApprovalStatuses
            /\ r.approval.expires_at \in Int \cup {Unset, Unparsable, Naive}

ASSUME RuntimeAssumption ==
  /\ NoCaller \notin Callers
  /\ Faults \subseteq FaultKinds
  /\ MaxCalls \in Nat /\ MaxFaults \in Nat /\ MaxClock \in Nat

VARIABLES pc,        \* where each caller is in the pipeline
          req,       \* the request it is evaluating
          call,      \* the number of the call (its trace_id)
          entered,   \* when the call got its lock, or was made if it takes none
          effectNow, \* effect_now, the clock when its budget was checked
          kept,      \* the rate events it read before rewriting the ledger
          result,    \* the EffectResult it is about to return
          locks,     \* who holds each (scope, key) lock
          world,     \* the effects adapters have performed
          custody,   \* the record-only authorizations handed to their actor
          idem,      \* .fermata-idempotency/keys.jsonl
          rate,      \* .fermata-rate/events.jsonl, as the set of its events
          clock, calls, faults

local == <<pc, req, call, entered, effectNow, kept, result>>
vars == <<local, locks, world, custody, idem, rate, clock, calls, faults>>

\* The reasons this pipeline gives.  "adapter_refused" stands for whatever the
\* adapter's own prepare or commit answers, "adapter_commit_failed" only for the
\* runtime's own lock, lookup and budget errors.
Reasons ==
  {"none", "proposal_is_not_an_intent", "unsupported_adapter_operation",
   "unsupported_capability_for_operation", "missing_capability",
   "target_or_input_malformed", "adapter_refused", "adapter_commit_failed",
   "idempotency_key_conflict", "scope_rate_limit_exceeded",
   "verification_failed_post_commit", "approval_required_before_commit",
   "approval_scope_mismatch", "approval_intent_mismatch",
   "approval_intent_hash_mismatch", "approval_denied", "approval_expired",
   "approval_not_decided", "approval_unbound", "raises"}

Results == [state : {"none", "rejected", "paused", "approved", "committed", "raised"},
            reason : Reasons, effect : Nat]

NoResult == [state |-> "none", reason |-> "none", effect |-> 0]
Rejected(reason) == [state |-> "rejected", reason |-> reason, effect |-> 0]
Paused == [state |-> "paused", reason |-> "approval_required_before_commit", effect |-> 0]
Raised == [state |-> "raised", reason |-> "raises", effect |-> 0]
Approved(n) == [state |-> "approved", reason |-> "none", effect |-> n]
Committed(n) == [state |-> "committed", reason |-> "none", effect |-> n]

-----------------------------------------------------------------------------
(* A request has the fields scope, adapter, speech_act, intent, approval,   *)
(* approval_granted and stop_at_approval.                                   *)

\* The checks before any ledger is touched, in the order the code makes them.
AdmissionRejection(r) ==
  IF r.speech_act # "intend" THEN "proposal_is_not_an_intent"
  ELSE IF r.intent.operation # r.adapter THEN "unsupported_adapter_operation"
  ELSE IF r.intent.required_capability # r.adapter
       THEN "unsupported_capability_for_operation"
  ELSE IF r.adapter \notin r.scope.capabilities THEN "missing_capability"
  ELSE IF ~r.intent.well_typed THEN "target_or_input_malformed"
  ELSE "none"

RecordOnly(r) == r.intent.custody_mode = "record_only"

\* A dry run takes no lock and looks up nothing; neither does a call without key.
Keyed(r) == ~r.stop_at_approval /\ r.intent.idempotency_key # Unset

\* Seeded fault, not used: a key that is about the whole sandbox root.
ClaimOfKeyAlone(r) == [scope_id |-> "any", key |-> r.intent.idempotency_key]

\* What a key is about: the same key in two scopes is two claims.
ClaimOf(r) == [scope_id |-> r.scope.scope_id, key |-> r.intent.idempotency_key]

Claims == {ClaimOf(r) : r \in {q \in Requests : Keyed(q)}}

Budgeted(r) == r.scope.max_effects_per_window > 0

Verdict(r, now) ==
  ApprovalVerdict(r.scope, r.intent, r.adapter, r.approval, r.approval_granted, now)

Cleared(r, now) ==
  Clears(r.scope, r.intent, r.adapter, r.approval, r.approval_granted, now)

IdemRecord(r, n) ==
  [claim |-> ClaimOf(r), sha |-> IntentSha256(r.intent), effect |-> n]

IdemRecords == [claim : Claims, sha : {IntentSha256(r.intent) : r \in Requests},
                effect : Nat]

\* The last record of the ledger under a claim, as idempotency_lookup finds it.
PriorIndexes(c) == {i \in DOMAIN idem.pieces : idem.pieces[i].record.claim = c}
Prior(c) == idem.pieces[CHOOSE i \in PriorIndexes(c) :
                          \A j \in PriorIndexes(c) : j <= i].record

RateEvent(r, n, ts) == [ts |-> ts, scope_id |-> r.scope.scope_id, effect |-> n]

RateEvents == [ts : Nat, scope_id : {r.scope.scope_id : r \in Requests}, effect : Nat]

\* Seeded fault, not used: the window without its oldest instant.
InOpenWindow(events, scope, now) ==
  {e \in events : e.ts > now - scope.rate_window_seconds}

\* Events at or after now - window, whatever scope wrote them.
InWindow(events, scope, now) ==
  {e \in events : e.ts >= now - scope.rate_window_seconds}

-----------------------------------------------------------------------------
Init == /\ pc = [p \in Callers |-> "idle"]
        /\ req = [p \in Callers |-> Unset]
        /\ call = [p \in Callers |-> 0]
        /\ entered = [p \in Callers |-> 0]
        /\ effectNow = [p \in Callers |-> 0]
        /\ kept = [p \in Callers |-> {}]
        /\ result = [p \in Callers |-> NoResult]
        /\ locks = [c \in Claims |-> NoCaller]
        /\ world = {}
        /\ custody = {}
        /\ idem = EmptyLedger
        /\ rate = {}
        /\ clock = 0
        /\ calls = 0
        /\ faults = 0

Goto(p, l) == pc' = [pc EXCEPT ![p] = l]

\* Go to the return path with a result: nothing after this changes the outcome.
ReturnWith(p, res) == /\ Goto(p, "return")
                      /\ result' = [result EXCEPT ![p] = res]

\* One more fault, of a kind this environment has.
Fault(kind) == /\ kind \in Faults
               /\ faults < MaxFaults
               /\ faults' = faults + 1

\* What an adapter, or the actor it is left to, is given to do, with the times
\* the call got its lock, looked at its budget and acted.
Effect(p, verified) ==
  [call |-> call[p], request |-> req[p], entered |-> entered[p],
   checked |-> effectNow[p], done |-> clock, verified |-> verified]

\* A call that ends its critical section early leaves everything shared alone.
StaysPut == UNCHANGED <<locks, world, custody, idem, rate>>

-----------------------------------------------------------------------------
(* Seeded faults: wrong versions of the actions below, none of them part of *)
(* the specification, that show each property can fail.                     *)

\* An flock that was not exclusive.
LockWithoutWaiting(p) ==
  /\ pc[p] = "lock"
  /\ locks' = [locks EXCEPT ![ClaimOf(req[p])] = p]
  /\ Goto(p, "lookup")
  /\ UNCHANGED <<req, call, entered, effectNow, kept, result>>
  /\ UNCHANGED <<world, custody, idem, rate, clock, calls, faults>>

\* A lookup that skips the lines it cannot parse.
LookupSkippingBadLines(p) ==
  /\ pc[p] = "lookup"
  /\ IF \A i \in PriorIndexes(ClaimOf(req[p])) : ~idem.pieces[i].parses
     THEN Goto(p, "prepare") /\ UNCHANGED result
     ELSE ReturnWith(p, Committed(Prior(ClaimOf(req[p])).effect))
  /\ StaysPut
  /\ UNCHANGED <<req, call, entered, effectNow, kept, clock, calls, faults>>

\* A budget that counts the effect it is asked about.
CheckBudgetCountingItself(p) ==
  /\ pc[p] = "budget"
  /\ effectNow' = [effectNow EXCEPT ![p] = clock]
  /\ LET s == req[p].scope
     IN  IF Cardinality(InWindow(rate, s, clock)) + 1 >= s.max_effects_per_window
         THEN ReturnWith(p, Rejected("scope_rate_limit_exceeded"))
         ELSE Goto(p, "commit") /\ UNCHANGED result
  /\ StaysPut
  /\ UNCHANGED <<req, call, entered, kept, clock, calls, faults>>

\* record_only custody that leaves an idempotency record like a commit.
HandOverRecordingKey(p) ==
  /\ pc[p] = "commit"
  /\ RecordOnly(req[p])
  /\ custody' = custody \cup {Effect(p, FALSE)}
  /\ result' = [result EXCEPT ![p] = Approved(call[p])]
  /\ Goto(p, IF Keyed(req[p]) THEN "record_key" ELSE "return")
  /\ UNCHANGED <<req, call, entered, effectNow, kept>>
  /\ UNCHANGED <<locks, world, idem, rate, clock, calls, faults>>

\* A commit that returns without an idempotency record.
CommitForgettingKey(p) ==
  /\ pc[p] = "commit"
  /\ ~RecordOnly(req[p])
  /\ world' = world \cup {Effect(p, TRUE)}
  /\ ReturnWith(p, Committed(call[p]))
  /\ UNCHANGED <<req, call, entered, effectNow, kept>>
  /\ UNCHANGED <<locks, custody, idem, rate, clock, calls, faults>>

\* A rate event stamped when it is written.
WriteRateLate(p) ==
  /\ pc[p] = "rate_write"
  /\ rate' = kept[p] \cup {RateEvent(req[p], call[p], clock)}
  /\ Goto(p, "return")
  /\ UNCHANGED <<req, call, entered, effectNow, kept, result>>
  /\ UNCHANGED <<locks, world, custody, idem, clock, calls, faults>>

\* Only a commit releases the lock: no finally clause.
FreedOnCommit(p) ==
  [c \in Claims |-> IF locks[c] = p /\ result[p].state = "committed"
                    THEN NoCaller ELSE locks[c]]

-----------------------------------------------------------------------------
\* A caller evaluates a proposal: the checks that need no shared state.
Submit(p) ==
  /\ pc[p] = "idle"
  /\ calls < MaxCalls
  /\ calls' = calls + 1
  /\ \E r \in Requests :
       /\ req' = [req EXCEPT ![p] = r]
       /\ IF AdmissionRejection(r) # "none"
          THEN ReturnWith(p, Rejected(AdmissionRejection(r)))
          ELSE /\ Goto(p, IF Keyed(r) THEN "lock" ELSE "prepare")
               /\ UNCHANGED result
  /\ call' = [call EXCEPT ![p] = calls + 1]
  /\ entered' = [entered EXCEPT ![p] = clock]
  /\ StaysPut
  /\ UNCHANGED <<effectNow, kept, clock, faults>>

\* _acquire_idempotency_lock: waits for the lock of its claim.
Lock(p) ==
  /\ pc[p] = "lock"
  /\ locks[ClaimOf(req[p])] = NoCaller
  /\ locks' = [locks EXCEPT ![ClaimOf(req[p])] = p]
  /\ entered' = [entered EXCEPT ![p] = clock]
  /\ Goto(p, "lookup")
  /\ UNCHANGED <<req, call, effectNow, kept, result>>
  /\ UNCHANGED <<world, custody, idem, rate, clock, calls, faults>>

\* An OSError on the way to the lock rejects the call; a ValueError of the walk
\* to the lock file passes through evaluate_with_adapter to its caller.
LockError(p) ==
  /\ pc[p] = "lock"
  /\ Fault("lock_error")
  /\ \E res \in {Rejected("adapter_commit_failed"), Raised} : ReturnWith(p, res)
  /\ StaysPut
  /\ UNCHANGED <<req, call, entered, effectNow, kept, clock, calls>>

\* idempotency_lookup: a line that does not parse rejects the call; a prior
\* record of the claim is a replay or, for another intent, a conflict.
Lookup(p) ==
  /\ pc[p] = "lookup"
  /\ LET c == ClaimOf(req[p])
     IN  IF ~Readable(idem)
         THEN ReturnWith(p, Rejected("adapter_commit_failed"))
         ELSE IF PriorIndexes(c) = {}
         THEN Goto(p, "prepare") /\ UNCHANGED result
         ELSE IF Prior(c).sha # IntentSha256(req[p].intent)
         THEN ReturnWith(p, Rejected("idempotency_key_conflict"))
         ELSE ReturnWith(p, Committed(Prior(c).effect))
  /\ StaysPut
  /\ UNCHANGED <<req, call, entered, effectNow, kept, clock, calls, faults>>

LookupError(p) ==
  /\ pc[p] = "lookup"
  /\ Fault("lookup_error")
  /\ ReturnWith(p, Rejected("adapter_commit_failed"))
  /\ StaysPut
  /\ UNCHANGED <<req, call, entered, effectNow, kept, clock, calls>>

\* What becomes of a call whose adapter gives up: its refusal, for a reason of
\* its own, or an exception it does not map to one, which nothing here catches.
GivesUp(p, why) == \E res \in {Rejected(why), Raised} : ReturnWith(p, res)

\* adapter.prepare refuses the intent.
PrepareRefuses(p) ==
  /\ pc[p] = "prepare"
  /\ GivesUp(p, "adapter_refused")
  /\ StaysPut
  /\ UNCHANGED <<req, call, entered, effectNow, kept, clock, calls, faults>>

\* adapter.prepare accepts and the approval is decided: pause, reject, stop a
\* dry run here, or go on to the rate budget and the commit.  An exception of
\* the approval check passes through evaluate_with_adapter to its caller.
Authorize(p) ==
  /\ pc[p] = "prepare"
  /\ LET r == req[p]
         v == Verdict(r, clock)
     IN  IF v = "requested" THEN ReturnWith(p, Paused)
         ELSE IF v = "raises" THEN ReturnWith(p, Raised)
         ELSE IF v # "none" THEN ReturnWith(p, Rejected(v))
         ELSE IF r.stop_at_approval THEN ReturnWith(p, Approved(call[p]))
         ELSE /\ Goto(p, IF Budgeted(r) THEN "budget" ELSE "commit")
              /\ UNCHANGED result
  /\ StaysPut
  /\ UNCHANGED <<req, call, entered, effectNow, kept, clock, calls, faults>>

\* rate_count_recent at effect_now, against the scope's cap.
CheckBudget(p) ==
  /\ pc[p] = "budget"
  /\ effectNow' = [effectNow EXCEPT ![p] = clock]
  /\ LET s == req[p].scope
     IN  IF Cardinality(InWindow(rate, s, clock)) >= s.max_effects_per_window
         THEN ReturnWith(p, Rejected("scope_rate_limit_exceeded"))
         ELSE Goto(p, "commit") /\ UNCHANGED result
  /\ StaysPut
  /\ UNCHANGED <<req, call, entered, kept, clock, calls, faults>>

BudgetError(p) ==
  /\ pc[p] = "budget"
  /\ Fault("budget_error")
  /\ ReturnWith(p, Rejected("adapter_commit_failed"))
  /\ StaysPut
  /\ UNCHANGED <<req, call, entered, effectNow, kept, clock, calls>>

\* Where the rate entry is written, if the scope has a budget at all.
AfterEffect(r) == IF Budgeted(r) THEN "rate_read" ELSE "return"

\* record_only: everything has cleared, and the runtime stops without a commit
\* and without an idempotency record, but it consumes budget.
HandOver(p) ==
  /\ pc[p] = "commit"
  /\ RecordOnly(req[p])
  /\ custody' = custody \cup {Effect(p, FALSE)}
  /\ result' = [result EXCEPT ![p] = Approved(call[p])]
  /\ Goto(p, AfterEffect(req[p]))
  /\ UNCHANGED <<req, call, entered, effectNow, kept>>
  /\ UNCHANGED <<locks, world, idem, rate, clock, calls, faults>>

\* adapter.commit performs the effect and verifies it.
Commit(p) ==
  /\ pc[p] = "commit"
  /\ ~RecordOnly(req[p])
  /\ world' = world \cup {Effect(p, TRUE)}
  /\ result' = [result EXCEPT ![p] = Committed(call[p])]
  /\ Goto(p, IF Keyed(req[p]) THEN "record_key" ELSE AfterEffect(req[p]))
  /\ UNCHANGED <<req, call, entered, effectNow, kept>>
  /\ UNCHANGED <<locks, custody, idem, rate, clock, calls, faults>>

\* adapter.commit refuses before it has done anything.
CommitRefused(p) ==
  /\ pc[p] = "commit"
  /\ ~RecordOnly(req[p])
  /\ GivesUp(p, "adapter_refused")
  /\ StaysPut
  /\ UNCHANGED <<req, call, entered, effectNow, kept, clock, calls, faults>>

\* The effect is in place, but reading it back fails or differs, or the answer
\* to the request raises: neither ledger hears of it.
CommitUnverified(p) ==
  /\ pc[p] = "commit"
  /\ ~RecordOnly(req[p])
  /\ Fault("unverified")
  /\ world' = world \cup {Effect(p, FALSE)}
  /\ GivesUp(p, "verification_failed_post_commit")
  /\ UNCHANGED <<req, call, entered, effectNow, kept>>
  /\ UNCHANGED <<locks, custody, idem, rate, clock, calls>>

\* idempotency_record: the append succeeds, or fails having written nothing, a
\* prefix, or all but the newline; a failure is only traced.
RecordKey(p) ==
  /\ pc[p] = "record_key"
  /\ \/ /\ idem' = AppendTo(idem, IdemRecord(req[p], call[p]), Whole)
        /\ UNCHANGED faults
     \/ Fault("record_error") /\ UNCHANGED idem
     \/ /\ Fault("record_torn")
        /\ idem' = AppendTo(idem, IdemRecord(req[p], call[p]), Torn)
     \/ /\ Fault("record_unterminated")
        /\ idem' = AppendTo(idem, IdemRecord(req[p], call[p]), Unterminated)
  /\ Goto(p, AfterEffect(req[p]))
  /\ UNCHANGED <<req, call, entered, effectNow, kept, result>>
  /\ UNCHANGED <<locks, world, custody, rate, clock, calls>>

\* rate_record reads the ledger and keeps what its own window still covers ...
ReadRate(p) ==
  /\ pc[p] = "rate_read"
  /\ kept' = [kept EXCEPT ![p] = InWindow(rate, req[p].scope, effectNow[p])]
  /\ Goto(p, "rate_write")
  /\ StaysPut
  /\ UNCHANGED <<req, call, entered, effectNow, result, clock, calls, faults>>

\* ... and replaces it with those events and the new one.
WriteRate(p) ==
  /\ pc[p] = "rate_write"
  /\ rate' = kept[p] \cup {RateEvent(req[p], call[p], effectNow[p])}
  /\ Goto(p, "return")
  /\ UNCHANGED <<req, call, entered, effectNow, kept, result>>
  /\ UNCHANGED <<locks, world, custody, idem, clock, calls, faults>>

RateError(p) ==
  /\ pc[p] \in {"rate_read", "rate_write"}
  /\ Fault("rate_error")
  /\ Goto(p, "return")
  /\ StaysPut
  /\ UNCHANGED <<req, call, entered, effectNow, kept, result, clock, calls>>

\* What a caller holds is free again, whether it returns or dies.
Freed(p) == [c \in Claims |-> IF locks[c] = p THEN NoCaller ELSE locks[c]]

\* Seeded fault, not used: the request outlives its call.
LeaveKeepingRequest(p) ==
  /\ Goto(p, "idle")
  /\ call' = [call EXCEPT ![p] = 0]
  /\ entered' = [entered EXCEPT ![p] = 0]
  /\ effectNow' = [effectNow EXCEPT ![p] = 0]
  /\ kept' = [kept EXCEPT ![p] = {}]
  /\ result' = [result EXCEPT ![p] = NoResult]
  /\ locks' = Freed(p)
  /\ UNCHANGED <<req, world, custody, idem, rate, clock, calls>>

Leave(p) ==
  /\ Goto(p, "idle")
  /\ req' = [req EXCEPT ![p] = Unset]
  /\ call' = [call EXCEPT ![p] = 0]
  /\ entered' = [entered EXCEPT ![p] = 0]
  /\ effectNow' = [effectNow EXCEPT ![p] = 0]
  /\ kept' = [kept EXCEPT ![p] = {}]
  /\ result' = [result EXCEPT ![p] = NoResult]
  /\ locks' = Freed(p)
  /\ UNCHANGED <<world, custody, idem, rate, clock, calls>>

\* The finally clause releases the lock and the result reaches the caller.
Return(p) == pc[p] = "return" /\ Leave(p) /\ UNCHANGED faults

\* The caller dies between two steps: the kernel drops its lock, and only the
\* files survive.
Crash(p) == pc[p] # "idle" /\ Fault("crash") /\ Leave(p)

Tick == /\ clock < MaxClock
        /\ clock' = clock + 1
        /\ UNCHANGED <<local, locks, world, custody, idem, rate, calls, faults>>

\* What a call does by itself once it has been made.
Step(p) == \/ Lock(p) \/ Lookup(p) \/ PrepareRefuses(p) \/ Authorize(p)
           \/ CheckBudget(p) \/ HandOver(p) \/ Commit(p) \/ CommitRefused(p)
           \/ RecordKey(p) \/ ReadRate(p) \/ WriteRate(p) \/ Return(p)

Fails(p) == \/ LockError(p) \/ LookupError(p) \/ BudgetError(p)
            \/ CommitUnverified(p) \/ RateError(p) \/ Crash(p)

Next == Tick \/ \E p \in Callers : Submit(p) \/ Step(p) \/ Fails(p)

Spec == Init /\ [][Next]_vars

\* Threads and processes that are evaluating keep running; new calls, faults
\* and time are not promised.
FairSpec == Spec /\ \A p \in Callers : WF_vars(Step(p))

-----------------------------------------------------------------------------
Active(p) == pc[p] # "idle"

\* Between lock and return a keyed call holds the lock of its claim.
Critical(p) ==
  /\ Active(p)
  /\ Keyed(req[p])
  /\ pc[p] \in {"lookup", "prepare", "budget", "commit", "record_key",
                "rate_read", "rate_write"}

Points == {"idle", "lock", "lookup", "prepare", "budget", "commit",
           "record_key", "rate_read", "rate_write", "return"}

\* The variables have their types, and exactly the callers inside a call have
\* a request.
TypeOK ==
  /\ pc \in [Callers -> Points]
  /\ req \in [Callers -> Requests \cup {Unset}]
  /\ \A p \in Callers : pc[p] = "idle" <=> req[p] = Unset
  /\ call \in [Callers -> 0..calls]
  /\ entered \in [Callers -> 0..clock]
  /\ effectNow \in [Callers -> 0..clock]
  /\ kept \in [Callers -> SUBSET RateEvents]
  /\ result \in [Callers -> Results]
  /\ rate \in SUBSET RateEvents
  /\ locks \in [Claims -> Callers \cup {NoCaller}]
  /\ idem \in [pieces : Seq([record : IdemRecords, parses : BOOLEAN]), open : BOOLEAN]
  /\ clock \in Nat /\ calls \in Nat /\ faults \in Nat

\* Two effects were performed for the same (scope, key).
SameClaim(e, f) == /\ Keyed(e.request) /\ Keyed(f.request)
                   /\ ClaimOf(e.request) = ClaimOf(f.request)

\* An effect whose key is in the ledger, legibly or not, or about to be.
Accounted(e) ==
  \/ \E r \in RecordsOf(idem) : r.effect = e.call
  \/ \E p \in Callers : pc[p] = "record_key" /\ call[p] = e.call

\* Only a caller inside the section of a claim holds its lock, and every caller
\* inside has it: no return path keeps a lock or goes on without one.
LockDiscipline ==
  /\ \A p \in Callers : Critical(p) => locks[ClaimOf(req[p])] = p
  /\ \A c \in Claims, p \in Callers :
       locks[c] = p => /\ Active(p) /\ pc[p] # "lock"
                       /\ Keyed(req[p]) /\ ClaimOf(req[p]) = c

\* A (scope, key) has at most one effect that its ledger knows of, however
\* many callers, retries, crashes and failed appends there are: what a second
\* effect can come from is only an effect that was never recorded.
AtMostOneRecorded ==
  \A e, f \in world :
    SameClaim(e, f) /\ Accounted(e) /\ Accounted(f) => e = f

\* No effect is performed for a (scope, key) the ledger already has a record
\* of, even one that no longer parses: the lookup made under the lock is still
\* true when the adapter commits.
NoEffectAfterRecord ==
  [][\A e \in world' \ world :
       Keyed(e.request) =>
         \A r \in RecordsOf(idem) : r.claim # ClaimOf(e.request)]_vars

\* "The runtime commits the effect at most once per (scope, key)."
AtMostOncePerKey == \A e, f \in world : SameClaim(e, f) => e = f

\* Only a death, a failed append or a failed verification can repeat an effect:
\* concurrent callers and plain retries of a (scope, key) cannot.
OnlyFaultsRepeatEffects == faults = 0 => AtMostOncePerKey

\* A caller that is told "committed", by its own commit or by a replay, is told
\* of an effect that was performed and verified for the same intent and scope.
ReplayIsFaithful ==
  \A p \in Callers :
    Active(p) /\ result[p].state = "committed" =>
      \E e \in world : /\ e.call = result[p].effect /\ e.verified
                       /\ e.request.intent = req[p].intent
                       /\ e.request.scope.scope_id = req[p].scope.scope_id

\* Nothing reaches the world, or the actor custody leaves it to, without an
\* admissible intent and a yes bound to it that was still in force after the
\* call had waited for its lock, at some moment up to its commit or hand-over;
\* a dry run reaches neither.
EffectsAuthorized ==
  \A e \in world \cup custody :
    /\ AdmissionRejection(e.request) = "none"
    /\ \E t \in e.entered..e.done : Cleared(e.request, t)
    /\ ~e.request.stop_at_approval

\* record_only and execute never mix: the runtime performs no record_only
\* effect, hands over no other, and keeps idempotency records only of effects
\* it performed and verified for that claim and intent, so that no later
\* execute can replay an effect the runtime never performed.
CustodyHonored ==
  /\ \A e \in world : ~RecordOnly(e.request)
  /\ \A e \in custody : RecordOnly(e.request)
  /\ \A r \in RecordsOf(idem) :
       \E e \in world : /\ e.call = r.effect /\ e.verified
                        /\ Keyed(e.request) /\ ClaimOf(e.request) = r.claim
                        /\ IntentSha256(e.request.intent) = r.sha

-----------------------------------------------------------------------------
(* What makes the above inductive.                                          *)

BeforeCommit == {"lock", "lookup", "prepare", "budget", "commit"}

\* Calls are numbered apart, and an effect carries the number of its call.
CallsDistinct ==
  /\ \A p, q \in Callers : Active(p) /\ Active(q) /\ call[p] = call[q] => p = q
  /\ \A p \in Callers : Active(p) => call[p] \in 1..calls
  /\ \A e \in world : e.call \in 1..calls /\ e.request \in Requests
  /\ \A e, f \in world : e.call = f.call => e = f
  /\ \A p \in Callers, e \in world : pc[p] \in BeforeCommit => e.call # call[p]

\* What a caller has established by the time it is at a given point.
Progress ==
  \A p \in Callers :
    /\ pc[p] \in {"lock", "lookup", "record_key"} => Keyed(req[p])
    /\ pc[p] \in BeforeCommit => AdmissionRejection(req[p]) = "none"
    /\ pc[p] \in BeforeCommit \cup {"idle"} => result[p] = NoResult
    /\ pc[p] \in {"budget", "commit"} =>
         /\ ~req[p].stop_at_approval
         /\ \E t \in entered[p]..clock : Verdict(req[p], t) = "none"
    /\ pc[p] = "record_key" =>
         \E e \in world : e.call = call[p] /\ e.request = req[p] /\ e.verified

\* The lookup under the lock found no record of the claim, and there is none.
LookupHolds ==
  \A p \in Callers :
    Critical(p) /\ pc[p] \in {"prepare", "budget", "commit", "record_key"} =>
      \A i \in DOMAIN idem.pieces : idem.pieces[i].record.claim # ClaimOf(req[p])

OneRecordPerClaim ==
  \A i, j \in DOMAIN idem.pieces :
    idem.pieces[i].record.claim = idem.pieces[j].record.claim => i = j

RuntimeInvariant ==
  /\ TypeOK /\ LockDiscipline /\ CallsDistinct /\ Progress /\ LookupHolds
  /\ OneRecordPerClaim /\ EffectsAuthorized /\ CustodyHonored /\ ReplayIsFaithful

-----------------------------------------------------------------------------
\* The effects that count against the budget of a scope.
Consumers(scope_id) ==
  {e \in {f \in world : f.verified} \cup custody : e.request.scope.scope_id = scope_id}

\* Concurrent rewrites may lose events of the rate ledger, but every event in
\* it is that of one effect of its scope, dated by that call's check: the
\* budget can only under-count.
BudgetNeverOvercounts ==
  /\ \A x \in rate : \E e \in Consumers(x.scope_id) :
                        e.call = x.effect /\ e.checked = x.ts
  /\ \A x, y \in rate : x.effect = y.effect => x = y

\* The effects of a scope in the span that ends at t.
DoneWithin(scope_id, t, span) ==
  {f \in Consumers(scope_id) : t - span <= f.done /\ f.done <= t}

\* "The runtime commits at most that many effects per scope within any trailing
\* rate_window_seconds window": the code dates an effect by its check, so what it
\* keeps of that is a window shortened by d, if no call of the scope lets more
\* than d pass between its check and its effect.  With d = 0 it is the promise.
BudgetHeldUpToDelay ==
  \A e \in world \cup custody, d \in 0..clock :
    LET s == e.request.scope
    IN  /\ s.max_effects_per_window > 0
        /\ \A f \in Consumers(s.scope_id) : f.done - f.checked <= d
        => Cardinality(DoneWithin(s.scope_id, e.done, s.rate_window_seconds - d))
             <= s.max_effects_per_window

\* A scope is refused for its rate only when its own effects fill its window.
RateLimitedByOwnEffects ==
  \A p \in Callers :
    Active(p) /\ result[p].reason = "scope_rate_limit_exceeded" =>
      LET s == req[p].scope
      IN  Cardinality({e \in Consumers(s.scope_id) :
                         e.checked >= effectNow[p] - s.rate_window_seconds})
            >= s.max_effects_per_window

\* A failed append of an idempotency record "only means a future retry would
\* not dedupe": the runtime never rejects a call for want of a legible ledger.
RecordFailureOnlyCostsDedupe ==
  \A p \in Callers : Active(p) => result[p].reason # "adapter_commit_failed"

\* In any finite batch of calls every call comes to an end, whatever returns
\* early, fails or dies while others wait for its lock.
EveryCallReturns == \A p \in Callers : Active(p) ~> ~Active(p)
=============================================================================
