------------------------ MODULE GovernedRuntimeProofs ------------------------
(***************************************************************************)
(* What the pipeline guarantees for any number of callers, calls, faults   *)
(* and requests.  RuntimeInvariant is the inductive invariant: one lemma   *)
(* per conjunct says that every step preserves it.                         *)
(***************************************************************************)
EXTENDS GovernedRuntime, OperatorProofs, FiniteSetTheorems, FunctionTheorems

\* The hash of an intent tells it apart from every other: dropping the unset
\* optional fields loses nothing.
LEMMA HashInjective ==
  ASSUME NEW r \in Requests, NEW q \in Requests,
         IntentSha256(r.intent) = IntentSha256(q.intent)
  PROVE  r.intent = q.intent
<1> DEFINE optional == {"idempotency_key", "custody_mode"}
           a == r.intent
           b == q.intent
           ua == {f \in optional : a[f] = Unset}
           ub == {f \in optional : b[f] = Unset}
<1>1. a = [f \in IntentFields |-> a[f]] /\ b = [f \in IntentFields |-> b[f]]
  BY RequestAssumption
<1>2. DOMAIN a = IntentFields /\ DOMAIN b = IntentFields
  <2> HIDE DEF a, b
  <2> QED
    BY <1>1
<1>3. optional \subseteq IntentFields
  BY DEF IntentFields
<1>4. [f \in IntentFields \ ua |-> a[f]] = [f \in IntentFields \ ub |-> b[f]]
  <2>1. IntentSha256(a) = [f \in DOMAIN a \ ua |-> a[f]]
    BY DEF IntentSha256
  <2>2. IntentSha256(b) = [f \in DOMAIN b \ ub |-> b[f]]
    BY DEF IntentSha256
  <2> QED
    BY <1>2, <2>1, <2>2
<1> HIDE DEF a, b, optional
<1>5. IntentFields \ ua = IntentFields \ ub
  <2> DEFINE x == [f \in IntentFields \ ua |-> a[f]]
             y == [f \in IntentFields \ ub |-> b[f]]
  <2>1. DOMAIN x = IntentFields \ ua /\ DOMAIN y = IntentFields \ ub
    OBVIOUS
  <2> QED
    BY <1>4, <2>1
<1>6. ua = ub
  BY <1>3, <1>5
<1>7. \A f \in IntentFields : a[f] = b[f]
  <2> TAKE f \in IntentFields
  <2>1. CASE f \in ua
    BY <1>6, <2>1
  <2>2. CASE f \notin ua
    BY <1>4, <1>6, <2>2
  <2> QED
    BY <2>1, <2>2
<1> QED
  BY <1>1, <1>7 DEF a, b

LEMMA UnsetIsNoRequest == Unset \notin Requests
  BY RequestAssumption

\* What the lemma on verdicts needs to know of a request.
LEMMA RequestsLower ==
  ASSUME NEW r \in Requests
  PROVE  /\ r.approval_granted \in BOOLEAN
         /\ r.intent.intent_id # Unset
         /\ r.approval # Unset =>
              /\ r.approval.status \in ApprovalStatuses
              /\ r.approval.expires_at \in Int \cup {Unset, Unparsable, Naive}
  BY RequestAssumption

LEMMA KeyedClaim ==
  ASSUME NEW r \in Requests, Keyed(r)
  PROVE  ClaimOf(r) \in Claims
  BY DEF Claims

LEMMA ReasonTypes ==
  ASSUME NEW r, NEW now
  PROVE  /\ AdmissionRejection(r) \in Reasons
         /\ Verdict(r, now) \in Reasons \cup {"requested"}
<1>1. AdmissionRejection(r) \in Reasons
  BY DEF AdmissionRejection, Reasons
<1>2. ASSUME NEW d PROVE ApprovalRejectionReason(r.scope, r.intent, d, now) \in Reasons
  BY DEF ApprovalRejectionReason, Reasons
<1>3. Verdict(r, now) \in Reasons \cup {"requested"}
  BY <1>2 DEF Verdict, ApprovalVerdict
<1> QED
  BY <1>1, <1>3

LEMMA ResultTypes ==
  /\ \A reason \in Reasons : Rejected(reason) \in Results
  /\ \A reason \in {"adapter_commit_failed", "adapter_refused",
                    "idempotency_key_conflict", "scope_rate_limit_exceeded",
                    "verification_failed_post_commit"} : Rejected(reason) \in Results
  /\ \A n \in Nat : Approved(n) \in Results /\ Committed(n) \in Results
  /\ Paused \in Results /\ Raised \in Results /\ NoResult \in Results
  BY DEF Raised, Rejected, Approved, Committed, Paused, NoResult, Results, Reasons

-----------------------------------------------------------------------------
LEMMA RuntimeInit == Init => RuntimeInvariant
<1> SUFFICES ASSUME Init PROVE RuntimeInvariant
  OBVIOUS
<1> USE DEF Init
<1>1. TypeOK
  BY UnsetIsNoRequest, ResultTypes DEF TypeOK, Points, EmptyLedger
<1>2. LockDiscipline
  BY RuntimeAssumption DEF LockDiscipline, Critical, Active
<1>3. CallsDistinct /\ Progress
  BY DEF CallsDistinct, Progress, Active, BeforeCommit
<1>4. LookupHolds /\ OneRecordPerClaim
  BY DEF LookupHolds, OneRecordPerClaim, Critical, Active, EmptyLedger
<1>5. EffectsAuthorized /\ ReplayIsFaithful
  BY DEF EffectsAuthorized, ReplayIsFaithful, Active
<1>6. CustodyHonored
  BY DEF CustodyHonored, RecordsOf, EmptyLedger
<1> QED
  BY <1>1, <1>2, <1>3, <1>4, <1>5, <1>6 DEF RuntimeInvariant

\* An append to the idempotency ledger adds one record and forgets none.
LEMMA RecordAppended ==
  ASSUME TypeOK, NEW p \in Callers, NEW outcome \in AppendOutcomes,
         pc[p] = "record_key", Progress,
         idem' = AppendTo(idem, IdemRecord(req[p], call[p]), outcome)
  PROVE  /\ idem' \in LedgerOf(IdemRecords)
         /\ DOMAIN idem.pieces = 1..Len(idem.pieces)
         /\ DOMAIN idem'.pieces = 1..(Len(idem.pieces) + 1)
         /\ \A i \in 1..Len(idem.pieces) :
              idem'.pieces[i].record = idem.pieces[i].record
         /\ idem'.pieces[Len(idem.pieces) + 1].record = IdemRecord(req[p], call[p])
<1>1. req[p] \in Requests /\ Keyed(req[p]) /\ call[p] \in Nat
  BY DEF TypeOK, Progress
<1>2. IdemRecord(req[p], call[p]) \in IdemRecords
  BY <1>1, KeyedClaim DEF IdemRecord, IdemRecords
<1>3. idem \in LedgerOf(IdemRecords)
  BY DEF TypeOK, LedgerOf
<1> QED
  BY <1>2, <1>3, AppendKeepsRecords

\* A lookup that finds a record returns one that is in the ledger.
LEMMA PriorIsRecorded ==
  ASSUME TypeOK, OneRecordPerClaim, NEW c, PriorIndexes(c) # {}
  PROVE  \E i \in DOMAIN idem.pieces :
           Prior(c) = idem.pieces[i].record /\ idem.pieces[i].record.claim = c
<1>1. PICK i \in PriorIndexes(c) : TRUE
  OBVIOUS
<1>2. DOMAIN idem.pieces \subseteq Nat
  BY DEF TypeOK
<1>3. \A j \in PriorIndexes(c) : j <= i
  BY <1>1, <1>2 DEF PriorIndexes, OneRecordPerClaim
<1>4. Prior(c) = idem.pieces[CHOOSE k \in PriorIndexes(c) :
                                \A j \in PriorIndexes(c) : j <= k].record
  BY DEF Prior
<1>5. (CHOOSE k \in PriorIndexes(c) : \A j \in PriorIndexes(c) : j <= k)
         \in PriorIndexes(c)
  BY <1>1, <1>3
<1> QED
  BY <1>4, <1>5 DEF PriorIndexes

LEMMA RecordType ==
  ASSUME TypeOK, NEW i \in DOMAIN idem.pieces
  PROVE  idem.pieces[i].record \in IdemRecords
<1>1. /\ idem.pieces \in Seq([record : IdemRecords, parses : BOOLEAN])
      /\ DOMAIN idem.pieces = 1..Len(idem.pieces)
  BY DEF TypeOK
<1>2. idem.pieces[i] \in [record : IdemRecords, parses : BOOLEAN]
  BY <1>1, SeqElement
<1> QED
  BY <1>2

\* The steps of a call that goes on keep its request and its number.
LEMMA TypeFrame ==
  ASSUME TypeOK, NEW p \in Callers, NEW l \in Points \ {"idle"},
         pc[p] # "idle", pc' = [pc EXCEPT ![p] = l],
         UNCHANGED <<req, call, clock, calls>>,
         entered' \in [Callers -> 0..clock], effectNow' \in [Callers -> 0..clock],
         kept' \in [Callers -> SUBSET RateEvents], rate' \in SUBSET RateEvents,
         result' \in [Callers -> Results],
         locks' \in [Claims -> Callers \cup {NoCaller}],
         idem' \in LedgerOf(IdemRecords), faults' \in Nat
  PROVE  TypeOK'
  BY DEF TypeOK, LedgerOf

\* A call that returns early with a result of its own.
LEMMA TypeReturn ==
  ASSUME TypeOK, NEW p \in Callers, NEW res \in Results,
         pc[p] # "idle", ReturnWith(p, res), StaysPut,
         UNCHANGED <<req, call, clock, calls, kept>>, faults' \in Nat,
         entered' \in [Callers -> 0..clock], effectNow' \in [Callers -> 0..clock]
  PROVE  TypeOK'
<1>1. result' \in [Callers -> Results]
  BY DEF ReturnWith, TypeOK
<1> QED
  BY <1>1, TypeFrame DEF ReturnWith, Goto, StaysPut, TypeOK, LedgerOf, Points

LEMMA FaultType ==
  ASSUME faults \in Nat, NEW kind, Fault(kind) PROVE faults' \in Nat
  BY DEF Fault

LEMMA TypeStep == RuntimeInvariant /\ [Next]_vars => TypeOK'
<1> SUFFICES ASSUME TypeOK, Progress, OneRecordPerClaim, [Next]_vars PROVE TypeOK'
  BY DEF RuntimeInvariant
<1> DEFINE Types == /\ entered \in [Callers -> 0..clock]
                    /\ effectNow \in [Callers -> 0..clock]
                    /\ kept \in [Callers -> SUBSET RateEvents]
                    /\ rate \in SUBSET RateEvents
                    /\ result \in [Callers -> Results]
                    /\ locks \in [Claims -> Callers \cup {NoCaller}]
                    /\ idem \in LedgerOf(IdemRecords)
                    /\ clock \in Nat
                    /\ faults \in Nat
<1>0. Types
  BY DEF TypeOK, LedgerOf
<1>a. \A p \in Callers : call[p] \in Nat
  BY DEF TypeOK
<1>1. ASSUME NEW p \in Callers, Submit(p) PROVE TypeOK'
  <2> USE <1>1 DEF Submit, TypeOK, Points, Goto, ReturnWith, StaysPut
  <2>1. PICK r \in Requests :
          /\ req' = [req EXCEPT ![p] = r]
          /\ \/ result' = [result EXCEPT ![p] = Rejected(AdmissionRejection(r))]
             \/ result' = result
    OBVIOUS
  <2>2. pc' \in [Callers -> Points] /\ pc'[p] # "idle"
    OBVIOUS
  <2>3. /\ req' \in [Callers -> Requests \cup {Unset}]
        /\ \A q \in Callers : pc'[q] = "idle" <=> req'[q] = Unset
    BY <2>1, <2>2, UnsetIsNoRequest
  <2>4. call' \in [Callers -> 0..calls'] /\ calls' \in Nat
    OBVIOUS
  <2>5. result' \in [Callers -> Results]
    <3>1. Rejected(AdmissionRejection(r)) \in Results
      BY ReasonTypes, ResultTypes
    <3> QED
      BY <2>1, <3>1
  <2> QED
    BY <2>2, <2>3, <2>4, <2>5
<1>2. ASSUME NEW p \in Callers, Lock(p) PROVE TypeOK'
  <2>1. ClaimOf(req[p]) \in Claims
    BY <1>2, UnsetIsNoRequest, KeyedClaim DEF Lock, Progress, TypeOK
  <2>2. /\ locks' \in [Claims -> Callers \cup {NoCaller}]
        /\ entered' \in [Callers -> 0..clock]
    BY <1>0, <1>2, <2>1 DEF Lock
  <2> QED
    BY <1>0, <1>2, <2>2, TypeFrame DEF Lock, Points, Goto
<1>3. ASSUME NEW p \in Callers, LockError(p) PROVE TypeOK'
  BY <1>0, <1>3, TypeReturn, FaultType, ResultTypes DEF LockError
<1>4. ASSUME NEW p \in Callers, LookupError(p) PROVE TypeOK'
  BY <1>0, <1>4, TypeReturn, FaultType, ResultTypes DEF LookupError
<1>5. ASSUME NEW p \in Callers, BudgetError(p) PROVE TypeOK'
  BY <1>0, <1>5, TypeReturn, FaultType, ResultTypes DEF BudgetError
<1>6. ASSUME NEW p \in Callers, Lookup(p) PROVE TypeOK'
  <2> DEFINE c == ClaimOf(req[p])
  <2>1. CASE ReturnWith(p, Rejected("adapter_commit_failed"))
    BY <1>0, <1>6, <2>1, TypeReturn, ResultTypes DEF Lookup
  <2>2. CASE ReturnWith(p, Rejected("idempotency_key_conflict"))
    BY <1>0, <1>6, <2>2, TypeReturn, ResultTypes DEF Lookup
  <2>3. CASE ReturnWith(p, Committed(Prior(c).effect)) /\ PriorIndexes(c) # {}
    <3>1. Prior(c) \in IdemRecords
      BY <2>3, PriorIsRecorded, RecordType
    <3>2. Committed(Prior(c).effect) \in Results
      BY <3>1, ResultTypes DEF IdemRecords
    <3> QED
      BY <1>0, <1>6, <2>3, <3>2, TypeReturn DEF Lookup
  <2>4. CASE Goto(p, "prepare") /\ UNCHANGED result
    BY <1>0, <1>6, <2>4, TypeFrame DEF Lookup, Points, Goto, StaysPut
  <2> QED
    BY <1>6, <2>1, <2>2, <2>3, <2>4 DEF Lookup
<1>7. ASSUME NEW p \in Callers, PrepareRefuses(p) PROVE TypeOK'
  BY <1>0, <1>7, TypeReturn, ResultTypes DEF PrepareRefuses, GivesUp
<1>8. ASSUME NEW p \in Callers, CommitRefused(p) PROVE TypeOK'
  BY <1>0, <1>8, TypeReturn, ResultTypes DEF CommitRefused, GivesUp
<1>9. ASSUME NEW p \in Callers, Authorize(p) PROVE TypeOK'
  <2>2. ASSUME NEW res \in Results, ReturnWith(p, res) PROVE TypeOK'
    BY <1>0, <1>9, <2>2, TypeReturn DEF Authorize
  <2>3. ASSUME NEW l \in {"budget", "commit"}, Goto(p, l), UNCHANGED result
        PROVE  TypeOK'
    BY <1>0, <1>9, <2>3, TypeFrame DEF Authorize, Points, Goto, StaysPut
  <2>4. \/ \E res \in Results : ReturnWith(p, res)
        \/ \E l \in {"budget", "commit"} : Goto(p, l) /\ UNCHANGED result
    BY <1>9, <1>a, ReasonTypes, ResultTypes DEF Authorize
  <2> QED
    BY <2>2, <2>3, <2>4
<1>10. ASSUME NEW p \in Callers, CheckBudget(p) PROVE TypeOK'
  <2>1. effectNow' \in [Callers -> 0..clock]
    BY <1>0, <1>10 DEF CheckBudget
  <2>2. CASE ReturnWith(p, Rejected("scope_rate_limit_exceeded"))
    BY <1>0, <1>10, <2>1, <2>2, TypeReturn, ResultTypes DEF CheckBudget
  <2>3. CASE Goto(p, "commit") /\ UNCHANGED result
    BY <1>0, <1>10, <2>1, <2>3, TypeFrame DEF CheckBudget, Points, Goto, StaysPut
  <2> QED
    BY <1>10, <2>2, <2>3 DEF CheckBudget
<1>11. ASSUME NEW p \in Callers, HandOver(p) \/ Commit(p) PROVE TypeOK'
  <2>1. \E l \in {"record_key", "rate_read", "return"} : pc' = [pc EXCEPT ![p] = l]
    BY <1>11 DEF HandOver, Commit, AfterEffect, Goto
  <2>2. pc[p] # "idle" /\ UNCHANGED <<req, call, clock, calls, entered, effectNow,
                                    kept, rate, locks, idem, faults>>
    BY <1>11 DEF HandOver, Commit
  <2>3. result' \in [Callers -> Results]
    BY <1>0, <1>11, <1>a, ResultTypes DEF HandOver, Commit
  <2> QED
    BY <1>0, <2>1, <2>2, <2>3, TypeFrame DEF Points
<1>12. ASSUME NEW p \in Callers, CommitUnverified(p) PROVE TypeOK'
  <2>1. result' \in [Callers -> Results]
    BY <1>0, <1>12, ResultTypes DEF CommitUnverified, GivesUp, ReturnWith
  <2> QED
    BY <1>0, <1>12, <2>1, TypeFrame, FaultType
    DEF CommitUnverified, GivesUp, Points, ReturnWith, Goto
<1>13. ASSUME NEW p \in Callers, RecordKey(p) PROVE TypeOK'
  <2>1. idem' \in LedgerOf(IdemRecords)
    BY <1>0, <1>13, RecordAppended DEF RecordKey, AppendOutcomes
  <2>2. faults' \in Nat
    BY <1>0, <1>13, FaultType DEF RecordKey
  <2>3. \E l \in {"rate_read", "return"} : pc' = [pc EXCEPT ![p] = l]
    BY <1>13 DEF RecordKey, AfterEffect, Goto
  <2> QED
    BY <1>0, <1>13, <2>1, <2>2, <2>3, TypeFrame DEF RecordKey, Points
<1>14. ASSUME NEW p \in Callers, ReadRate(p) PROVE TypeOK'
  <2>1. InWindow(rate, req[p].scope, effectNow[p]) \in SUBSET RateEvents
    BY <1>0 DEF InWindow
  <2>2. kept' \in [Callers -> SUBSET RateEvents]
    BY <1>0, <1>14, <2>1 DEF ReadRate
  <2> QED
    BY <1>0, <1>14, <2>2, TypeFrame DEF ReadRate, Points, Goto, StaysPut
<1>15. ASSUME NEW p \in Callers, WriteRate(p) PROVE TypeOK'
  <2>1. RateEvent(req[p], call[p], effectNow[p]) \in RateEvents
    BY <1>0, <1>15, <1>a DEF WriteRate, RateEvent, RateEvents, TypeOK
  <2>2. rate' \in SUBSET RateEvents
    BY <1>0, <1>15, <2>1 DEF WriteRate
  <2> QED
    BY <1>0, <1>15, <2>2, TypeFrame DEF WriteRate, Points, Goto
<1>16. ASSUME NEW p \in Callers, RateError(p) PROVE TypeOK'
  BY <1>0, <1>16, TypeFrame, FaultType DEF RateError, Points, Goto, StaysPut
<1>17. ASSUME NEW p \in Callers, Leave(p), faults' \in Nat PROVE TypeOK'
  BY <1>17, ResultTypes DEF Leave, Freed, TypeOK, Points, Goto
<1>18. ASSUME NEW p \in Callers, Return(p) PROVE TypeOK'
  BY <1>0, <1>17, <1>18 DEF Return
<1>19. ASSUME NEW p \in Callers, Crash(p) PROVE TypeOK'
  BY <1>0, <1>17, <1>19, FaultType DEF Crash
<1>20. CASE Tick
  BY <1>20 DEF Tick, local, TypeOK
<1>21. CASE UNCHANGED vars
  BY <1>21 DEF vars, local, TypeOK
<1> QED
  BY <1>1, <1>2, <1>3, <1>4, <1>5, <1>6, <1>7, <1>8, <1>9, <1>10, <1>11, <1>12,
     <1>13, <1>14, <1>15, <1>16, <1>18, <1>19, <1>20, <1>21
  DEF Next, Step, Fails

-----------------------------------------------------------------------------
\* A step inside a call that neither takes nor gives up its lock.
LEMMA LockFrame ==
  ASSUME TypeOK, LockDiscipline, NEW p \in Callers,
         NEW l \in Points \ {"idle", "lock"},
         pc[p] # "idle", pc' = [pc EXCEPT ![p] = l], UNCHANGED <<req, locks>>,
         l = "return" \/ pc[p] \notin {"lock", "return"}
  PROVE  LockDiscipline'
<1>1. ASSUME NEW q \in Callers, Critical(q)' PROVE locks'[ClaimOf(req'[q])] = q
  <2>1. Critical(q)
    BY <1>1 DEF Critical, Active, TypeOK, Points
  <2> QED
    BY <2>1 DEF LockDiscipline
<1>2. ASSUME NEW c \in Claims, NEW q \in Callers, locks'[c] = q
      PROVE  Active(q)' /\ pc'[q] # "lock" /\ Keyed(req'[q]) /\ ClaimOf(req'[q]) = c
  <2>1. Active(q) /\ pc[q] # "lock" /\ Keyed(req[q]) /\ ClaimOf(req[q]) = c
    BY <1>2 DEF LockDiscipline
  <2> QED
    BY <2>1 DEF Active, TypeOK
<1> QED
  BY <1>1, <1>2 DEF LockDiscipline

LEMMA LockDisciplineStep == RuntimeInvariant /\ [Next]_vars => LockDiscipline'
<1> SUFFICES ASSUME TypeOK, LockDiscipline, Progress, [Next]_vars
             PROVE  LockDiscipline'
  BY DEF RuntimeInvariant
<1> USE DEF StaysPut, Goto, ReturnWith
<1>1. ASSUME NEW p \in Callers, Submit(p) PROVE LockDiscipline'
  <2>1. ~Critical(p)' /\ ~(\E c \in Claims : locks[c] = p)
    BY <1>1, RuntimeAssumption DEF Submit, Critical, Active, LockDiscipline, TypeOK
  <2>2. \A q \in Callers \ {p} : pc'[q] = pc[q] /\ req'[q] = req[q]
    BY <1>1 DEF Submit, TypeOK
  <2> QED
    BY <1>1, <2>1, <2>2 DEF Submit, LockDiscipline, Critical, Active
<1>2. ASSUME NEW p \in Callers, Lock(p) PROVE LockDiscipline'
  <2>1. Keyed(req[p]) /\ ClaimOf(req[p]) \in Claims
    BY <1>2, UnsetIsNoRequest, KeyedClaim DEF Lock, Progress, TypeOK
  <2>2. \A q \in Callers \ {p} : Critical(q)' <=> Critical(q)
    BY <1>2 DEF Lock, Critical, Active, TypeOK
  <2>3. \A q \in Callers \ {p} : Critical(q) => ClaimOf(req[q]) # ClaimOf(req[p])
    BY <1>2, RuntimeAssumption DEF Lock, LockDiscipline
  <2>4. \A q \in Callers : Critical(q)' => locks'[ClaimOf(req'[q])] = q
    <3> TAKE q \in Callers
    <3>1. CASE q = p
      BY <1>2, <2>1, <3>1 DEF Lock, TypeOK
    <3>2. CASE q # p
      <4> HAVE Critical(q)'
      <4>1. Critical(q) /\ req[q] \in Requests /\ Keyed(req[q])
        BY <2>2, <3>2 DEF Critical, Active, TypeOK
      <4> QED
        BY <1>2, <2>3, <3>2, <4>1, KeyedClaim DEF Lock, TypeOK, LockDiscipline
    <3> QED
      BY <3>1, <3>2
  <2>5. \A c \in Claims, q \in Callers :
          locks'[c] = q => /\ Active(q)' /\ pc'[q] # "lock"
                           /\ Keyed(req'[q]) /\ ClaimOf(req'[q]) = c
    BY <1>2, <2>1 DEF Lock, LockDiscipline, Active, TypeOK
  <2> QED
    BY <2>4, <2>5 DEF LockDiscipline
<1>3. ASSUME NEW p \in Callers, LockError(p) \/ LookupError(p) \/ BudgetError(p)
      PROVE  LockDiscipline'
  BY <1>3, LockFrame DEF LockError, LookupError, BudgetError, Points
<1>4. ASSUME NEW p \in Callers, Lookup(p) PROVE LockDiscipline'
  <2>1. \E l \in {"return", "prepare"} : pc' = [pc EXCEPT ![p] = l]
    BY <1>4 DEF Lookup
  <2> QED
    BY <1>4, <2>1, LockFrame DEF Lookup, Points
<1>5. ASSUME NEW p \in Callers, PrepareRefuses(p) \/ CommitRefused(p)
      PROVE  LockDiscipline'
  BY <1>5, LockFrame DEF PrepareRefuses, GivesUp, CommitRefused, Points
<1>6. ASSUME NEW p \in Callers, Authorize(p) PROVE LockDiscipline'
  <2>1. \E l \in {"return", "budget", "commit"} : pc' = [pc EXCEPT ![p] = l]
    BY <1>6 DEF Authorize
  <2> QED
    BY <1>6, <2>1, LockFrame DEF Authorize, Points
<1>7. ASSUME NEW p \in Callers, CheckBudget(p) PROVE LockDiscipline'
  <2>1. \E l \in {"return", "commit"} : pc' = [pc EXCEPT ![p] = l]
    BY <1>7 DEF CheckBudget
  <2> QED
    BY <1>7, <2>1, LockFrame DEF CheckBudget, Points
<1>8. ASSUME NEW p \in Callers, HandOver(p) \/ Commit(p) PROVE LockDiscipline'
  <2>1. \E l \in {"record_key", "rate_read", "return"} : pc' = [pc EXCEPT ![p] = l]
    BY <1>8 DEF HandOver, Commit, AfterEffect
  <2>2. pc[p] = "commit" /\ UNCHANGED <<req, locks>>
    BY <1>8 DEF HandOver, Commit
  <2> QED
    BY <2>1, <2>2, LockFrame DEF Points
<1>9. ASSUME NEW p \in Callers, CommitUnverified(p) PROVE LockDiscipline'
  BY <1>9, LockFrame DEF CommitUnverified, GivesUp, Points
<1>10. ASSUME NEW p \in Callers, RecordKey(p) PROVE LockDiscipline'
  <2>1. \E l \in {"rate_read", "return"} : pc' = [pc EXCEPT ![p] = l]
    BY <1>10 DEF RecordKey, AfterEffect
  <2> QED
    BY <1>10, <2>1, LockFrame DEF RecordKey, Points
<1>11. ASSUME NEW p \in Callers, ReadRate(p) \/ WriteRate(p) \/ RateError(p)
       PROVE  LockDiscipline'
  BY <1>11, LockFrame DEF ReadRate, WriteRate, RateError, Points
<1>12. ASSUME NEW p \in Callers, Leave(p) PROVE LockDiscipline'
  <2>1. \A q \in Callers \ {p} : pc'[q] = pc[q] /\ req'[q] = req[q]
    BY <1>12 DEF Leave, TypeOK
  <2>2. \A c \in Claims : /\ locks'[c] # p
                          /\ \A q \in Callers \ {p} : locks'[c] = q <=> locks[c] = q
    BY <1>12, RuntimeAssumption DEF Leave, Freed
  <2>3. ~Critical(p)'
    BY <1>12 DEF Leave, Critical, Active, TypeOK
  <2>4. \A q \in Callers \ {p} : Critical(q) => ClaimOf(req[q]) \in Claims
    BY KeyedClaim DEF Critical, Active, TypeOK
  <2> QED
    BY <2>1, <2>2, <2>3, <2>4 DEF LockDiscipline, Critical, Active
<1>13. ASSUME NEW p \in Callers, Return(p) \/ Crash(p) PROVE LockDiscipline'
  BY <1>12, <1>13 DEF Return, Crash
<1>14. CASE Tick \/ UNCHANGED vars
  BY <1>14 DEF Tick, vars, local, LockDiscipline, Critical, Active
<1> QED
  BY <1>1, <1>2, <1>3, <1>4, <1>5, <1>6, <1>7, <1>8, <1>9, <1>10, <1>11, <1>13, <1>14
  DEF Next, Step, Fails

-----------------------------------------------------------------------------
\* A step inside a call that performs no effect.
LEMMA CallsFrame ==
  ASSUME TypeOK, CallsDistinct, NEW p \in Callers, NEW l \in Points,
         pc[p] # "idle", pc' = [pc EXCEPT ![p] = l],
         l \in BeforeCommit => pc[p] \in BeforeCommit,
         UNCHANGED <<call, calls, world>>
  PROVE  CallsDistinct'
  BY DEF CallsDistinct, Active, TypeOK, BeforeCommit

\* A commit adds the effect of a call that has none yet.
LEMMA CallsCommit ==
  ASSUME TypeOK, CallsDistinct, NEW p \in Callers, NEW l \in Points, NEW v,
         pc[p] = "commit", pc' = [pc EXCEPT ![p] = l], l \notin BeforeCommit,
         UNCHANGED <<call, calls>>, world' = world \cup {Effect(p, v)}
  PROVE  CallsDistinct'
<1>1. /\ Effect(p, v).call = call[p] /\ Effect(p, v).request = req[p]
      /\ req[p] \in Requests /\ call[p] \in 1..calls
  BY DEF Effect, TypeOK, CallsDistinct, Active
<1>2. \A e \in world : e.call # call[p]
  BY DEF CallsDistinct, BeforeCommit
<1>3. \A e \in world' : e.call \in 1..calls /\ e.request \in Requests
  BY <1>1 DEF CallsDistinct
<1>4. \A e, f \in world' : e.call = f.call => e = f
  BY <1>1, <1>2 DEF CallsDistinct
<1>5. \A q \in Callers, e \in world' : pc'[q] \in BeforeCommit => e.call # call[q]
  BY <1>1 DEF CallsDistinct, Active, TypeOK, BeforeCommit
<1> QED
  BY <1>3, <1>4, <1>5 DEF CallsDistinct, Active, TypeOK

LEMMA CallsDistinctStep == RuntimeInvariant /\ [Next]_vars => CallsDistinct'
<1> SUFFICES ASSUME TypeOK, CallsDistinct, Progress, [Next]_vars
             PROVE  CallsDistinct'
  BY DEF RuntimeInvariant
<1> USE DEF StaysPut, Goto, ReturnWith
<1>1. ASSUME NEW p \in Callers, Submit(p) PROVE CallsDistinct'
  <2>1. /\ calls' = calls + 1 /\ call' = [call EXCEPT ![p] = calls + 1]
        /\ world' = world /\ \A q \in Callers \ {p} : pc'[q] = pc[q]
    BY <1>1 DEF Submit, TypeOK
  <2> QED
    BY <2>1 DEF CallsDistinct, Active, TypeOK, BeforeCommit
<1>2. ASSUME NEW p \in Callers, Lock(p) PROVE CallsDistinct'
  BY <1>2, CallsFrame DEF Lock, Points, BeforeCommit
<1>3. ASSUME NEW p \in Callers, LockError(p) \/ LookupError(p) \/ BudgetError(p)
      PROVE  CallsDistinct'
  BY <1>3, CallsFrame DEF LockError, LookupError, BudgetError, Points, BeforeCommit
<1>4. ASSUME NEW p \in Callers, Lookup(p) PROVE CallsDistinct'
  <2>1. \E l \in {"return", "prepare"} : pc' = [pc EXCEPT ![p] = l]
    BY <1>4 DEF Lookup
  <2> QED
    BY <1>4, <2>1, CallsFrame DEF Lookup, Points, BeforeCommit
<1>5. ASSUME NEW p \in Callers, PrepareRefuses(p) \/ CommitRefused(p)
      PROVE  CallsDistinct'
  BY <1>5, CallsFrame DEF PrepareRefuses, GivesUp, CommitRefused, Points, BeforeCommit
<1>6. ASSUME NEW p \in Callers, Authorize(p) PROVE CallsDistinct'
  <2>1. \E l \in {"return", "budget", "commit"} : pc' = [pc EXCEPT ![p] = l]
    BY <1>6 DEF Authorize
  <2> QED
    BY <1>6, <2>1, CallsFrame DEF Authorize, Points, BeforeCommit
<1>7. ASSUME NEW p \in Callers, CheckBudget(p) PROVE CallsDistinct'
  <2>1. \E l \in {"return", "commit"} : pc' = [pc EXCEPT ![p] = l]
    BY <1>7 DEF CheckBudget
  <2> QED
    BY <1>7, <2>1, CallsFrame DEF CheckBudget, Points, BeforeCommit
<1>8. ASSUME NEW p \in Callers, HandOver(p) PROVE CallsDistinct'
  <2>1. \E l \in {"rate_read", "return"} : pc' = [pc EXCEPT ![p] = l]
    BY <1>8 DEF HandOver, AfterEffect
  <2> QED
    BY <1>8, <2>1, CallsFrame DEF HandOver, Points, BeforeCommit
<1>9. ASSUME NEW p \in Callers, Commit(p) PROVE CallsDistinct'
  <2>1. \E l \in {"record_key", "rate_read", "return"} : pc' = [pc EXCEPT ![p] = l]
    BY <1>9 DEF Commit, AfterEffect
  <2> QED
    BY <1>9, <2>1, CallsCommit DEF Commit, Points, BeforeCommit
<1>10. ASSUME NEW p \in Callers, CommitUnverified(p) PROVE CallsDistinct'
  BY <1>10, CallsCommit DEF CommitUnverified, GivesUp, Points, BeforeCommit
<1>11. ASSUME NEW p \in Callers, RecordKey(p) PROVE CallsDistinct'
  <2>1. \E l \in {"rate_read", "return"} : pc' = [pc EXCEPT ![p] = l]
    BY <1>11 DEF RecordKey, AfterEffect
  <2> QED
    BY <1>11, <2>1, CallsFrame DEF RecordKey, Points, BeforeCommit
<1>12. ASSUME NEW p \in Callers, ReadRate(p) \/ WriteRate(p) \/ RateError(p)
       PROVE  CallsDistinct'
  BY <1>12, CallsFrame DEF ReadRate, WriteRate, RateError, Points, BeforeCommit
<1>13. ASSUME NEW p \in Callers, Leave(p) PROVE CallsDistinct'
  <2>1. /\ calls' = calls /\ world' = world /\ pc'[p] = "idle"
        /\ \A q \in Callers \ {p} : pc'[q] = pc[q] /\ call'[q] = call[q]
    BY <1>13 DEF Leave, TypeOK
  <2> QED
    BY <2>1 DEF CallsDistinct, Active, BeforeCommit
<1>14. ASSUME NEW p \in Callers, Return(p) \/ Crash(p) PROVE CallsDistinct'
  BY <1>13, <1>14 DEF Return, Crash
<1>15. CASE Tick \/ UNCHANGED vars
  BY <1>15 DEF Tick, vars, local, CallsDistinct, Active
<1> QED
  BY <1>1, <1>2, <1>3, <1>4, <1>5, <1>6, <1>7, <1>8, <1>9, <1>10, <1>11, <1>12,
     <1>14, <1>15
  DEF Next, Step, Fails

-----------------------------------------------------------------------------
\* Progress, for one caller.
ProgressOf(p) ==
  /\ pc[p] \in {"lock", "lookup", "record_key"} => Keyed(req[p])
  /\ pc[p] \in BeforeCommit => AdmissionRejection(req[p]) = "none"
  /\ pc[p] \in BeforeCommit \cup {"idle"} => result[p] = NoResult
  /\ pc[p] \in {"budget", "commit"} =>
       /\ ~req[p].stop_at_approval
       /\ \E t \in entered[p]..clock : Verdict(req[p], t) = "none"
  /\ pc[p] = "record_key" =>
       \E e \in world : e.call = call[p] /\ e.request = req[p] /\ e.verified

\* A step of one caller leaves the others where they were.
LEMMA OthersProgress ==
  ASSUME Progress, NEW p \in Callers, ProgressOf(p)', world \subseteq world',
         clock' = clock,
         \A q \in Callers \ {p} :
           /\ pc'[q] = pc[q] /\ req'[q] = req[q] /\ call'[q] = call[q]
           /\ entered'[q] = entered[q] /\ result'[q] = result[q]
  PROVE  Progress'
<1> SUFFICES ASSUME NEW q \in Callers PROVE ProgressOf(q)'
  BY DEF Progress, ProgressOf
<1>1. CASE q = p
  BY <1>1
<1>2. CASE q # p
  BY <1>2 DEF Progress, ProgressOf
<1> QED
  BY <1>1, <1>2

LEMMA ProgressStep == RuntimeInvariant /\ [Next]_vars => Progress'
<1> SUFFICES ASSUME TypeOK, Progress, [Next]_vars PROVE Progress'
  BY DEF RuntimeInvariant
<1> DEFINE Alone(p) == /\ world \subseteq world' /\ clock' = clock
                       /\ \A q \in Callers \ {p} :
                            /\ pc'[q] = pc[q] /\ req'[q] = req[q]
                            /\ call'[q] = call[q] /\ entered'[q] = entered[q]
                            /\ result'[q] = result[q]
<1> USE DEF StaysPut, Goto, ReturnWith
<1>1. ASSUME NEW p \in Callers, Submit(p) PROVE Progress'
  <2>1. Alone(p)
    BY <1>1 DEF Submit, TypeOK
  <2>2. PICK r \in Requests :
          /\ req' = [req EXCEPT ![p] = r]
          /\ \/ pc' = [pc EXCEPT ![p] = "return"]
             \/ /\ AdmissionRejection(r) = "none" /\ result' = result
                /\ \/ pc' = [pc EXCEPT ![p] = "lock"] /\ Keyed(r)
                   \/ pc' = [pc EXCEPT ![p] = "prepare"]
    BY <1>1 DEF Submit
  <2>3. result[p] = NoResult
    BY <1>1 DEF Submit, Progress
  <2>4. ProgressOf(p)'
    BY <2>2, <2>3 DEF ProgressOf, BeforeCommit, TypeOK
  <2> QED
    BY <2>1, <2>4, OthersProgress
<1>2. ASSUME NEW p \in Callers, Lock(p) PROVE Progress'
  <2>1. Alone(p) /\ ProgressOf(p)'
    BY <1>2 DEF Lock, Progress, ProgressOf, BeforeCommit, TypeOK
  <2> QED
    BY <2>1, OthersProgress
<1>3. ASSUME NEW p \in Callers, NEW res, ReturnWith(p, res), StaysPut,
             UNCHANGED <<req, call, entered, clock>>
      PROVE  Progress'
  <2>1. Alone(p) /\ ProgressOf(p)'
    BY <1>3 DEF ProgressOf, BeforeCommit, TypeOK
  <2> QED
    BY <2>1, OthersProgress
<1>4. ASSUME NEW p \in Callers,
             \/ LockError(p) \/ LookupError(p) \/ BudgetError(p)
             \/ PrepareRefuses(p) \/ CommitRefused(p)
      PROVE  Progress'
  BY <1>3, <1>4 DEF LockError, LookupError, BudgetError, PrepareRefuses, GivesUp, CommitRefused
<1>5. ASSUME NEW p \in Callers, Lookup(p) PROVE Progress'
  <2>1. CASE Goto(p, "prepare") /\ UNCHANGED result
    <3>1. Alone(p) /\ ProgressOf(p)'
      BY <1>5, <2>1 DEF Lookup, Progress, ProgressOf, BeforeCommit, TypeOK
    <3> QED
      BY <3>1, OthersProgress
  <2>2. CASE \E res : ReturnWith(p, res)
    BY <1>3, <1>5, <2>2 DEF Lookup
  <2> QED
    BY <1>5, <2>1, <2>2 DEF Lookup
<1>6. ASSUME NEW p \in Callers, Authorize(p) PROVE Progress'
  <2>1. CASE /\ Verdict(req[p], clock) = "none" /\ ~req[p].stop_at_approval
             /\ \E l \in {"budget", "commit"} : Goto(p, l)
             /\ UNCHANGED result
    <3>0. clock \in entered[p]..clock
      BY DEF TypeOK
    <3>1. Alone(p) /\ ProgressOf(p)'
      BY <1>6, <2>1, <3>0 DEF Authorize, Progress, ProgressOf, BeforeCommit, TypeOK
    <3> QED
      BY <3>1, OthersProgress
  <2>2. CASE \E res : ReturnWith(p, res)
    BY <1>3, <1>6, <2>2 DEF Authorize
  <2> QED
    BY <1>6, <2>1, <2>2 DEF Authorize
<1>7. ASSUME NEW p \in Callers, CheckBudget(p) PROVE Progress'
  <2>1. CASE Goto(p, "commit") /\ UNCHANGED result
    <3>1. Alone(p) /\ ProgressOf(p)'
      BY <1>7, <2>1 DEF CheckBudget, Progress, ProgressOf, BeforeCommit, TypeOK
    <3> QED
      BY <3>1, OthersProgress
  <2>2. CASE \E res : ReturnWith(p, res)
    BY <1>3, <1>7, <2>2 DEF CheckBudget
  <2> QED
    BY <1>7, <2>1, <2>2 DEF CheckBudget
<1>8. ASSUME NEW p \in Callers, HandOver(p) PROVE Progress'
  <2>1. Alone(p) /\ ProgressOf(p)'
    BY <1>8 DEF HandOver, AfterEffect, ProgressOf, BeforeCommit, TypeOK
  <2> QED
    BY <2>1, OthersProgress
<1>9. ASSUME NEW p \in Callers, Commit(p) PROVE Progress'
  <2>1. Alone(p)
    BY <1>9 DEF Commit, TypeOK
  <2>2. /\ Effect(p, TRUE) \in world' /\ Effect(p, TRUE).call = call[p]
        /\ Effect(p, TRUE).request = req[p] /\ Effect(p, TRUE).verified
    BY <1>9 DEF Commit, Effect
  <2>3. /\ call'[p] = call[p] /\ req'[p] = req[p]
        /\ \/ pc'[p] = "record_key" /\ Keyed(req[p])
           \/ pc'[p] \in {"rate_read", "return"}
    BY <1>9 DEF Commit, AfterEffect, TypeOK
  <2>4. ProgressOf(p)'
    BY <2>2, <2>3 DEF ProgressOf, BeforeCommit
  <2> QED
    BY <2>1, <2>4, OthersProgress
<1>10. ASSUME NEW p \in Callers, CommitUnverified(p) PROVE Progress'
  <2>1. Alone(p) /\ ProgressOf(p)'
    BY <1>10 DEF CommitUnverified, GivesUp, ProgressOf, BeforeCommit, TypeOK
  <2> QED
    BY <2>1, OthersProgress
<1>11. ASSUME NEW p \in Callers, RecordKey(p) PROVE Progress'
  <2>1. Alone(p) /\ ProgressOf(p)'
    BY <1>11 DEF RecordKey, AfterEffect, ProgressOf, BeforeCommit, TypeOK
  <2> QED
    BY <2>1, OthersProgress
<1>12. ASSUME NEW p \in Callers, ReadRate(p) \/ WriteRate(p) \/ RateError(p)
       PROVE  Progress'
  <2>1. Alone(p) /\ ProgressOf(p)'
    BY <1>12 DEF ReadRate, WriteRate, RateError, ProgressOf, BeforeCommit, TypeOK
  <2> QED
    BY <2>1, OthersProgress
<1>13. ASSUME NEW p \in Callers, Leave(p) PROVE Progress'
  <2>1. Alone(p) /\ ProgressOf(p)'
    BY <1>13 DEF Leave, ProgressOf, BeforeCommit, TypeOK
  <2> QED
    BY <2>1, OthersProgress
<1>14. ASSUME NEW p \in Callers, Return(p) \/ Crash(p) PROVE Progress'
  BY <1>13, <1>14 DEF Return, Crash
<1>15. CASE Tick \/ UNCHANGED vars
  <2>1. \A p \in Callers : entered[p]..clock \subseteq entered[p]..clock'
    BY <1>15 DEF Tick, vars, TypeOK
  <2>2. UNCHANGED <<pc, req, call, entered, result, world>>
    BY <1>15 DEF Tick, vars, local
  <2> QED
    BY <2>1, <2>2 DEF Progress
<1> QED
  BY <1>1, <1>2, <1>4, <1>5, <1>6, <1>7, <1>8, <1>9, <1>10, <1>11, <1>12, <1>14, <1>15
  DEF Next, Step, Fails

-----------------------------------------------------------------------------
\* The points between a lookup that found nothing and the end of the append.
LookedUp(p) ==
  Critical(p) /\ pc[p] \in {"prepare", "budget", "commit", "record_key"}

\* A step that leaves the ledger alone and looks nothing up.
LEMMA LookupFrame ==
  ASSUME LookupHolds, NEW p \in Callers, idem' = idem,
         \A q \in Callers \ {p} : pc'[q] = pc[q] /\ req'[q] = req[q],
         LookedUp(p)' => LookedUp(p) /\ req'[p] = req[p]
  PROVE  LookupHolds'
<1> SUFFICES ASSUME NEW q \in Callers, LookedUp(q)'
             PROVE  \A i \in DOMAIN idem.pieces :
                      idem.pieces[i].record.claim # ClaimOf(req'[q])
  BY DEF LookupHolds, LookedUp
<1>1. LookedUp(q) /\ req'[q] = req[q]
  BY DEF LookedUp, Critical, Active
<1> QED
  BY <1>1 DEF LookupHolds, LookedUp

\* Appending a record of p's claim touches no other caller's claim: p has the
\* lock of its own.
LEMMA LookupRecord ==
  ASSUME TypeOK, LockDiscipline, Progress, LookupHolds,
         NEW p \in Callers, RecordKey(p)
  PROVE  LookupHolds'
<1>1. CASE UNCHANGED idem
  <2>1. ~LookedUp(p)' /\ \A q \in Callers \ {p} : pc'[q] = pc[q] /\ req'[q] = req[q]
    BY DEF RecordKey, AfterEffect, Goto, LookedUp, TypeOK
  <2> QED
    BY <1>1, <2>1, LookupFrame
<1>2. CASE \E outcome \in AppendOutcomes :
             idem' = AppendTo(idem, IdemRecord(req[p], call[p]), outcome)
  <2> DEFINE n == Len(idem.pieces)
  <2>1. /\ DOMAIN idem.pieces = 1..n /\ DOMAIN idem'.pieces = 1..(n + 1)
        /\ \A i \in 1..n : idem'.pieces[i].record = idem.pieces[i].record
        /\ idem'.pieces[n + 1].record = IdemRecord(req[p], call[p])
    BY <1>2, RecordAppended DEF RecordKey
  <2>2. n \in Nat
    BY DEF TypeOK
  <2>3. Critical(p)
    BY DEF RecordKey, Critical, Active, Progress
  <2> SUFFICES ASSUME NEW q \in Callers, LookedUp(q)', NEW i \in 1..(n + 1)
               PROVE  idem'.pieces[i].record.claim # ClaimOf(req'[q])
    BY <2>1 DEF LookupHolds, LookedUp
  <2>4. q # p /\ LookedUp(q) /\ req'[q] = req[q]
    BY DEF RecordKey, AfterEffect, Goto, LookedUp, Critical, Active, TypeOK
  <2>5. ClaimOf(req[q]) # ClaimOf(req[p])
    BY <2>3, <2>4 DEF LockDiscipline, LookedUp
  <2>6. CASE i \in 1..n
    BY <2>1, <2>4, <2>6 DEF LookupHolds, LookedUp
  <2>7. CASE i = n + 1
    BY <2>1, <2>4, <2>5, <2>7 DEF IdemRecord
  <2> QED
    BY <2>2, <2>6, <2>7
<1> QED
  BY <1>1, <1>2 DEF RecordKey, AppendOutcomes

LEMMA LookupHoldsStep == RuntimeInvariant /\ [Next]_vars => LookupHolds'
<1> SUFFICES ASSUME TypeOK, LockDiscipline, Progress, LookupHolds, [Next]_vars
             PROVE  LookupHolds'
  BY DEF RuntimeInvariant
<1> DEFINE Alone(p) == \A q \in Callers \ {p} : pc'[q] = pc[q] /\ req'[q] = req[q]
<1> USE DEF StaysPut, Goto, ReturnWith
<1>1. ASSUME NEW p \in Callers, Submit(p) PROVE LookupHolds'
  <2>1. Alone(p) /\ ~LookedUp(p)' /\ idem' = idem
    BY <1>1 DEF Submit, LookedUp, Critical, Active, TypeOK
  <2> QED
    BY <2>1, LookupFrame
<1>2. ASSUME NEW p \in Callers,
             \/ Lock(p) \/ LockError(p) \/ LookupError(p) \/ BudgetError(p)
             \/ PrepareRefuses(p) \/ CommitRefused(p) \/ CommitUnverified(p)
             \/ ReadRate(p) \/ WriteRate(p) \/ RateError(p) \/ HandOver(p)
      PROVE  LookupHolds'
  <2>1. Alone(p) /\ ~LookedUp(p)' /\ idem' = idem
    BY <1>2 DEF Lock, LockError, LookupError, BudgetError, PrepareRefuses, GivesUp, CommitRefused,
       CommitUnverified, ReadRate, WriteRate, RateError, HandOver, AfterEffect,
       LookedUp, TypeOK
  <2> QED
    BY <2>1, LookupFrame
<1>3. ASSUME NEW p \in Callers, Lookup(p) PROVE LookupHolds'
  <2>1. CASE PriorIndexes(ClaimOf(req[p])) = {}
    <3>1. \A i \in DOMAIN idem.pieces :
            idem.pieces[i].record.claim # ClaimOf(req[p])
      BY <2>1 DEF PriorIndexes
    <3>2. idem' = idem /\ \A q \in Callers : req'[q] = req[q]
      BY <1>3 DEF Lookup
    <3>3. \A q \in Callers \ {p} : LookedUp(q)' => LookedUp(q)
      BY <1>3 DEF Lookup, LookedUp, Critical, Active, TypeOK
    <3> QED
      BY <3>1, <3>2, <3>3 DEF LookupHolds, LookedUp
  <2>2. CASE PriorIndexes(ClaimOf(req[p])) # {}
    <3>1. Alone(p) /\ ~LookedUp(p)' /\ idem' = idem
      BY <1>3, <2>2 DEF Lookup, LookedUp, TypeOK
    <3> QED
      BY <3>1, LookupFrame
  <2> QED
    BY <2>1, <2>2
<1>4. ASSUME NEW p \in Callers, Authorize(p) \/ CheckBudget(p) \/ Commit(p)
      PROVE  LookupHolds'
  <2>1. Alone(p) /\ idem' = idem /\ req'[p] = req[p]
    BY <1>4 DEF Authorize, CheckBudget, Commit, TypeOK
  <2>2. pc[p] \in {"prepare", "budget", "commit"}
    BY <1>4 DEF Authorize, CheckBudget, Commit
  <2>3. LookedUp(p)' => LookedUp(p)
    BY <2>1, <2>2 DEF LookedUp, Critical, Active
  <2> QED
    BY <2>1, <2>3, LookupFrame
<1>5. ASSUME NEW p \in Callers, RecordKey(p) PROVE LookupHolds'
  BY <1>5, LookupRecord
<1>6. ASSUME NEW p \in Callers, Leave(p) PROVE LookupHolds'
  <2>1. Alone(p) /\ ~LookedUp(p)' /\ idem' = idem
    BY <1>6 DEF Leave, LookedUp, TypeOK
  <2> QED
    BY <2>1, LookupFrame
<1>7. ASSUME NEW p \in Callers, Return(p) \/ Crash(p) PROVE LookupHolds'
  BY <1>6, <1>7 DEF Return, Crash
<1>8. CASE Tick \/ UNCHANGED vars
  BY <1>8 DEF Tick, vars, local, LookupHolds, Critical, Active
<1> QED
  BY <1>1, <1>2, <1>3, <1>4, <1>5, <1>7, <1>8 DEF Next, Step, Fails

-----------------------------------------------------------------------------
\* Only RecordKey writes the idempotency ledger.
LEMMA IdemUnchanged ==
  ASSUME [Next]_vars, ~(\E p \in Callers : RecordKey(p))
  PROVE  idem' = idem
  BY DEF Next, Step, Fails, vars, local, Tick, Submit, Lock, LockError, Lookup,
     LookupError, PrepareRefuses, GivesUp, Authorize, CheckBudget, BudgetError, HandOver, Commit,
     CommitRefused, CommitUnverified, ReadRate, WriteRate, RateError, Leave, Return,
     Crash, StaysPut

LEMMA OneRecordStep == RuntimeInvariant /\ [Next]_vars => OneRecordPerClaim'
<1> SUFFICES ASSUME TypeOK, Progress, LookupHolds, OneRecordPerClaim, [Next]_vars
             PROVE  OneRecordPerClaim'
  BY DEF RuntimeInvariant
<1>1. CASE idem' = idem
  BY <1>1 DEF OneRecordPerClaim
<1>2. ASSUME NEW p \in Callers, RecordKey(p), NEW outcome \in AppendOutcomes,
             idem' = AppendTo(idem, IdemRecord(req[p], call[p]), outcome)
      PROVE  OneRecordPerClaim'
  <2> DEFINE n == Len(idem.pieces)
  <2>1. /\ DOMAIN idem.pieces = 1..n /\ DOMAIN idem'.pieces = 1..(n + 1)
        /\ \A i \in 1..n : idem'.pieces[i].record = idem.pieces[i].record
        /\ idem'.pieces[n + 1].record = IdemRecord(req[p], call[p])
    BY <1>2, RecordAppended DEF RecordKey
  <2>2. n \in Nat
    BY DEF TypeOK
  <2>3. \A i \in 1..n : idem.pieces[i].record.claim # ClaimOf(req[p])
    BY <1>2, <2>1 DEF LookupHolds, Critical, Active, RecordKey, Progress
  <2>4. IdemRecord(req[p], call[p]).claim = ClaimOf(req[p])
    BY DEF IdemRecord
  <2>5. \A i, j \in 1..n : idem.pieces[i].record.claim = idem.pieces[j].record.claim => i = j
    BY <2>1 DEF OneRecordPerClaim
  <2>6. ASSUME NEW i \in 1..(n + 1), NEW j \in 1..(n + 1),
               idem'.pieces[i].record.claim = idem'.pieces[j].record.claim
        PROVE  i = j
    <3>1. CASE i \in 1..n /\ j \in 1..n
      BY <2>1, <2>5, <2>6, <3>1
    <3>2. CASE i \in 1..n /\ j = n + 1
      BY <2>1, <2>3, <2>4, <2>6, <3>2
    <3>3. CASE i = n + 1 /\ j \in 1..n
      BY <2>1, <2>3, <2>4, <2>6, <3>3
    <3>4. CASE i = n + 1 /\ j = n + 1
      BY <3>4
    <3> QED
      BY <2>2, <3>1, <3>2, <3>3, <3>4
  <2> QED
    BY <2>1, <2>6 DEF OneRecordPerClaim
<1>3. ASSUME NEW p \in Callers, RecordKey(p) PROVE OneRecordPerClaim'
  BY <1>1, <1>2, <1>3 DEF RecordKey, AppendOutcomes
<1> QED
  BY <1>1, <1>3, IdemUnchanged

-----------------------------------------------------------------------------
\* Every step but those of HandOver and the two commits leaves world and
\* custody alone.
LEMMA EffectsUnchanged ==
  ASSUME [Next]_vars,
         ~(\E p \in Callers : HandOver(p) \/ Commit(p) \/ CommitUnverified(p))
  PROVE  UNCHANGED <<world, custody>>
  BY DEF Next, Step, Fails, vars, local, Tick, Submit, Lock, LockError, Lookup,
     LookupError, PrepareRefuses, GivesUp, Authorize, CheckBudget, BudgetError, CommitRefused,
     RecordKey, ReadRate, WriteRate, RateError, Leave, Return, Crash, StaysPut

\* What a commit adds to the world.
LEMMA EffectsAdded ==
  ASSUME [Next]_vars, Progress
  PROVE  /\ world \subseteq world' /\ custody \subseteq custody'
         /\ \A e \in world' \ world : \E p \in Callers, v \in BOOLEAN :
              /\ pc[p] = "commit" /\ ~RecordOnly(req[p]) /\ e = Effect(p, v)
         /\ \A e \in custody' \ custody : \E p \in Callers :
              /\ pc[p] = "commit" /\ RecordOnly(req[p])
              /\ e = Effect(p, FALSE)
<1>1. CASE \E p \in Callers : HandOver(p) \/ Commit(p) \/ CommitUnverified(p)
  BY <1>1 DEF HandOver, Commit, CommitUnverified, GivesUp
<1>2. CASE ~(\E p \in Callers : HandOver(p) \/ Commit(p) \/ CommitUnverified(p))
  BY <1>2, EffectsUnchanged
<1> QED
  BY <1>1, <1>2

\* Past the approval, an admitted request is cleared.
LEMMA CommitIsAuthorized ==
  ASSUME TypeOK, Progress, NEW p \in Callers, NEW v \in BOOLEAN, pc[p] = "commit"
  PROVE  /\ AdmissionRejection(Effect(p, v).request) = "none"
         /\ \E t \in Effect(p, v).entered..Effect(p, v).done :
              Cleared(Effect(p, v).request, t)
         /\ ~Effect(p, v).request.stop_at_approval
<1>1. /\ Effect(p, v).request = req[p]
      /\ Effect(p, v).entered = entered[p] /\ Effect(p, v).done = clock
  BY DEF Effect
<1>2. req[p] \in Requests /\ entered[p]..clock \subseteq Int
  BY DEF TypeOK
<1>3. PICK t \in entered[p]..clock : Verdict(req[p], t) = "none"
  BY DEF Progress
<1>4. Cleared(req[p], t)
  BY <1>2, <1>3, RequestsLower, VerdictIsClearance DEF Verdict, Cleared
<1> QED
  BY <1>1, <1>4 DEF Progress, BeforeCommit

LEMMA EffectsAuthorizedStep == RuntimeInvariant /\ [Next]_vars => EffectsAuthorized'
<1> SUFFICES ASSUME TypeOK, Progress, EffectsAuthorized, [Next]_vars,
                    NEW e \in (world \cup custody)'
             PROVE  /\ AdmissionRejection(e.request) = "none"
                    /\ \E t \in e.entered..e.done : Cleared(e.request, t)
                    /\ ~e.request.stop_at_approval
  BY DEF RuntimeInvariant, EffectsAuthorized
<1>1. CASE e \in world \cup custody
  BY <1>1 DEF EffectsAuthorized
<1>2. CASE e \notin world \cup custody
  <2>1. PICK p \in Callers, v \in BOOLEAN : pc[p] = "commit" /\ e = Effect(p, v)
    BY <1>2, EffectsAdded
  <2> QED
    BY <2>1, CommitIsAuthorized
<1> QED
  BY <1>1, <1>2

\* Records are only added, and what RecordKey adds is of the effect its caller
\* has just performed.
LEMMA RecordsAdded ==
  ASSUME TypeOK, Progress, [Next]_vars
  PROVE  /\ RecordsOf(idem) \subseteq RecordsOf(idem)'
         /\ \A r \in RecordsOf(idem)' \ RecordsOf(idem) : \E p \in Callers :
              pc[p] = "record_key" /\ r = IdemRecord(req[p], call[p])
<1>1. CASE idem' = idem
  BY <1>1
<1>2. ASSUME NEW p \in Callers, RecordKey(p), NEW outcome \in AppendOutcomes,
             idem' = AppendTo(idem, IdemRecord(req[p], call[p]), outcome)
      PROVE  RecordsOf(idem)' = RecordsOf(idem) \cup {IdemRecord(req[p], call[p])}
  <2> DEFINE n == Len(idem.pieces)
  <2>1. /\ DOMAIN idem.pieces = 1..n /\ DOMAIN idem'.pieces = 1..(n + 1)
        /\ \A i \in 1..n : idem'.pieces[i].record = idem.pieces[i].record
        /\ idem'.pieces[n + 1].record = IdemRecord(req[p], call[p])
    BY <1>2, RecordAppended DEF RecordKey
  <2>2. n \in Nat
    BY DEF TypeOK
  <2>3. 1..(n + 1) = 1..n \cup {n + 1}
    BY <2>2
  <2> QED
    BY <2>1, <2>3 DEF RecordsOf
<1>3. ASSUME NEW p \in Callers, RecordKey(p), idem' # idem
      PROVE  RecordsOf(idem)' = RecordsOf(idem) \cup {IdemRecord(req[p], call[p])}
  BY <1>2, <1>3 DEF RecordKey, AppendOutcomes
<1>4. ASSUME NEW p \in Callers, RecordKey(p) PROVE pc[p] = "record_key"
  BY <1>4 DEF RecordKey
<1> QED
  BY <1>1, <1>3, <1>4, IdemUnchanged

LEMMA CustodyHonoredStep == RuntimeInvariant /\ [Next]_vars => CustodyHonored'
<1> SUFFICES ASSUME TypeOK, Progress, CustodyHonored, [Next]_vars PROVE CustodyHonored'
  BY DEF RuntimeInvariant
<1>1. \A e \in world' : ~RecordOnly(e.request)
  BY EffectsAdded DEF CustodyHonored, Effect
<1>2. \A e \in custody' : RecordOnly(e.request)
  BY EffectsAdded DEF CustodyHonored, Effect
<1>3. ASSUME NEW r \in RecordsOf(idem)'
      PROVE  \E e \in world' : /\ e.call = r.effect /\ e.verified
                               /\ Keyed(e.request) /\ ClaimOf(e.request) = r.claim
                               /\ IntentSha256(e.request.intent) = r.sha
  <2>1. CASE r \in RecordsOf(idem)
    BY <2>1, EffectsAdded DEF CustodyHonored
  <2>2. CASE r \notin RecordsOf(idem)
    <3>1. PICK p \in Callers : pc[p] = "record_key" /\ r = IdemRecord(req[p], call[p])
      BY <1>3, <2>2, RecordsAdded
    <3>2. /\ Keyed(req[p])
          /\ \E e \in world : e.call = call[p] /\ e.request = req[p] /\ e.verified
      BY <3>1 DEF Progress
    <3> QED
      BY <3>1, <3>2, EffectsAdded DEF IdemRecord
  <2> QED
    BY <2>1, <2>2
<1> QED
  BY <1>1, <1>2, <1>3 DEF CustodyHonored

-----------------------------------------------------------------------------
\* The effect a committed result names.
Names(p) ==
  \E e \in world : /\ e.call = result[p].effect /\ e.verified
                   /\ e.request.intent = req[p].intent
                   /\ e.request.scope.scope_id = req[p].scope.scope_id

\* A step that makes only p's result, or none, a committed one.
LEMMA ReplayFrame ==
  ASSUME ReplayIsFaithful, NEW p \in Callers, world \subseteq world',
         \A q \in Callers \ {p} :
           pc'[q] = pc[q] /\ req'[q] = req[q] /\ result'[q] = result[q],
         Active(p)' /\ result'[p].state = "committed" => Names(p)'
  PROVE  ReplayIsFaithful'
<1> SUFFICES ASSUME NEW q \in Callers, Active(q)', result'[q].state = "committed"
             PROVE  Names(q)'
  BY DEF ReplayIsFaithful, Names
<1>1. CASE q = p
  BY <1>1
<1>2. CASE q # p
  BY <1>2 DEF ReplayIsFaithful, Names, Active
<1> QED
  BY <1>1, <1>2

\* A replay returns the effect of the record it found, and equal hashes are
\* equal intents.
LEMMA ReplayNames ==
  ASSUME TypeOK, Progress, CustodyHonored, CallsDistinct, OneRecordPerClaim,
         NEW p \in Callers, pc[p] = "lookup", PriorIndexes(ClaimOf(req[p])) # {},
         Prior(ClaimOf(req[p])).sha = IntentSha256(req[p].intent)
  PROVE  \E e \in world : /\ e.call = Prior(ClaimOf(req[p])).effect /\ e.verified
                          /\ e.request.intent = req[p].intent
                          /\ e.request.scope.scope_id = req[p].scope.scope_id
<1> DEFINE c == ClaimOf(req[p])
<1>1. PICK i \in DOMAIN idem.pieces :
         Prior(c) = idem.pieces[i].record /\ idem.pieces[i].record.claim = c
  BY PriorIsRecorded
<1>2. Prior(c) \in RecordsOf(idem) /\ Prior(c).claim = c
  BY <1>1 DEF RecordsOf
<1>3. PICK e \in world : /\ e.call = Prior(c).effect /\ e.verified
                         /\ ClaimOf(e.request) = c
                         /\ IntentSha256(e.request.intent) = Prior(c).sha
  BY <1>2 DEF CustodyHonored
<1>4. e.request \in Requests /\ req[p] \in Requests
  BY DEF CallsDistinct, TypeOK
<1>5. e.request.intent = req[p].intent
  BY <1>3, <1>4, HashInjective
<1>6. e.request.scope.scope_id = req[p].scope.scope_id
  BY <1>3 DEF ClaimOf
<1> QED
  BY <1>3, <1>5, <1>6

\* The states of the results that commit nothing.
LEMMA ResultStates ==
  /\ NoResult.state = "none" /\ Paused.state = "paused" /\ Raised.state = "raised"
  /\ \A x : Rejected(x).state = "rejected" /\ Approved(x).state = "approved"
BY DEF NoResult, Paused, Raised, Rejected, Approved

LEMMA ReplayStep == RuntimeInvariant /\ [Next]_vars => ReplayIsFaithful'
<1> SUFFICES ASSUME TypeOK, CallsDistinct, Progress, OneRecordPerClaim, CustodyHonored,
                    ReplayIsFaithful, [Next]_vars
             PROVE  ReplayIsFaithful'
  BY DEF RuntimeInvariant
<1> DEFINE Alone(p) == \A q \in Callers \ {p} :
                         pc'[q] = pc[q] /\ req'[q] = req[q] /\ result'[q] = result[q]
<1>0. world \subseteq world'
  BY EffectsAdded
<1>1. ASSUME NEW p \in Callers, Submit(p) PROVE ReplayIsFaithful'
  <2>1. Alone(p)
    BY <1>1 DEF Submit, TypeOK, Goto, ReturnWith
  <2>2. result[p] = NoResult
    BY <1>1 DEF Submit, Progress
  <2>3. result'[p] = NoResult \/ \E reason : result'[p] = Rejected(reason)
    BY <1>1, <2>2 DEF Submit, TypeOK, Goto, ReturnWith
  <2>4. result'[p].state # "committed"
    BY <2>3, ResultStates
  <2> QED
    BY <1>0, <2>1, <2>4, ReplayFrame
<1>2. ASSUME NEW p \in Callers, Alone(p), req'[p] = req[p], pc[p] # "idle",
             \/ result'[p] = result[p] \/ result'[p] = Paused \/ result'[p] = Raised
             \/ \E x : result'[p] = Rejected(x) \/ result'[p] = Approved(x)
      PROVE  ReplayIsFaithful'
  <2>1. result'[p].state = "committed" => result'[p] = result[p]
    BY <1>2, ResultStates
  <2>2. result'[p].state = "committed" => Names(p)'
    BY <1>0, <1>2, <2>1 DEF ReplayIsFaithful, Names, Active
  <2> QED
    BY <1>0, <1>2, <2>2, ReplayFrame
<1>3. ASSUME NEW p \in Callers,
             \/ Lock(p) \/ RecordKey(p) \/ ReadRate(p) \/ WriteRate(p) \/ RateError(p)
      PROVE  ReplayIsFaithful'
  <2>1. Alone(p)
    BY <1>3 DEF Lock, RecordKey, ReadRate, WriteRate, RateError, TypeOK, Goto
  <2>2. req'[p] = req[p] /\ pc[p] # "idle" /\ result'[p] = result[p]
    BY <1>3 DEF Lock, RecordKey, ReadRate, WriteRate, RateError
  <2> QED
    BY <1>2, <2>1, <2>2
<1>4. ASSUME NEW p \in Callers,
             \/ LockError(p) \/ LookupError(p) \/ BudgetError(p)
             \/ PrepareRefuses(p) \/ CommitRefused(p) \/ CommitUnverified(p)
      PROVE  ReplayIsFaithful'
  <2>1. PICK res : ReturnWith(p, res) /\ (res = Raised \/ \E x : res = Rejected(x))
    BY <1>4 DEF LockError, LookupError, BudgetError, PrepareRefuses, GivesUp, CommitRefused,
       CommitUnverified
  <2>2. req' = req /\ pc[p] # "idle"
    BY <1>4 DEF LockError, LookupError, BudgetError, PrepareRefuses, GivesUp, CommitRefused,
       CommitUnverified
  <2>3. Alone(p) /\ result'[p] = res
    BY <2>1, <2>2 DEF ReturnWith, Goto, TypeOK
  <2> QED
    BY <1>2, <2>1, <2>2, <2>3
<1>5. ASSUME NEW p \in Callers, CheckBudget(p) PROVE ReplayIsFaithful'
  <2>1. Alone(p) /\ req'[p] = req[p] /\ pc[p] # "idle"
    BY <1>5 DEF CheckBudget, TypeOK, Goto, ReturnWith
  <2>2. result'[p] = result[p] \/ \E x : result'[p] = Rejected(x)
    BY <1>5 DEF CheckBudget, TypeOK, ReturnWith
  <2> QED
    BY <1>2, <2>1, <2>2
<1>6. ASSUME NEW p \in Callers, HandOver(p) PROVE ReplayIsFaithful'
  <2>1. Alone(p) /\ req'[p] = req[p] /\ pc[p] # "idle"
    BY <1>6 DEF HandOver, TypeOK, Goto
  <2>2. \E x : result'[p] = Approved(x)
    BY <1>6 DEF HandOver, TypeOK
  <2> QED
    BY <1>2, <2>1, <2>2
<1>7. ASSUME NEW p \in Callers, Authorize(p) PROVE ReplayIsFaithful'
  <2>1. Alone(p) /\ req'[p] = req[p] /\ pc[p] # "idle"
    BY <1>7 DEF Authorize, TypeOK, Goto, ReturnWith
  <2>2. \/ result'[p] = result[p] \/ result'[p] = Paused \/ result'[p] = Raised
        \/ \E x : result'[p] = Rejected(x) \/ result'[p] = Approved(x)
    BY <1>7 DEF Authorize, TypeOK, Goto, ReturnWith
  <2> QED
    BY <1>2, <2>1, <2>2
<1>8. ASSUME NEW p \in Callers, Lookup(p) PROVE ReplayIsFaithful'
  <2> DEFINE c == ClaimOf(req[p])
  <2>1. Alone(p) /\ req'[p] = req[p] /\ pc[p] = "lookup"
    BY <1>8 DEF Lookup, TypeOK, Goto, ReturnWith
  <2>2. CASE ReturnWith(p, Committed(Prior(c).effect)) /\ PriorIndexes(c) # {}
             /\ Prior(c).sha = IntentSha256(req[p].intent)
    <3>1. result'[p].effect = Prior(c).effect
      BY <2>2 DEF ReturnWith, TypeOK, Committed
    <3>2. \E e \in world : /\ e.call = Prior(c).effect /\ e.verified
                           /\ e.request.intent = req[p].intent
                           /\ e.request.scope.scope_id = req[p].scope.scope_id
      BY <2>1, <2>2, ReplayNames
    <3>3. Names(p)'
      BY <1>0, <2>1, <3>1, <3>2 DEF Names
    <3> QED
      BY <1>0, <2>1, <3>3, ReplayFrame
  <2>3. CASE result'[p] = result[p] \/ \E x : result'[p] = Rejected(x)
    BY <1>2, <2>1, <2>3
  <2> QED
    BY <1>8, <2>2, <2>3 DEF Lookup, ReturnWith, TypeOK
<1>9. ASSUME NEW p \in Callers, Commit(p) PROVE ReplayIsFaithful'
  <2>1. Alone(p) /\ req'[p] = req[p] /\ result'[p] = Committed(call[p])
    BY <1>9 DEF Commit, TypeOK, Goto
  <2>2. Effect(p, TRUE) \in world'
    BY <1>9 DEF Commit
  <2>3. Names(p)'
    BY <2>1, <2>2 DEF Names, Effect, Committed
  <2> QED
    BY <1>0, <2>1, <2>3, ReplayFrame
<1>10. ASSUME NEW p \in Callers, Return(p) \/ Crash(p) PROVE ReplayIsFaithful'
  <2>1. Alone(p) /\ pc'[p] = "idle"
    BY <1>10 DEF Return, Crash, Leave, TypeOK, Goto
  <2> QED
    BY <1>0, <2>1, ReplayFrame DEF Active
<1>11. CASE Tick \/ UNCHANGED vars
  BY <1>11 DEF Tick, vars, local, ReplayIsFaithful, Active
<1> QED
  BY <1>1, <1>3, <1>4, <1>5, <1>6, <1>7, <1>8, <1>9, <1>10, <1>11 DEF Next, Step, Fails

-----------------------------------------------------------------------------
\* RuntimeInvariant holds in every reachable state: TypeOK needs the ledger to
\* have one record per claim, that needs the lookup to stay true under the
\* lock, and that needs every caller in the section to have its lock.
THEOREM RuntimeInvariantHolds == Spec => []RuntimeInvariant
<1>1. RuntimeInvariant /\ [Next]_vars => RuntimeInvariant'
  BY TypeStep, LockDisciplineStep, CallsDistinctStep, ProgressStep, LookupHoldsStep,
     OneRecordStep, EffectsAuthorizedStep, CustodyHonoredStep, ReplayStep
  DEF RuntimeInvariant
<1> QED
  BY <1>1, RuntimeInit, PTL DEF Spec

\* Every variable has its type.
THEOREM RuntimeTypes == Spec => []TypeOK
<1>1. RuntimeInvariant => TypeOK
  BY DEF RuntimeInvariant
<1> QED
  BY <1>1, RuntimeInvariantHolds, PTL

\* A caller in the critical section has the lock of its claim, and nobody else
\* keeps it: no return path of evaluate_with_adapter leaks a lock.
THEOREM RuntimeLockDiscipline == Spec => []LockDiscipline
<1>1. RuntimeInvariant => LockDiscipline
  BY DEF RuntimeInvariant
<1> QED
  BY <1>1, RuntimeInvariantHolds, PTL

\* Two effects of one claim that the ledger knows of would be two records of
\* the claim, two holders of its lock, or a holder and a record it did not find.
LEMMA OneRecordedEffect == RuntimeInvariant => AtMostOneRecorded
<1> SUFFICES ASSUME RuntimeInvariant, NEW e \in world, NEW f \in world,
                    SameClaim(e, f), Accounted(e), Accounted(f)
             PROVE  e = f
  BY DEF AtMostOneRecorded
<1> USE DEF RuntimeInvariant
<1>1. ASSUME NEW g \in world, NEW r \in RecordsOf(idem), r.effect = g.call
      PROVE  r.claim = ClaimOf(g.request)
  BY <1>1 DEF CustodyHonored, CallsDistinct
<1>2. ASSUME NEW g \in world, Keyed(g.request), NEW p \in Callers,
             pc[p] = "record_key", call[p] = g.call
      PROVE  /\ locks[ClaimOf(g.request)] = p
             /\ \A r \in RecordsOf(idem) : r.claim # ClaimOf(g.request)
  <2>1. g.request = req[p]
    BY <1>2 DEF Progress, CallsDistinct
  <2>2. Critical(p)
    BY <1>2, <2>1 DEF Critical, Active
  <2> QED
    BY <1>2, <2>1, <2>2 DEF LockDiscipline, LookupHolds, RecordsOf
<1>3. CASE \E r, s \in RecordsOf(idem) : r.effect = e.call /\ s.effect = f.call
  <2>1. PICK r \in RecordsOf(idem), s \in RecordsOf(idem) :
               r.effect = e.call /\ s.effect = f.call
    BY <1>3
  <2>2. r.claim = s.claim
    BY <1>1, <2>1 DEF SameClaim
  <2>3. r = s
    BY <2>2 DEF OneRecordPerClaim, RecordsOf
  <2> QED
    BY <2>1, <2>3 DEF CallsDistinct
<1>4. CASE \E r \in RecordsOf(idem), p \in Callers :
             /\ pc[p] = "record_key"
             /\ \/ r.effect = e.call /\ call[p] = f.call
                \/ r.effect = f.call /\ call[p] = e.call
  BY <1>1, <1>2, <1>4 DEF SameClaim
<1>5. CASE \E p, q \in Callers : /\ pc[p] = "record_key" /\ call[p] = e.call
                                 /\ pc[q] = "record_key" /\ call[q] = f.call
  <2>1. PICK p \in Callers, q \in Callers :
               /\ pc[p] = "record_key" /\ call[p] = e.call
               /\ pc[q] = "record_key" /\ call[q] = f.call
    BY <1>5
  <2>2. p = q
    BY <1>2, <2>1 DEF SameClaim
  <2> QED
    BY <2>1, <2>2 DEF CallsDistinct
<1> QED
  BY <1>3, <1>4, <1>5 DEF Accounted

\* Two effects of one (scope, key) are never both known to its ledger.
THEOREM RuntimeAtMostOneRecorded == Spec => []AtMostOneRecorded
  BY OneRecordedEffect, RuntimeInvariantHolds, PTL

\* The adapter never commits under a (scope, key) that already has a record.
THEOREM RuntimeNoEffectAfterRecord == Spec => NoEffectAfterRecord
<1>1. RuntimeInvariant /\ [Next]_vars =>
        [\A e \in world' \ world :
           Keyed(e.request) =>
             \A r \in RecordsOf(idem) : r.claim # ClaimOf(e.request)]_vars
  <2> SUFFICES ASSUME RuntimeInvariant, [Next]_vars,
                      NEW e \in world' \ world, Keyed(e.request),
                      NEW r \in RecordsOf(idem)
               PROVE  r.claim # ClaimOf(e.request)
    OBVIOUS
  <2>1. PICK p \in Callers, v \in BOOLEAN : pc[p] = "commit" /\ e = Effect(p, v)
    BY EffectsAdded DEF RuntimeInvariant
  <2>2. e.request = req[p]
    BY <2>1 DEF Effect
  <2>3. Critical(p)
    BY <2>1, <2>2 DEF Critical, Active
  <2> QED
    BY <2>1, <2>2, <2>3 DEF RuntimeInvariant, LookupHolds, RecordsOf
<1> QED
  BY <1>1, RuntimeInvariantHolds, PTL DEF Spec, NoEffectAfterRecord

\* A "committed" answer is about an effect performed for the same intent.
THEOREM RuntimeReplayIsFaithful == Spec => []ReplayIsFaithful
<1>1. RuntimeInvariant => ReplayIsFaithful
  BY DEF RuntimeInvariant
<1> QED
  BY <1>1, RuntimeInvariantHolds, PTL

\* What reaches the world or is handed over was admissible and cleared.
THEOREM RuntimeEffectsAuthorized == Spec => []EffectsAuthorized
<1>1. RuntimeInvariant => EffectsAuthorized
  BY DEF RuntimeInvariant
<1> QED
  BY <1>1, RuntimeInvariantHolds, PTL

\* record_only and execute never mix, and the ledger records only effects that
\* were performed and verified.
THEOREM RuntimeCustodyHonored == Spec => []CustodyHonored
<1>1. RuntimeInvariant => CustodyHonored
  BY DEF RuntimeInvariant
<1> QED
  BY <1>1, RuntimeInvariantHolds, PTL
-----------------------------------------------------------------------------
(* Effects repeat only through faults.                                      *)

\* A step of a caller leaves what the others know alone.
OthersWait(p) ==
  \A q \in Callers \ {p} :
    /\ pc'[q] = pc[q] /\ req'[q] = req[q] /\ call'[q] = call[q]
    /\ effectNow'[q] = effectNow[q] /\ kept'[q] = kept[q] /\ result'[q] = result[q]

LEMMA OneCallerMoves ==
  ASSUME TypeOK, NEW p \in Callers, Submit(p) \/ Step(p) \/ Fails(p)
  PROVE  OthersWait(p)
<1> USE DEF TypeOK, OthersWait, Goto, ReturnWith
<1>1. CASE Submit(p)
  BY <1>1 DEF Submit
<1>2. CASE Lock(p) \/ Lookup(p) \/ PrepareRefuses(p)
  BY <1>2 DEF Lock, Lookup, PrepareRefuses, GivesUp
<1>3. CASE Authorize(p)
  BY <1>3 DEF Authorize
<1>4. CASE CheckBudget(p) \/ HandOver(p) \/ Commit(p) \/ CommitRefused(p)
  BY <1>4 DEF CheckBudget, HandOver, Commit, CommitRefused, GivesUp
<1>5. CASE RecordKey(p) \/ ReadRate(p) \/ WriteRate(p)
  BY <1>5 DEF RecordKey, ReadRate, WriteRate
<1>6. CASE Return(p) \/ Crash(p)
  BY <1>6 DEF Return, Crash, Leave
<1>7. CASE LockError(p) \/ LookupError(p) \/ BudgetError(p)
  BY <1>7 DEF LockError, LookupError, BudgetError
<1>8. CASE CommitUnverified(p) \/ RateError(p)
  BY <1>8 DEF CommitUnverified, GivesUp, RateError
<1> QED
  BY <1>1, <1>2, <1>3, <1>4, <1>5, <1>6, <1>7, <1>8 DEF Step, Fails

\* As long as nothing has failed, every keyed effect is one the ledger knows of
\* or is about to.
Unfaulted ==
  faults = 0 => \A e \in world : Keyed(e.request) => Accounted(e)

LEMMA UnfaultedStep == RuntimeInvariant /\ Unfaulted /\ [Next]_vars => Unfaulted'
<1> SUFFICES ASSUME TypeOK, Progress, Unfaulted, [Next]_vars, faults' = 0
             PROVE  \A e \in world' : Keyed(e.request) => Accounted(e)'
  BY DEF Unfaulted, RuntimeInvariant
<1>1. \A kind : ~Fault(kind)
  BY DEF Fault, TypeOK
<1>2. RecordsOf(idem) \subseteq RecordsOf(idem)'
  BY RecordsAdded
<1>3. ASSUME NEW p \in Callers, ~RecordKey(p), faults = 0,
             Submit(p) \/ Step(p) \/ Fails(p),
             NEW e \in world, Keyed(e.request)
      PROVE  Accounted(e)'
  <2>1. OthersWait(p)
    BY <1>3, OneCallerMoves
  <2>2. pc[p] # "record_key"
    BY <1>1, <1>3
    DEF Submit, Step, Fails, Lock, LockError, Lookup, LookupError, PrepareRefuses, GivesUp,
        Authorize, CheckBudget, BudgetError, HandOver, Commit, CommitRefused,
        CommitUnverified, ReadRate, WriteRate, RateError, Return, Crash
  <2>3. Accounted(e)
    BY <1>3 DEF Unfaulted
  <2> QED
    BY <1>2, <2>1, <2>2, <2>3 DEF Accounted, OthersWait
<1>4. ASSUME NEW p \in Callers, RecordKey(p), NEW e \in world', Keyed(e.request)
      PROVE  Accounted(e)'
  <2>1. /\ idem' = AppendTo(idem, IdemRecord(req[p], call[p]), Whole)
        /\ faults = 0 /\ world' = world
    BY <1>1, <1>4 DEF RecordKey
  <2>2. Accounted(e)
    BY <1>4, <2>1 DEF Unfaulted
  <2>3. \E r \in RecordsOf(idem)' : r.effect = call[p]
    <3>1. /\ DOMAIN idem'.pieces = 1..(Len(idem.pieces) + 1)
          /\ idem'.pieces[Len(idem.pieces) + 1].record = IdemRecord(req[p], call[p])
      BY <1>4, <2>1, RecordAppended DEF RecordKey, AppendOutcomes
    <3>2. Len(idem.pieces) + 1 \in 1..(Len(idem.pieces) + 1)
      BY DEF TypeOK
    <3> QED
      BY <3>1, <3>2 DEF RecordsOf, IdemRecord
  <2>4. OthersWait(p)
    BY <1>4, OneCallerMoves DEF Step
  <2> QED
    BY <1>2, <2>2, <2>3, <2>4 DEF Accounted, OthersWait
<1>5. ASSUME NEW p \in Callers, ~RecordKey(p), Submit(p) \/ Step(p) \/ Fails(p)
      PROVE  faults = 0
  BY <1>1, <1>5
  DEF Submit, Step, Fails, Lock, LockError, Lookup, LookupError, PrepareRefuses, GivesUp,
      Authorize, CheckBudget, BudgetError, HandOver, Commit, CommitRefused,
      CommitUnverified, ReadRate, WriteRate, RateError, Return, Crash
<1>6. ASSUME NEW p \in Callers, Commit(p), NEW e \in world' \ world, Keyed(e.request)
      PROVE  Accounted(e)'
  <2>1. e = Effect(p, TRUE) /\ call' = call
    BY <1>6 DEF Commit
  <2>2. e.call = call[p] /\ Keyed(req[p])
    BY <1>6, <2>1 DEF Effect
  <2>3. pc'[p] = "record_key"
    BY <1>6, <2>2 DEF Commit, Goto, TypeOK
  <2> QED
    BY <2>1, <2>2, <2>3 DEF Accounted
<1>7. ASSUME NEW p \in Callers, ~RecordKey(p), Submit(p) \/ Step(p) \/ Fails(p),
             NEW e \in world', Keyed(e.request)
      PROVE  Accounted(e)'
  <2>1. CASE e \in world
    BY <1>3, <1>5, <1>7, <2>1
  <2>2. CASE e \notin world
    <3>1. ~CommitUnverified(p)
      BY <1>1 DEF CommitUnverified, GivesUp
    <3>2. Commit(p)
      BY <1>7, <2>2, <3>1
      DEF Submit, Step, Fails, Lock, LockError, Lookup, LookupError, PrepareRefuses, GivesUp,
          Authorize, CheckBudget, BudgetError, HandOver, CommitRefused,
          ReadRate, WriteRate, RateError, Return, Crash, Leave, StaysPut
    <3> QED
      BY <1>6, <1>7, <2>2, <3>2
  <2> QED
    BY <2>1, <2>2
<1>8. CASE Tick \/ UNCHANGED vars
  BY <1>8 DEF Tick, vars, local, Unfaulted, Accounted
<1> QED
  BY <1>4, <1>7, <1>8 DEF Next

\* While nothing fails, no (scope, key) has two effects, whatever its callers
\* do at the same time and however often they retry: a keyed effect without a
\* record takes a death, a failed append or a failed verification.
THEOREM RuntimeOnlyFaultsRepeatEffects == Spec => []OnlyFaultsRepeatEffects
<1>1. Init => Unfaulted
  BY DEF Init, Unfaulted
<1>2. RuntimeInvariant /\ Unfaulted => OnlyFaultsRepeatEffects
  BY OneRecordedEffect
  DEF AtMostOneRecorded, Unfaulted, OnlyFaultsRepeatEffects, AtMostOncePerKey, SameClaim
<1>3. RuntimeInvariant /\ Unfaulted /\ [Next]_vars => Unfaulted'
  BY UnfaultedStep
<1> QED
  BY <1>1, <1>2, <1>3, RuntimeInvariantHolds, PTL DEF Spec
-----------------------------------------------------------------------------
(* What the rate ledger counts.                                             *)

Performed == world \cup custody

\* Those that count against the budget of some scope.
Consuming == {e \in world : e.verified} \cup custody

AfterCommit == {"record_key", "rate_read", "rate_write"}

\* What was performed and what was handed over are numbered apart, by calls
\* that were made.
EffectsApart ==
  /\ \A e \in Performed : /\ e.call \in 1..calls /\ e.request \in Requests
                          /\ e.done \in 0..clock /\ e.checked \in 0..e.done
  /\ \A e, f \in Performed : e.call = f.call => e = f
  /\ \A p \in Callers, e \in Performed : pc[p] \in BeforeCommit => e.call # call[p]

\* A caller on its way to the rate ledger has an effect that counts.
Spent ==
  \A p \in Callers :
    pc[p] \in AfterCommit =>
      \E e \in Consuming : e.call = call[p] /\ e.checked = effectNow[p] /\ e.request = req[p]

Backed(x) ==
  \E e \in Consuming :
    e.call = x.effect /\ e.checked = x.ts /\ e.request.scope.scope_id = x.scope_id

\* Every event in the ledger, or on its way back into it, is that of an effect.
RateBacked ==
  /\ \A x \in rate : Backed(x)
  /\ \A p \in Callers : \A x \in kept[p] : Backed(x)

BudgetInvariant == RuntimeInvariant /\ EffectsApart /\ Spent /\ RateBacked

\* Where a step of a call takes it, as far as its effect is concerned.
LEMMA CallMoves ==
  ASSUME TypeOK, NEW p \in Callers, Submit(p) \/ Step(p) \/ Fails(p)
  PROVE  /\ clock' = clock /\ (calls' = calls \/ calls' = calls + 1)
         /\ pc'[p] \in BeforeCommit =>
              \/ pc[p] \in BeforeCommit /\ call'[p] = call[p]
              \/ call'[p] = calls + 1 /\ calls' = calls + 1
         /\ pc'[p] \in AfterCommit =>
              \/ HandOver(p) \/ Commit(p)
              \/ pc[p] \in AfterCommit /\ UNCHANGED <<call, req, effectNow>>
<1> USE DEF TypeOK, BeforeCommit, AfterCommit, AfterEffect, Goto, ReturnWith
<1>1. CASE Submit(p)
  BY <1>1 DEF Submit
<1>2. CASE Lock(p) \/ Lookup(p) \/ PrepareRefuses(p)
  BY <1>2 DEF Lock, Lookup, PrepareRefuses, GivesUp
<1>3. CASE Authorize(p)
  BY <1>3 DEF Authorize
<1>4. CASE CheckBudget(p) \/ CommitRefused(p)
  BY <1>4 DEF CheckBudget, CommitRefused, GivesUp
<1>5. CASE HandOver(p) \/ Commit(p)
  BY <1>5 DEF HandOver, Commit
<1>6. CASE RecordKey(p)
  BY <1>6 DEF RecordKey
<1>7. CASE ReadRate(p) \/ WriteRate(p)
  BY <1>7 DEF ReadRate, WriteRate
<1>8. CASE Return(p) \/ Crash(p)
  BY <1>8 DEF Return, Crash, Leave
<1>9. CASE LockError(p) \/ LookupError(p) \/ BudgetError(p)
  BY <1>9 DEF LockError, LookupError, BudgetError
<1>10. CASE CommitUnverified(p) \/ RateError(p)
  BY <1>10 DEF CommitUnverified, GivesUp, RateError
<1> QED
  BY <1>1, <1>2, <1>3, <1>4, <1>5, <1>6, <1>7, <1>8, <1>9, <1>10 DEF Step, Fails

\* A step has at most one effect, that of a caller at its commit.
LEMMA OneEffectAdded ==
  ASSUME TypeOK, NEW p \in Callers, Submit(p) \/ Step(p) \/ Fails(p)
  PROVE  \/ Performed' = Performed
         \/ /\ pc[p] = "commit"
            /\ pc'[p] \notin BeforeCommit
            /\ \E v \in BOOLEAN : Performed' = Performed \cup {Effect(p, v)}
            /\ UNCHANGED <<call, calls>>
<1>1. CASE HandOver(p) \/ Commit(p) \/ CommitUnverified(p)
  BY <1>1
  DEF HandOver, Commit, CommitUnverified, GivesUp, Performed, TypeOK, BeforeCommit, AfterEffect,
      Goto, ReturnWith
<1>2. CASE ~(HandOver(p) \/ Commit(p) \/ CommitUnverified(p))
  BY <1>2
  DEF Performed, Submit, Step, Fails, Lock, LockError, Lookup, LookupError,
      PrepareRefuses, GivesUp, Authorize, CheckBudget, BudgetError, CommitRefused, RecordKey,
      ReadRate, WriteRate, RateError, Return, Crash, Leave, StaysPut
<1> QED
  BY <1>1, <1>2

LEMMA EffectsApartStep == BudgetInvariant /\ [Next]_vars => EffectsApart'
<1> SUFFICES ASSUME TypeOK, CallsDistinct, EffectsApart, [Next]_vars
             PROVE  EffectsApart'
  BY DEF BudgetInvariant, RuntimeInvariant
<1>0. calls \in Nat /\ clock \in Nat
  BY DEF TypeOK
<1>1. ASSUME NEW p \in Callers, Submit(p) \/ Step(p) \/ Fails(p) PROVE EffectsApart'
  <2>1. OthersWait(p)
    BY <1>1, OneCallerMoves
  <2>2. /\ clock' = clock /\ (calls' = calls \/ calls' = calls + 1)
        /\ pc'[p] \in BeforeCommit =>
             \/ pc[p] \in BeforeCommit /\ call'[p] = call[p]
             \/ call'[p] = calls + 1 /\ calls' = calls + 1
    BY <1>1, CallMoves
  <2>3. CASE Performed' = Performed
    <3>1. \A e \in Performed : e.call \in 1..calls /\ e.call # calls + 1
      BY <1>0 DEF EffectsApart
    <3>2. \A q \in Callers, e \in Performed : pc'[q] \in BeforeCommit => e.call # call'[q]
      BY <2>1, <2>2, <3>1 DEF EffectsApart, OthersWait
    <3>3. \A e \in Performed : /\ e.call \in 1..calls' /\ e.request \in Requests
                              /\ e.done \in 0..clock' /\ e.checked \in 0..e.done
      BY <1>0, <2>2 DEF EffectsApart
    <3> QED
      BY <2>3, <3>2, <3>3 DEF EffectsApart
  <2>4. CASE /\ pc[p] = "commit" /\ pc'[p] \notin BeforeCommit
             /\ \E v \in BOOLEAN : Performed' = Performed \cup {Effect(p, v)}
             /\ UNCHANGED <<call, calls>>
    <3>0. PICK v \in BOOLEAN : Performed' = Performed \cup {Effect(p, v)}
      BY <2>4
    <3> DEFINE e == Effect(p, v)
    <3>1. Performed' = Performed \cup {e}
      BY <3>0
    <3>2. /\ e.call = call[p] /\ e.request = req[p]
          /\ e.checked = effectNow[p] /\ e.done = clock
      BY DEF Effect
    <3>3. /\ call[p] \in 1..calls /\ req[p] \in Requests /\ effectNow[p] \in 0..clock
          /\ Active(p)
      BY <2>4 DEF TypeOK, CallsDistinct, Active
    <3>4. \A f \in Performed : f.call # call[p]
      BY <2>4 DEF EffectsApart, BeforeCommit
    <3>5. \A q \in Callers : pc'[q] \in BeforeCommit =>
            q # p /\ pc[q] \in BeforeCommit /\ call'[q] = call[q] /\ call[q] # call[p]
      BY <2>1, <2>4, <3>3 DEF CallsDistinct, OthersWait, Active, BeforeCommit
    <3> HIDE DEF e
    <3>6. \A f \in Performed' :
            /\ f.call \in 1..calls' /\ f.request \in Requests
            /\ f.done \in 0..clock' /\ f.checked \in 0..f.done
      BY <1>0, <2>2, <2>4, <3>1, <3>2, <3>3 DEF EffectsApart
    <3>7. \A f, g \in Performed' : f.call = g.call => f = g
      BY <3>1, <3>2, <3>4 DEF EffectsApart
    <3>8. \A q \in Callers, f \in Performed' : pc'[q] \in BeforeCommit => f.call # call'[q]
      BY <3>1, <3>2, <3>5 DEF EffectsApart
    <3> QED
      BY <3>6, <3>7, <3>8 DEF EffectsApart
  <2> QED
    BY <1>1, <2>3, <2>4, OneEffectAdded
<1>2. CASE Tick \/ UNCHANGED vars
  BY <1>0, <1>2 DEF Tick, vars, local, EffectsApart, Performed
<1> QED
  BY <1>1, <1>2 DEF Next

LEMMA ConsumingGrows ==
  ASSUME [Next]_vars, Progress
  PROVE  Consuming \subseteq Consuming'
BY EffectsAdded DEF Consuming

LEMMA SpentStep == BudgetInvariant /\ [Next]_vars => Spent'
<1> SUFFICES ASSUME TypeOK, Progress, Spent, [Next]_vars,
                    NEW q \in Callers, pc'[q] \in AfterCommit
             PROVE  \E e \in Consuming' :
                      e.call = call'[q] /\ e.checked = effectNow'[q] /\ e.request = req'[q]
  BY DEF BudgetInvariant, RuntimeInvariant, Spent
<1>1. ASSUME pc[q] \in AfterCommit, call'[q] = call[q], req'[q] = req[q],
             effectNow'[q] = effectNow[q]
      PROVE  \E e \in Consuming' :
               e.call = call'[q] /\ e.checked = effectNow'[q] /\ e.request = req'[q]
  BY <1>1, ConsumingGrows DEF Spent
<1>2. ASSUME NEW p \in Callers, Submit(p) \/ Step(p) \/ Fails(p)
      PROVE  \E e \in Consuming' :
               e.call = call'[q] /\ e.checked = effectNow'[q] /\ e.request = req'[q]
  <2>1. CASE q # p
    BY <1>1, <1>2, <2>1, OneCallerMoves DEF OthersWait
  <2>2. CASE q = p /\ (HandOver(p) \/ Commit(p))
    <3>1. PICK v \in BOOLEAN :
            \/ v /\ Effect(p, v) \in world'
            \/ Effect(p, v) \in custody'
      BY <2>2 DEF HandOver, Commit
    <3>2. /\ Effect(p, v).call = call[p] /\ Effect(p, v).request = req[p]
          /\ Effect(p, v).checked = effectNow[p] /\ Effect(p, v).verified = v
      BY DEF Effect
    <3>3. UNCHANGED <<call, req, effectNow>>
      BY <2>2 DEF HandOver, Commit
    <3>4. Effect(p, v) \in Consuming'
      BY <3>1, <3>2 DEF Consuming
    <3> QED
      BY <2>2, <3>2, <3>3, <3>4
  <2>3. CASE q = p /\ pc[p] \in AfterCommit /\ UNCHANGED <<call, req, effectNow>>
    BY <1>1, <2>3
  <2> QED
    BY <1>2, <2>1, <2>2, <2>3, CallMoves
<1>3. CASE Tick \/ UNCHANGED vars
  BY <1>1, <1>3 DEF Tick, vars, local
<1> QED
  BY <1>2, <1>3 DEF Next

\* A step keeps what a caller has read, drops it, or reads the ledger again.
LEMMA KeptMoves ==
  ASSUME TypeOK, NEW p \in Callers, Submit(p) \/ Step(p) \/ Fails(p)
  PROVE  /\ WriteRate(p) \/ rate' = rate
         /\ kept'[p] = kept[p] \/ kept'[p] \subseteq rate
<1>1. CASE ReadRate(p)
  BY <1>1 DEF ReadRate, StaysPut, InWindow, TypeOK
<1>2. CASE Return(p) \/ Crash(p)
  BY <1>2 DEF Return, Crash, Leave, TypeOK
<1>3. CASE ~ReadRate(p) /\ ~Return(p) /\ ~Crash(p)
  BY <1>3
  DEF Submit, Step, Fails, Lock, LockError, Lookup, LookupError, PrepareRefuses, GivesUp,
      Authorize, CheckBudget, BudgetError, HandOver, Commit, CommitRefused,
      CommitUnverified, RecordKey, WriteRate, RateError, StaysPut
<1> QED
  BY <1>1, <1>2, <1>3

LEMMA RateBackedStep == BudgetInvariant /\ [Next]_vars => RateBacked'
<1> SUFFICES ASSUME TypeOK, Progress, Spent, RateBacked, [Next]_vars
             PROVE  RateBacked'
  BY DEF BudgetInvariant, RuntimeInvariant
<1>1. \A x : Backed(x) => Backed(x)'
  BY ConsumingGrows DEF Backed
<1>2. ASSUME NEW p \in Callers, WriteRate(p) PROVE RateBacked'
  <2> DEFINE x == RateEvent(req[p], call[p], effectNow[p])
  <2>1. x.scope_id = req[p].scope.scope_id /\ x.effect = call[p] /\ x.ts = effectNow[p]
    BY DEF RateEvent
  <2>2. Backed(x)
    BY <1>2, <2>1 DEF WriteRate, Spent, AfterCommit, Backed
  <2>3. rate' = kept[p] \cup {x} /\ kept' = kept
    BY <1>2 DEF WriteRate
  <2> HIDE DEF x
  <2> QED
    BY <1>1, <2>2, <2>3 DEF RateBacked
<1>3. ASSUME NEW p \in Callers, ~WriteRate(p), Submit(p) \/ Step(p) \/ Fails(p)
      PROVE  RateBacked'
  <2>1. rate' = rate /\ (kept'[p] = kept[p] \/ kept'[p] \subseteq rate)
    BY <1>3, KeptMoves
  <2>2. \A q \in Callers \ {p} : kept'[q] = kept[q]
    BY <1>3, OneCallerMoves DEF OthersWait
  <2> QED
    BY <1>1, <2>1, <2>2 DEF RateBacked
<1>4. CASE Tick \/ UNCHANGED vars
  BY <1>1, <1>4 DEF Tick, vars, local, RateBacked
<1> QED
  BY <1>2, <1>3, <1>4 DEF Next

THEOREM BudgetInvariantHolds == Spec => []BudgetInvariant
<1>1. Init => EffectsApart /\ Spent /\ RateBacked
  BY DEF Init, EffectsApart, Spent, RateBacked, Performed, AfterCommit, BeforeCommit
<1>2. BudgetInvariant /\ [Next]_vars => EffectsApart' /\ Spent' /\ RateBacked'
  BY EffectsApartStep, SpentStep, RateBackedStep
<1>3. RuntimeInvariant /\ EffectsApart /\ Spent /\ RateBacked <=> BudgetInvariant
  BY DEF BudgetInvariant
<1> QED
  BY <1>1, <1>2, <1>3, RuntimeInvariantHolds, PTL DEF Spec

\* Two events of one effect are the same event: both are that effect's.
LEMMA BudgetCounts == BudgetInvariant => BudgetNeverOvercounts
<1> SUFFICES ASSUME BudgetInvariant PROVE BudgetNeverOvercounts
  OBVIOUS
<1>1. \A x \in rate : Backed(x)
  BY DEF BudgetInvariant, RateBacked
<1>2. ASSUME NEW x \in rate, NEW y \in rate, x.effect = y.effect PROVE x = y
  <2>1. x \in RateEvents /\ y \in RateEvents
    BY DEF BudgetInvariant, RuntimeInvariant, TypeOK
  <2>2. PICK e \in Consuming :
          e.call = x.effect /\ e.checked = x.ts /\ e.request.scope.scope_id = x.scope_id
    BY <1>1 DEF Backed
  <2>3. PICK f \in Consuming :
          f.call = y.effect /\ f.checked = y.ts /\ f.request.scope.scope_id = y.scope_id
    BY <1>1 DEF Backed
  <2>4. e = f
    BY <1>2, <2>2, <2>3 DEF Consuming, Performed, BudgetInvariant, EffectsApart
  <2>5. x.scope_id = y.scope_id /\ x.ts = y.ts
    BY <2>2, <2>3, <2>4
  <2> QED
    BY <1>2, <2>1, <2>5 DEF RateEvents
<1> QED
  BY <1>1, <1>2 DEF BudgetNeverOvercounts, Backed, Consumers, Consuming

\* However the rewrites of concurrent callers overlap, and whatever they lose,
\* every event of the rate ledger is that of one effect of its scope.
THEOREM RuntimeNeverOvercounts == Spec => []BudgetNeverOvercounts
  BY BudgetCounts, BudgetInvariantHolds, PTL
-----------------------------------------------------------------------------
(* How many effects a window holds.  Every set that is counted is finite,   *)
(* and events and effects are matched by the number of their call.          *)

Finite ==
  /\ IsFiniteSet(Performed) /\ IsFiniteSet(rate)
  /\ \A p \in Callers : IsFiniteSet(kept[p])

LEMMA FiniteInit == Init => Finite
  BY FS_EmptySet DEF Init, Finite, Performed

LEMMA FiniteStep == TypeOK /\ Finite /\ [Next]_vars => Finite'
<1> SUFFICES ASSUME TypeOK, Finite, [Next]_vars PROVE Finite'
  OBVIOUS
<1>1. ASSUME NEW p \in Callers, Submit(p) \/ Step(p) \/ Fails(p) PROVE Finite'
  <2>1. IsFiniteSet(Performed')
    <3>1. \A x : IsFiniteSet(Performed \cup {x})
      BY FS_AddElement DEF Finite
    <3> QED
      BY <1>1, <3>1, OneEffectAdded DEF Finite
  <2>2. rate' = rate \/ rate' = kept[p] \cup {RateEvent(req[p], call[p], effectNow[p])}
    BY <1>1, KeptMoves DEF WriteRate
  <2>3. IsFiniteSet(rate')
    BY <2>2, FS_AddElement DEF Finite
  <2>4. kept'[p] = kept[p] \/ kept'[p] \subseteq rate
    BY <1>1, KeptMoves
  <2>5. IsFiniteSet(kept'[p])
    BY <2>4, FS_Subset DEF Finite
  <2> QED
    BY <1>1, <2>1, <2>3, <2>5, OneCallerMoves DEF Finite, OthersWait
<1>2. CASE Tick \/ UNCHANGED vars
  BY <1>2 DEF Tick, vars, local, Finite, Performed
<1> QED
  BY <1>1, <1>2 DEF Next

\* Events of different effects, each of an effect in W, are no more than W.
LEMMA FewerEvents ==
  ASSUME NEW E, NEW W, IsFiniteSet(W),
         \A x \in E : \E e \in W : e.call = x.effect,
         \A x, y \in E : x.effect = y.effect => x = y
  PROVE  Cardinality(E) <= Cardinality(W)
<1> DEFINE named == [x \in E |-> CHOOSE e \in W : e.call = x.effect]
<1>1. \A x \in E : named[x] \in W /\ named[x].call = x.effect
  OBVIOUS
<1>2. named \in Injection(E, W)
  <2>1. named \in [E -> W]
    BY <1>1
  <2>2. \A x, y \in E : named[x] = named[y] => x = y
    BY <1>1
  <2> HIDE DEF named
  <2> QED
    BY <2>1, <2>2, Fun_IsInj
<1> QED
  BY <1>2, FS_Injection

\* Effects with different calls, each with an event in E, are no more than E.
LEMMA FewerEffects ==
  ASSUME NEW E, NEW W, IsFiniteSet(E),
         \A e \in W : \E x \in E : x.effect = e.call,
         \A e, f \in W : e.call = f.call => e = f
  PROVE  Cardinality(W) <= Cardinality(E)
<1> DEFINE listed == [e \in W |-> CHOOSE x \in E : x.effect = e.call]
<1>1. \A e \in W : listed[e] \in E /\ listed[e].effect = e.call
  OBVIOUS
<1>2. listed \in Injection(W, E)
  <2>1. listed \in [W -> E]
    BY <1>1
  <2>2. \A e, f \in W : listed[e] = listed[f] => e = f
    BY <1>1
  <2> HIDE DEF listed
  <2> QED
    BY <2>1, <2>2, Fun_IsInj
<1> QED
  BY <1>2, FS_Injection

\* The effects of all whose check falls in the window of scope s at time t.
WindowOf(all, s, t) ==
  {e \in all : /\ e.request.scope.scope_id = s.scope_id
               /\ e.checked >= t - s.rate_window_seconds}

LEMMA WindowGrows ==
  ASSUME NEW A, NEW B, A \subseteq B, IsFiniteSet(B), NEW s, NEW t
  PROVE  /\ IsFiniteSet(WindowOf(B, s, t)) /\ IsFiniteSet(WindowOf(A, s, t))
         /\ Cardinality(WindowOf(A, s, t)) <= Cardinality(WindowOf(B, s, t))
         /\ Cardinality(WindowOf(A, s, t)) \in Nat
         /\ Cardinality(WindowOf(B, s, t)) \in Nat
<1>1. WindowOf(B, s, t) \subseteq B /\ WindowOf(A, s, t) \subseteq WindowOf(B, s, t)
  BY DEF WindowOf
<1> QED
  BY <1>1, FS_Subset, FS_CardinalityType

LEMMA ConsumingIsFinite == Finite => IsFiniteSet(Consuming)
  BY FS_Subset DEF Finite, Consuming, Performed

\* The effects of p's scope fill its window.
Filled(p) ==
  Cardinality(WindowOf(Consuming, req[p].scope, effectNow[p]))
    >= req[p].scope.max_effects_per_window

LimitedWhenFilled ==
  \A p \in Callers :
    Active(p) /\ result[p].reason = "scope_rate_limit_exceeded" => Filled(p)

LEMMA LimitIsFilled == LimitedWhenFilled => RateLimitedByOwnEffects
<1>1. ASSUME NEW s, NEW t
      PROVE  {e \in Consumers(s.scope_id) : e.checked >= t - s.rate_window_seconds}
               = WindowOf(Consuming, s, t)
  BY DEF Consumers, Consuming, WindowOf
<1> QED
  BY <1>1 DEF RateLimitedByOwnEffects, LimitedWhenFilled, Filled

\* Only the rate budget answers with that reason.
LEMMA OnlyBudgetLimits ==
  ASSUME TypeOK, Progress, NEW p \in Callers, Submit(p) \/ Step(p) \/ Fails(p),
         Active(p)', result'[p].reason = "scope_rate_limit_exceeded"
  PROVE  \/ CheckBudget(p) /\ result'[p] # result[p]
         \/ Active(p) /\ UNCHANGED <<result, req, effectNow>>
<1> USE DEF TypeOK, Active, Goto, ReturnWith, NoResult, Rejected, Paused, Raised,
            Approved, Committed
<1>1. CASE Submit(p)
  BY <1>1 DEF Submit, AdmissionRejection, Progress
<1>2. CASE Lookup(p)
  BY <1>2 DEF Lookup
<1>3. CASE Lock(p) \/ PrepareRefuses(p) \/ CommitRefused(p)
  BY <1>3 DEF Lock, PrepareRefuses, GivesUp, CommitRefused
<1>4. CASE Authorize(p)
  <2>1. Verdict(req[p], clock) # "scope_rate_limit_exceeded"
    BY DEF Verdict, ApprovalVerdict, ApprovalRejectionReason
  <2> QED
    BY <1>4, <2>1 DEF Authorize
<1>5. CASE CheckBudget(p)
  BY <1>5 DEF CheckBudget, Progress, BeforeCommit
<1>6. CASE HandOver(p)
  BY <1>6 DEF HandOver
<1>7. CASE Commit(p)
  BY <1>7 DEF Commit
<1>8. CASE RecordKey(p) \/ ReadRate(p) \/ WriteRate(p) \/ RateError(p)
  BY <1>8 DEF RecordKey, ReadRate, WriteRate, RateError
<1>9. CASE Return(p) \/ Crash(p)
  BY <1>9 DEF Return, Crash, Leave
<1>10. CASE LockError(p) \/ LookupError(p) \/ BudgetError(p)
  BY <1>10 DEF LockError, LookupError, BudgetError
<1>11. CASE CommitUnverified(p)
  BY <1>11 DEF CommitUnverified, GivesUp
<1> QED
  BY <1>1, <1>2, <1>3, <1>4, <1>5, <1>6, <1>7, <1>8, <1>9, <1>10, <1>11 DEF Step, Fails

\* What the runtime is meant for: one scope to a sandbox root.
OneScopeId == \A r, q \in Requests : r.scope.scope_id = q.scope.scope_id

\* What the budget check counts are effects of the caller's scope.
LEMMA CountedAreConsumed ==
  ASSUME OneScopeId, BudgetInvariant, Finite, NEW p \in Callers, pc[p] # "idle"
  PROVE  Cardinality(InWindow(rate, req[p].scope, clock))
           <= Cardinality(WindowOf(Consuming, req[p].scope, clock))
<1> DEFINE s == req[p].scope
           E == InWindow(rate, s, clock)
           W == WindowOf(Consuming, s, clock)
<1>1. IsFiniteSet(W)
  BY ConsumingIsFinite, WindowGrows
<1>2. req[p] \in Requests
  BY DEF BudgetInvariant, RuntimeInvariant, TypeOK
<1>3. ASSUME NEW x \in E PROVE \E e \in W : e.call = x.effect
  <2>1. x \in rate /\ x.ts >= clock - s.rate_window_seconds
    BY DEF InWindow
  <2>2. PICK e \in Consuming : e.call = x.effect /\ e.checked = x.ts
    BY <2>1 DEF BudgetInvariant, RateBacked, Backed
  <2>3. e.request \in Requests
    BY DEF BudgetInvariant, EffectsApart, Consuming, Performed
  <2> QED
    BY <1>2, <2>1, <2>2, <2>3 DEF WindowOf, OneScopeId
<1>4. \A x, y \in E : x.effect = y.effect => x = y
  BY BudgetCounts DEF BudgetNeverOvercounts, InWindow
<1> HIDE DEF E, W
<1> QED
  BY <1>1, <1>3, <1>4, FewerEvents DEF E, W

\* Over a root with one scope, a caller refused for its rate has, at the time
\* of the refusal, as many effects of its own scope in the window as its cap.
THEOREM RuntimeLimitedByOwnEffects ==
  ASSUME OneScopeId
  PROVE  Spec => []RateLimitedByOwnEffects
<1>1. BudgetInvariant /\ Finite /\ Finite' /\ LimitedWhenFilled /\ [Next]_vars
        => LimitedWhenFilled'
  <2> SUFFICES ASSUME BudgetInvariant, Finite, Finite', LimitedWhenFilled,
                      [Next]_vars, NEW q \in Callers, Active(q)',
                      result'[q].reason = "scope_rate_limit_exceeded"
               PROVE  Filled(q)'
    BY DEF LimitedWhenFilled
  <2> USE DEF BudgetInvariant, RuntimeInvariant
  <2>1. ASSUME Active(q), result'[q] = result[q], req'[q] = req[q],
               effectNow'[q] = effectNow[q]
        PROVE  Filled(q)'
    <3>1. Filled(q)
      BY <2>1 DEF LimitedWhenFilled
    <3>2. Consuming \subseteq Consuming' /\ IsFiniteSet(Consuming')
      BY ConsumingGrows, FS_Subset DEF Finite, Consuming, Performed
    <3>3. req[q].scope.max_effects_per_window \in Int
      BY <2>1, RequestAssumption DEF TypeOK, Active
    <3> QED
      BY <2>1, <3>1, <3>2, <3>3, WindowGrows DEF Filled
  <2>2. ASSUME NEW p \in Callers, Submit(p) \/ Step(p) \/ Fails(p), p # q
        PROVE  Filled(q)'
    BY <2>1, <2>2, OneCallerMoves DEF OthersWait, Active
  <2>3. ASSUME CheckBudget(q), result'[q] # result[q] PROVE Filled(q)'
    <3>1. /\ Cardinality(InWindow(rate, req[q].scope, clock))
               >= req[q].scope.max_effects_per_window
          /\ effectNow'[q] = clock /\ req' = req /\ Consuming' = Consuming
          /\ pc[q] # "idle"
      BY <2>3 DEF CheckBudget, StaysPut, Consuming, TypeOK
    <3>2. /\ req[q].scope.max_effects_per_window \in Int
          /\ Cardinality(InWindow(rate, req[q].scope, clock)) \in Nat
          /\ Cardinality(WindowOf(Consuming, req[q].scope, clock)) \in Nat
      <4>1. req[q] \in Requests
        BY <3>1 DEF TypeOK
      <4>2. InWindow(rate, req[q].scope, clock) \in SUBSET rate
        BY DEF InWindow
      <4> QED
        BY <4>1, <4>2, RequestAssumption, FS_Subset, FS_CardinalityType,
           ConsumingIsFinite, WindowGrows
        DEF Finite
    <3> QED
      BY <3>1, <3>2, CountedAreConsumed DEF Filled
  <2>4. CASE Tick \/ UNCHANGED vars
    BY <2>1, <2>4 DEF Tick, vars, local, Active
  <2>5. ASSUME Submit(q) \/ Step(q) \/ Fails(q) PROVE Filled(q)'
    BY <2>1, <2>3, <2>5, OnlyBudgetLimits
  <2> QED
    BY <2>2, <2>4, <2>5 DEF Next
<1>2. Init => LimitedWhenFilled
  BY DEF Init, LimitedWhenFilled, Active
<1>3. Init => Finite
  BY FiniteInit
<1>4. BudgetInvariant /\ Finite /\ [Next]_vars => Finite'
  BY FiniteStep DEF BudgetInvariant, RuntimeInvariant
<1> QED
  BY <1>1, <1>2, <1>3, <1>4, LimitIsFilled, BudgetInvariantHolds, PTL DEF Spec
-----------------------------------------------------------------------------
(* One caller at a time over a root with one scope, and neither a death nor *)
(* a failed rewrite of the rate ledger between an effect and its event: the *)
(* ledger then has every effect still in the window, and the cap holds.     *)

OneAtATime ==
  /\ \A p, q \in Callers : p = q
  /\ \A r, q \in Requests : r.scope = q.scope
  /\ {"crash", "rate_error"} \cap Faults = {}

EventOf(e) == RateEvent(e.request, e.call, e.checked)

\* Out of the window at the present time, and at every later one.
Lapsed(e) == e.checked < clock - e.request.scope.rate_window_seconds

\* An effect that counts is in the ledger until it lapses, or its caller is
\* still on its way there.
NothingLost ==
  \A e \in Consuming :
    Budgeted(e.request) =>
      \/ EventOf(e) \in rate
      \/ Lapsed(e)
      \/ \E p \in Callers : pc[p] \in AfterCommit /\ call[p] = e.call

\* What a caller is about to write back has all the others.
KeptAll ==
  \A p \in Callers :
    pc[p] = "rate_write" =>
      \A e \in Consuming :
        Budgeted(e.request) => EventOf(e) \in kept[p] \/ Lapsed(e) \/ e.call = call[p]

\* At its commit a caller is the latest there is, and its window has room.
HasRoom ==
  \A p \in Callers :
    pc[p] = "commit" /\ Budgeted(req[p]) =>
      /\ \A e \in Performed : e.checked <= effectNow[p]
      /\ Cardinality(WindowOf(Consuming, req[p].scope, effectNow[p]))
           < req[p].scope.max_effects_per_window

\* The effects of all that were checked up to t in the window that ends at t.
UpTo(all, s, t) ==
  {f \in all : /\ f.request.scope.scope_id = s.scope_id
               /\ t - s.rate_window_seconds <= f.checked /\ f.checked <= t}

\* The budget, for the checks: no window has more than the cap of them.
ChecksHeld ==
  \A r \in Requests, t \in Nat :
    Budgeted(r) =>
      Cardinality(UpTo(Consuming, r.scope, t)) <= r.scope.max_effects_per_window

SequentialInvariant ==
  BudgetInvariant /\ Finite /\ NothingLost /\ KeptAll /\ HasRoom /\ ChecksHeld

\* The fields of requests that are compared.
LEMMA BudgetsAreNumbers ==
  ASSUME NEW r \in Requests
  PROVE  r.scope.max_effects_per_window \in Int /\ r.scope.rate_window_seconds \in Int
  BY RequestAssumption

\* The facts about effects the steps below keep needing.
LEMMA EffectFacts ==
  ASSUME BudgetInvariant, NEW e \in Consuming
  PROVE  /\ e \in Performed /\ e.request \in Requests /\ e.checked \in Nat /\ e.checked <= clock
         /\ clock \in Nat /\ e.request.scope.rate_window_seconds \in Int
<1>1. e \in Performed
  BY DEF Consuming, Performed
<1>2. /\ e.request \in Requests /\ clock \in Nat
      /\ e.done \in 0..clock /\ e.checked \in 0..e.done
  BY <1>1 DEF BudgetInvariant, RuntimeInvariant, EffectsApart, TypeOK
<1> QED
  BY <1>1, <1>2, BudgetsAreNumbers

\* The effect of a caller on its way to the rate ledger is the one it writes.
LEMMA OwnEffect ==
  ASSUME BudgetInvariant, NEW p \in Callers, pc[p] \in AfterCommit,
         NEW e \in Consuming, e.call = call[p]
  PROVE  e.request = req[p] /\ EventOf(e) = RateEvent(req[p], call[p], effectNow[p])
<1>1. PICK f \in Consuming : f.call = call[p] /\ f.checked = effectNow[p] /\ f.request = req[p]
  BY DEF BudgetInvariant, Spent
<1>2. e = f
  BY <1>1 DEF BudgetInvariant, EffectsApart, Consuming, Performed
<1> QED
  BY <1>1, <1>2 DEF EventOf

\* A caller on its way to the rate ledger gets there, or goes on.
LEMMA StaysOnItsWay ==
  ASSUME OneAtATime, TypeOK, NEW p \in Callers, Submit(p) \/ Step(p) \/ Fails(p),
         pc[p] \in AfterCommit, Budgeted(req[p])
  PROVE  WriteRate(p) \/ (pc'[p] \in AfterCommit /\ call' = call)
<1> USE DEF AfterCommit, Goto, TypeOK
<1>1. ~Crash(p) /\ ~RateError(p)
  BY DEF OneAtATime, Crash, RateError, Fault
<1>2. CASE RecordKey(p) \/ ReadRate(p)
  BY <1>2 DEF RecordKey, ReadRate, AfterEffect
<1>3. CASE ~(RecordKey(p) \/ ReadRate(p) \/ WriteRate(p))
  BY <1>1, <1>3
  DEF Submit, Step, Fails, Lock, LockError, Lookup, LookupError, PrepareRefuses, GivesUp,
      Authorize, CheckBudget, BudgetError, HandOver, Commit, CommitRefused,
      CommitUnverified, Return
<1> QED
  BY <1>2, <1>3

LEMMA LapsedForGood ==
  ASSUME BudgetInvariant, [Next]_vars, NEW e \in Consuming, Lapsed(e)
  PROVE  Lapsed(e)'
<1>1. clock' = clock \/ clock' = clock + 1
  <2>1. ASSUME NEW p \in Callers, Submit(p) \/ Step(p) \/ Fails(p) PROVE clock' = clock
    BY <2>1, CallMoves DEF BudgetInvariant, RuntimeInvariant
  <2>2. CASE Tick \/ UNCHANGED vars
    BY <2>2 DEF Tick, vars
  <2> QED
    BY <2>1, <2>2 DEF Next
<1>2. /\ e.checked \in Nat /\ clock \in Nat /\ e.request.scope.rate_window_seconds \in Int
  BY EffectFacts
<1> QED
  BY <1>1, <1>2 DEF Lapsed

\* What counts after a step is what did, or the effect of a caller that now has
\* it to write.
LEMMA NewlyConsuming ==
  ASSUME TypeOK, NEW p \in Callers, Submit(p) \/ Step(p) \/ Fails(p),
         NEW e \in Consuming' \ Consuming
  PROVE  /\ HandOver(p) \/ Commit(p)
         /\ e.call = call[p] /\ e.request = req[p] /\ call' = call
<1>1. HandOver(p) \/ Commit(p) \/ CommitUnverified(p)
  BY DEF Consuming, Submit, Step, Fails, Lock, LockError, Lookup, LookupError,
      PrepareRefuses, GivesUp, Authorize, CheckBudget, BudgetError, CommitRefused, RecordKey,
      ReadRate, WriteRate, RateError, Return, Crash, Leave, StaysPut
<1>2. CASE HandOver(p)
  BY <1>2 DEF HandOver, Consuming, Effect
<1>3. CASE Commit(p)
  BY <1>3 DEF Commit, Consuming, Effect
<1>4. CASE CommitUnverified(p)
  BY <1>4 DEF CommitUnverified, GivesUp, Consuming, Effect
<1> QED
  BY <1>1, <1>2, <1>3, <1>4

LEMMA NothingLostStep ==
  ASSUME OneAtATime, SequentialInvariant, [Next]_vars
  PROVE  NothingLost'
<1> USE DEF SequentialInvariant
<1>0. TypeOK
  BY DEF BudgetInvariant, RuntimeInvariant
<1> SUFFICES ASSUME NEW e \in Consuming', Budgeted(e.request), ~Lapsed(e)'
             PROVE  \/ EventOf(e) \in rate'
                    \/ \E p \in Callers : pc'[p] \in AfterCommit /\ call'[p] = e.call
  BY DEF NothingLost, EventOf
<1>1. e \in Consuming => ~Lapsed(e)
  BY LapsedForGood
<1>2. ASSUME NEW p \in Callers, Submit(p) \/ Step(p) \/ Fails(p)
      PROVE  \/ EventOf(e) \in rate'
             \/ \E q \in Callers : pc'[q] \in AfterCommit /\ call'[q] = e.call
  <2>1. CASE e \notin Consuming
    <3>1. /\ HandOver(p) \/ Commit(p)
          /\ e.call = call[p] /\ e.request = req[p] /\ call' = call
      BY <1>0, <1>2, <2>1, NewlyConsuming
    <3>2. pc'[p] \in AfterCommit
      BY <1>0, <3>1 DEF HandOver, Commit, AfterEffect, AfterCommit, Goto, TypeOK
    <3> QED
      BY <3>1, <3>2
  <2>2. CASE e \in Consuming /\ EventOf(e) \in rate
    <3>1. CASE WriteRate(p)
      <4>1. \/ EventOf(e) \in kept[p]
            \/ EventOf(e) = RateEvent(req[p], call[p], effectNow[p])
        BY <1>1, <2>2, <3>1, OwnEffect DEF WriteRate, KeptAll, AfterCommit
      <4> QED
        BY <3>1, <4>1 DEF WriteRate
    <3>2. CASE ~WriteRate(p)
      BY <1>0, <1>2, <2>2, <3>2, KeptMoves
    <3> QED
      BY <3>1, <3>2
  <2>3. CASE /\ e \in Consuming
             /\ \E q \in Callers : pc[q] \in AfterCommit /\ call[q] = e.call
    <3>1. pc[p] \in AfterCommit /\ call[p] = e.call
      BY <2>3 DEF OneAtATime
    <3>2. /\ e.request = req[p]
          /\ EventOf(e) = RateEvent(req[p], call[p], effectNow[p])
      BY <2>3, <3>1, OwnEffect
    <3>3. WriteRate(p) \/ (pc'[p] \in AfterCommit /\ call' = call)
      BY <1>0, <1>2, <3>1, <3>2, StaysOnItsWay
    <3> QED
      BY <3>1, <3>2, <3>3 DEF WriteRate
  <2> QED
    BY <1>1, <2>1, <2>2, <2>3 DEF NothingLost
<1>3. CASE Tick \/ UNCHANGED vars
  <2>1. /\ Consuming' = Consuming /\ rate' = rate
        /\ UNCHANGED <<pc, call>>
    BY <1>3 DEF Tick, vars, local, Consuming
  <2> QED
    BY <1>1, <2>1 DEF NothingLost
<1> QED
  BY <1>2, <1>3 DEF Next

LEMMA KeptAllStep ==
  ASSUME OneAtATime, SequentialInvariant, [Next]_vars
  PROVE  KeptAll'
<1> USE DEF SequentialInvariant
<1>0. TypeOK
  BY DEF BudgetInvariant, RuntimeInvariant
<1> SUFFICES ASSUME NEW p \in Callers, pc'[p] = "rate_write",
                    NEW e \in Consuming', Budgeted(e.request), ~Lapsed(e)'
             PROVE  EventOf(e) \in kept'[p] \/ e.call = call'[p]
  BY DEF KeptAll, EventOf
<1>1. e \in Consuming => ~Lapsed(e)
  BY LapsedForGood
<1>2. CASE ReadRate(p)
  <2>1. /\ Consuming' = Consuming /\ call' = call /\ pc[p] = "rate_read"
        /\ kept'[p] = InWindow(rate, req[p].scope, effectNow[p])
    BY <1>0, <1>2 DEF ReadRate, StaysPut, Consuming, TypeOK
  <2>2. CASE EventOf(e) \in rate
    <3>1. req[p] \in Requests /\ effectNow[p] \in Nat /\ effectNow[p] <= clock
      BY <1>0, <2>1 DEF TypeOK
    <3>2. /\ e.request \in Requests /\ e.checked \in Nat /\ clock \in Nat
          /\ e.request.scope.rate_window_seconds \in Int
      BY <2>1, EffectFacts
    <3>3. e.request.scope = req[p].scope
      BY <3>1, <3>2 DEF OneAtATime
    <3>4. e.checked >= effectNow[p] - req[p].scope.rate_window_seconds
      BY <1>1, <2>1, <3>1, <3>2, <3>3 DEF Lapsed
    <3> QED
      BY <2>1, <2>2, <3>4 DEF InWindow, EventOf, RateEvent
  <2>3. CASE \E q \in Callers : pc[q] \in AfterCommit /\ call[q] = e.call
    BY <2>1, <2>3 DEF OneAtATime
  <2> QED
    BY <1>1, <2>1, <2>2, <2>3 DEF NothingLost
<1>3. CASE /\ pc[p] = "rate_write" /\ Consuming' = Consuming
           /\ UNCHANGED <<kept, call>>
  BY <1>1, <1>3 DEF KeptAll
<1>4. ASSUME Submit(p) \/ Step(p) \/ Fails(p) PROVE ReadRate(p)
  BY <1>0, <1>4
  DEF TypeOK, Goto, ReturnWith, AfterEffect, Submit, Step, Fails, Lock, LockError,
      Lookup, LookupError, PrepareRefuses, GivesUp, Authorize, CheckBudget, BudgetError, HandOver,
      Commit, CommitRefused, CommitUnverified, RecordKey, WriteRate, RateError, Return,
      Crash, Leave
<1>5. CASE Tick \/ UNCHANGED vars
  BY <1>3, <1>5 DEF Tick, vars, local, Consuming
<1>6. \A q \in Callers : q = p
  BY DEF OneAtATime
<1> QED
  BY <1>2, <1>4, <1>5, <1>6 DEF Next

LEMMA HasRoomStep ==
  ASSUME OneAtATime, SequentialInvariant, [Next]_vars
  PROVE  HasRoom'
<1> USE DEF SequentialInvariant
<1>0. TypeOK
  BY DEF BudgetInvariant, RuntimeInvariant
<1> SUFFICES ASSUME NEW p \in Callers, pc'[p] = "commit", Budgeted(req'[p])
             PROVE  /\ \A e \in Performed' : e.checked <= effectNow'[p]
                    /\ Cardinality(WindowOf(Consuming', req'[p].scope, effectNow'[p]))
                         < req'[p].scope.max_effects_per_window
  BY DEF HasRoom
<1>1. CASE /\ pc[p] = "commit" /\ Performed' = Performed /\ Consuming' = Consuming
           /\ UNCHANGED <<req, effectNow>>
  BY <1>1 DEF HasRoom
<1>2. CASE CheckBudget(p)
  <2> DEFINE s == req[p].scope
             E == InWindow(rate, s, clock)
             W == WindowOf(Consuming, s, clock)
  <2>1. /\ Performed' = Performed /\ Consuming' = Consuming /\ req' = req
        /\ effectNow'[p] = clock /\ pc[p] = "budget"
        /\ ~(Cardinality(E) >= s.max_effects_per_window)
    BY <1>0, <1>2
    DEF CheckBudget, StaysPut, Performed, Consuming, TypeOK, ReturnWith, Goto
  <2>2. \A e \in Performed : e.checked <= clock
    BY <1>0 DEF BudgetInvariant, EffectsApart, TypeOK
  <2>3. req[p] \in Requests
    BY <1>0, <2>1 DEF TypeOK
  <2>4. IsFiniteSet(E)
    BY FS_Subset DEF InWindow, Finite
  <2>5. ASSUME NEW e \in W PROVE \E x \in E : x.effect = e.call
    <3>1. e \in Consuming /\ e.checked >= clock - s.rate_window_seconds
      BY DEF WindowOf
    <3>2. /\ e.request \in Requests /\ e.checked \in Nat /\ clock \in Nat
          /\ e.request.scope.rate_window_seconds \in Int
      BY <3>1, EffectFacts
    <3>3. e.request.scope = s
      BY <2>3, <3>2 DEF OneAtATime
    <3>4. Budgeted(e.request)
      BY <2>1, <3>3 DEF Budgeted
    <3>5. ~Lapsed(e)
      BY <3>1, <3>2, <3>3 DEF Lapsed
    <3>6. \A q \in Callers : pc[q] \notin AfterCommit
      BY <2>1 DEF OneAtATime, AfterCommit
    <3>7. EventOf(e) \in rate
      BY <3>1, <3>4, <3>5, <3>6 DEF NothingLost
    <3>8. EventOf(e) \in E
      BY <3>1, <3>7 DEF InWindow, EventOf, RateEvent
    <3> QED
      BY <3>8 DEF EventOf, RateEvent
  <2>6. \A e, f \in W : e.call = f.call => e = f
    BY DEF BudgetInvariant, EffectsApart, WindowOf, Consuming, Performed
  <2>7. Cardinality(W) <= Cardinality(E)
    <3> HIDE DEF W, E
    <3> QED
      BY <2>4, <2>5, <2>6, FewerEffects
  <2>8. Cardinality(W) \in Nat /\ Cardinality(E) \in Nat
    BY <2>4, FS_CardinalityType, ConsumingIsFinite, WindowGrows
  <2>9. s.max_effects_per_window \in Int
    BY <2>3, BudgetsAreNumbers
  <2>10. Cardinality(W) < s.max_effects_per_window
    <3> HIDE DEF W, E, s
    <3> QED
      BY <2>1, <2>7, <2>8, <2>9
  <2> QED
    BY <2>1, <2>2, <2>10
<1>3. ASSUME Submit(p) \/ Step(p) \/ Fails(p) PROVE CheckBudget(p)
  BY <1>0, <1>3
  DEF TypeOK, Goto, ReturnWith, AfterEffect, Submit, Step, Fails, Lock, LockError,
      Lookup, LookupError, PrepareRefuses, GivesUp, Authorize, CheckBudget, BudgetError, HandOver,
      Commit, CommitRefused, CommitUnverified, RecordKey, ReadRate, WriteRate, RateError,
      Return, Crash, Leave
<1>4. CASE Tick \/ UNCHANGED vars
  BY <1>1, <1>4 DEF Tick, vars, local, Consuming, Performed
<1>5. \A q \in Callers : q = p
  BY DEF OneAtATime
<1> QED
  BY <1>2, <1>3, <1>4, <1>5 DEF Next

LEMMA ChecksHeldStep ==
  ASSUME OneAtATime, SequentialInvariant, [Next]_vars
  PROVE  ChecksHeld'
<1> USE DEF SequentialInvariant
<1>0. TypeOK
  BY DEF BudgetInvariant, RuntimeInvariant
<1>1. CASE UNCHANGED <<world, custody>>
  BY <1>1 DEF ChecksHeld, Consuming
<1>2. ASSUME NEW p \in Callers, HandOver(p) \/ Commit(p) \/ CommitUnverified(p),
             NEW r \in Requests, NEW t \in Nat, Budgeted(r)
      PROVE  Cardinality(UpTo(Consuming', r.scope, t)) <= r.scope.max_effects_per_window
  <2>1. PICK n : /\ n.checked = effectNow[p]
                 /\ Consuming \subseteq Consuming' /\ Consuming' \subseteq Consuming \cup {n}
    <3>1. CASE HandOver(p)
      BY <3>1 DEF HandOver, Consuming, Effect
    <3>2. CASE Commit(p)
      BY <3>2 DEF Commit, Consuming, Effect
    <3>3. CASE CommitUnverified(p)
      BY <3>3 DEF CommitUnverified, GivesUp, Consuming, Effect
    <3> QED
      BY <1>2, <3>1, <3>2, <3>3
  <2>2. pc[p] = "commit" /\ req[p] \in Requests /\ effectNow[p] \in Nat
    <3>1. pc[p] = "commit"
      BY <1>2 DEF HandOver, Commit, CommitUnverified, GivesUp
    <3> QED
      BY <1>0, <3>1 DEF TypeOK
  <2> DEFINE s == r.scope
             W == WindowOf(Consuming, s, effectNow[p])
  <2>3. s = req[p].scope /\ s.max_effects_per_window \in Int /\ s.rate_window_seconds \in Int
    BY <2>2, BudgetsAreNumbers DEF OneAtATime
  <2>4. Cardinality(W) < s.max_effects_per_window
    BY <1>2, <2>2, <2>3 DEF HasRoom, Budgeted
  <2>5. CASE t < effectNow[p]
    <3>1. n \notin UpTo(Consuming', s, t)
      BY <2>1, <2>2, <2>5 DEF UpTo
    <3>2. UpTo(Consuming', s, t) = UpTo(Consuming, s, t)
      BY <2>1, <3>1 DEF UpTo
    <3> QED
      BY <1>2, <3>2 DEF ChecksHeld
  <2>6. CASE ~(t < effectNow[p])
    <3>1. UpTo(Consuming', s, t) \subseteq W \cup {n}
      <4> SUFFICES ASSUME NEW f \in UpTo(Consuming', s, t), f # n PROVE f \in W
        OBVIOUS
      <4>1. /\ f \in Consuming /\ f.request.scope.scope_id = s.scope_id
            /\ t - s.rate_window_seconds <= f.checked
        BY <2>1 DEF UpTo
      <4>2. f.checked \in Nat
        BY <4>1, EffectFacts
      <4>3. f.checked >= effectNow[p] - s.rate_window_seconds
        <5> HIDE DEF s
        <5> QED
          BY <2>2, <2>3, <2>6, <4>1, <4>2
      <4> QED
        BY <4>1, <4>3 DEF WindowOf
    <3>2. IsFiniteSet(W) /\ Cardinality(W) \in Nat
      BY ConsumingIsFinite, WindowGrows
    <3> HIDE DEF W, s
    <3>3. /\ IsFiniteSet(W \cup {n})
          /\ Cardinality(W \cup {n}) <= Cardinality(W) + 1
          /\ Cardinality(W \cup {n}) \in Nat
      <4>1. /\ IsFiniteSet(W \cup {n})
            /\ Cardinality(W \cup {n}) =
                 IF n \in W THEN Cardinality(W) ELSE Cardinality(W) + 1
        BY <3>2, FS_AddElement
      <4> QED
        BY <3>2, <4>1
    <3>4. /\ Cardinality(UpTo(Consuming', s, t)) <= Cardinality(W \cup {n})
          /\ Cardinality(UpTo(Consuming', s, t)) \in Nat
      BY <3>1, <3>3, FS_Subset, FS_CardinalityType
    <3>5. Cardinality(UpTo(Consuming', s, t)) <= s.max_effects_per_window
      BY <2>3, <2>4, <3>2, <3>3, <3>4
    <3> QED
      BY <3>5 DEF s
  <2> QED
    BY <2>5, <2>6
<1>3. ASSUME NEW p \in Callers, Submit(p) \/ Step(p) \/ Fails(p)
      PROVE  \/ HandOver(p) \/ Commit(p) \/ CommitUnverified(p)
             \/ UNCHANGED <<world, custody>>
  BY <1>3
  DEF Submit, Step, Fails, Lock, LockError, Lookup, LookupError, PrepareRefuses, GivesUp,
      Authorize, CheckBudget, BudgetError, CommitRefused, RecordKey, ReadRate,
      WriteRate, RateError, Return, Crash, Leave, StaysPut
<1>4. CASE Tick \/ UNCHANGED vars
  BY <1>1, <1>4 DEF Tick, vars
<1> QED
  BY <1>1, <1>2, <1>3, <1>4 DEF Next, ChecksHeld

\* What was done in a window shortened by the longest delay was checked in the
\* whole of it.
LEMMA ChecksBoundEffects ==
  ASSUME OneAtATime, SequentialInvariant
  PROVE  BudgetHeldUpToDelay
<1> USE DEF SequentialInvariant
<1>0. clock \in Nat
  BY DEF BudgetInvariant, RuntimeInvariant, TypeOK
<1> SUFFICES ASSUME NEW e \in Performed, NEW d \in 0..clock, Budgeted(e.request),
                    \A f \in Consumers(e.request.scope.scope_id) :
                      f.done - f.checked <= d
             PROVE  Cardinality(DoneWithin(e.request.scope.scope_id, e.done,
                                           e.request.scope.rate_window_seconds - d))
                      <= e.request.scope.max_effects_per_window
  BY DEF BudgetHeldUpToDelay, Performed, Budgeted
<1> DEFINE s == e.request.scope
           D == DoneWithin(s.scope_id, e.done, s.rate_window_seconds - d)
           U == UpTo(Consuming, s, e.done)
<1>1. e.request \in Requests /\ e.done \in Nat
  BY <1>0 DEF BudgetInvariant, EffectsApart
<1>2. s.max_effects_per_window \in Int /\ s.rate_window_seconds \in Int
  BY <1>1, BudgetsAreNumbers
<1>3. D \subseteq U
  <2> SUFFICES ASSUME NEW f \in D PROVE f \in U
    OBVIOUS
  <2>1. /\ f \in Consuming /\ f.request.scope.scope_id = s.scope_id
        /\ f \in Consumers(s.scope_id)
        /\ e.done - (s.rate_window_seconds - d) <= f.done /\ f.done <= e.done
    BY DEF DoneWithin, Consumers, Consuming
  <2>2. /\ f.done \in Nat /\ f.checked \in Nat /\ f.checked <= f.done
        /\ f.done - f.checked <= d
    BY <1>0, <2>1 DEF BudgetInvariant, EffectsApart, Performed, Consuming
  <2>3. e.done - s.rate_window_seconds <= f.checked /\ f.checked <= e.done
    <3> HIDE DEF s
    <3> QED
      BY <1>0, <1>1, <1>2, <2>1, <2>2
  <2> QED
    BY <2>1, <2>3 DEF UpTo
<1>4. IsFiniteSet(U)
  BY ConsumingIsFinite, FS_Subset DEF UpTo
<1>5. Cardinality(U) <= s.max_effects_per_window
  BY <1>1 DEF ChecksHeld
<1> HIDE DEF D, U, s
<1>6. /\ Cardinality(D) <= Cardinality(U)
      /\ Cardinality(D) \in Nat /\ Cardinality(U) \in Nat
  BY <1>3, <1>4, FS_Subset, FS_CardinalityType
<1>7. Cardinality(D) <= s.max_effects_per_window
  BY <1>2, <1>5, <1>6
<1> QED
  BY <1>7 DEF D, s

\* No trailing window shortened by the longest delay between a check and its
\* effect has more than max_effects_per_window effects, for any number of
\* calls, retries, refusals, failed checks and failed idempotency records, so
\* long as one caller at a time uses a root of one scope and no call dies or
\* fails to rewrite the ledger between its effect and its event.  Runs show a
\* delay breaking it for the whole window, and a second scope for the
\* shortened one; each other condition excludes a lost event.
THEOREM RuntimeHoldsBudget ==
  ASSUME OneAtATime
  PROVE  Spec => []BudgetHeldUpToDelay
<1>1. Init => NothingLost /\ KeptAll /\ HasRoom /\ ChecksHeld /\ Finite
  <2> SUFFICES ASSUME Init PROVE NothingLost /\ KeptAll /\ HasRoom /\ ChecksHeld
    BY FiniteInit
  <2>1. Consuming = {}
    BY DEF Init, Consuming
  <2>2. ChecksHeld
    BY <2>1, FS_EmptySet, BudgetsAreNumbers DEF ChecksHeld, UpTo, Budgeted
  <2> QED
    BY <2>1, <2>2 DEF Init, NothingLost, KeptAll, HasRoom
<1>2. SequentialInvariant /\ [Next]_vars => NothingLost' /\ KeptAll' /\ HasRoom'
  BY NothingLostStep, KeptAllStep, HasRoomStep
<1>3. SequentialInvariant /\ [Next]_vars => ChecksHeld'
  BY ChecksHeldStep
<1>4. SequentialInvariant /\ [Next]_vars => Finite'
  BY FiniteStep DEF SequentialInvariant, BudgetInvariant, RuntimeInvariant
<1>5. BudgetInvariant /\ Finite /\ NothingLost /\ KeptAll /\ HasRoom /\ ChecksHeld
        <=> SequentialInvariant
  BY DEF SequentialInvariant
<1>6. SequentialInvariant => BudgetHeldUpToDelay
  BY ChecksBoundEffects
<1> QED
  BY <1>1, <1>2, <1>3, <1>4, <1>5, <1>6, BudgetInvariantHolds, PTL DEF Spec
=============================================================================
