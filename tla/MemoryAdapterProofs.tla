------------------------- MODULE MemoryAdapterProofs -------------------------
(* What overlapping memory writers can and cannot do to a ledger, for any    *)
(* number of writers and calls.                                              *)
EXTENDS MemoryAdapter, TLAPS

\* What a writer carries from prepare to commit was committed whole, is
\* numbered from 1, and its own record is new.
Carried ==
  \A w \in Writers :
    /\ \A i \in DOMAIN base[w] : base[w][i] \in written
    /\ Valid(base[w])
    /\ pc[w] = "prepared" =>
         /\ record[w].version = Len(base[w]) + 1
         /\ record[w] \notin written
         /\ record[w].record_id \in 1..calls
         /\ \A v \in Writers : pc[v] # "idle" /\ record[v].record_id = record[w].record_id
                                 => v = w

MemoryInvariant == TypeOK /\ Carried /\ LedgerReadable /\ LossShowsInVersions

LEMMA MemoryInit == Init => MemoryInvariant
  BY DEF Init, MemoryInvariant, TypeOK, Carried, LedgerReadable, LossShowsInVersions,
     NoRecord, Valid

-----------------------------------------------------------------------------
\* What a commit puts in place: what prepare read, then the record.
LEMMA CandidateIs ==
  ASSUME TypeOK, NEW w \in Writers
  PROVE  /\ Candidate(w) \in Seq([record_id : Nat, version : Nat])
         /\ DOMAIN Candidate(w) = 1..(Len(base[w]) + 1)
         /\ DOMAIN base[w] = 1..Len(base[w]) /\ Len(base[w]) \in Nat
         /\ \A i \in 1..Len(base[w]) : Candidate(w)[i] = base[w][i]
         /\ Candidate(w)[Len(base[w]) + 1] = record[w]
<1>1. base[w] \in Seq([record_id : Nat, version : Nat])
      /\ record[w] \in [record_id : Nat, version : Nat]
  BY DEF TypeOK
<1> QED
  BY <1>1 DEF Candidate

LEMMA TypeStep == MemoryInvariant /\ [Next]_vars => TypeOK'
<1> SUFFICES ASSUME TypeOK, Carried, [Next]_vars PROVE TypeOK'
  BY DEF MemoryInvariant
<1>1. ASSUME NEW w \in Writers, Prepare(w) PROVE TypeOK'
  <2>1. [record_id |-> calls + 1, version |-> Len(ledger) + 1]
          \in [record_id : Nat, version : Nat]
    BY DEF TypeOK
  <2>2. written \subseteq [record_id : 1..calls', version : Nat]
    BY <1>1 DEF Prepare, TypeOK
  <2> QED
    BY <1>1, <2>1, <2>2 DEF Prepare, TypeOK
<1>2. ASSUME NEW w \in Writers, Leave(w), UNCHANGED <<ledger, written, calls>>
      PROVE  TypeOK'
  <2>1. <<>> \in Seq([record_id : Nat, version : Nat])
        /\ NoRecord \in [record_id : Nat, version : Nat]
    BY DEF NoRecord
  <2> QED
    BY <1>2, <2>1 DEF Leave, TypeOK
<1>3. ASSUME NEW w \in Writers, Replace(w) PROVE TypeOK'
  <2>1. record[w] \in [record_id : 1..calls, version : Nat]
    BY <1>3 DEF Replace, TypeOK
  <2> QED
    BY <1>3, <2>1, CandidateIs DEF Replace, TypeOK
<1>4. CASE UNCHANGED vars
  BY <1>4 DEF vars, TypeOK
<1> QED
  BY <1>1, <1>2, <1>3, <1>4 DEF Next, GiveUp, Acknowledge, Crash

LEMMA CarriedStep == MemoryInvariant /\ [Next]_vars => Carried'
<1> SUFFICES ASSUME TypeOK, Carried, LedgerReadable, [Next]_vars PROVE Carried'
  BY DEF MemoryInvariant
<1>1. ASSUME NEW w \in Writers, Prepare(w) PROVE Carried'
  <2>1. /\ base'[w] = ledger
        /\ record'[w] = [record_id |-> calls + 1, version |-> Len(ledger) + 1]
        /\ \A v \in Writers \ {w} : base'[v] = base[v] /\ record'[v] = record[v]
                                    /\ pc'[v] = pc[v]
        /\ written' = written /\ calls' = calls + 1 /\ Valid(ledger)
    BY <1>1 DEF Prepare, TypeOK
  <2>2. \A v \in Writers : pc[v] # "idle" => record[v].record_id \in 1..calls
    BY DEF TypeOK
  <2>3. record'[w] \notin written
    BY <2>1 DEF TypeOK
  <2>4. \A v \in Writers : \A i \in DOMAIN base'[v] : base'[v][i] \in written
    BY <2>1 DEF Carried, LedgerReadable
  <2>5. \A v \in Writers : Valid(base'[v])
    BY <2>1 DEF Carried
  <2>6. calls \in Nat
    BY DEF TypeOK
  <2>7. ASSUME NEW v \in Writers, pc'[v] = "prepared", NEW u \in Writers,
               pc'[u] # "idle", record'[u].record_id = record'[v].record_id
        PROVE  u = v
    BY <2>1, <2>2, <2>6, <2>7 DEF Carried
  <2>8. ASSUME NEW v \in Writers, pc'[v] = "prepared"
        PROVE  /\ record'[v].version = Len(base'[v]) + 1
               /\ record'[v] \notin written
               /\ record'[v].record_id \in 1..(calls + 1)
    BY <2>1, <2>3, <2>6, <2>8 DEF Carried
  <2> QED
    BY <2>1, <2>4, <2>5, <2>7, <2>8 DEF Carried, Valid
<1>2. ASSUME NEW w \in Writers, Leave(w), UNCHANGED <<ledger, written, calls>>
      PROVE  Carried'
  <2>1. /\ base'[w] = <<>> /\ pc'[w] = "idle"
        /\ \A v \in Writers \ {w} : base'[v] = base[v] /\ record'[v] = record[v]
                                    /\ pc'[v] = pc[v]
    BY <1>2 DEF Leave, TypeOK
  <2>2. DOMAIN base'[w] = {}
    BY <2>1
  <2> QED
    BY <1>2, <2>1, <2>2 DEF Carried, Valid
<1>3. ASSUME NEW w \in Writers, Replace(w) PROVE Carried'
  <2>1. /\ base' = base /\ record' = record /\ calls' = calls
        /\ written' = written \cup {record[w]} /\ pc[w] = "prepared"
        /\ pc'[w] = "replaced" /\ \A v \in Writers \ {w} : pc'[v] = pc[v]
    BY <1>3 DEF Replace, TypeOK
  <2>2. ASSUME NEW v \in Writers, pc'[v] = "prepared" PROVE record[v] # record[w]
    BY <2>1, <2>2 DEF Carried
  <2> QED
    BY <2>1, <2>2 DEF Carried, Valid
<1>4. CASE UNCHANGED vars
  BY <1>4 DEF vars, Carried, Valid
<1> QED
  BY <1>1, <1>2, <1>3, <1>4 DEF Next, GiveUp, Acknowledge, Crash

-----------------------------------------------------------------------------
LEMMA LedgerReadableStep == MemoryInvariant /\ [Next]_vars => LedgerReadable'
<1> SUFFICES ASSUME TypeOK, Carried, LedgerReadable, [Next]_vars PROVE LedgerReadable'
  BY DEF MemoryInvariant
<1>1. ASSUME UNCHANGED <<ledger, written>> PROVE LedgerReadable'
  BY <1>1 DEF LedgerReadable, Valid
<1>2. ASSUME NEW w \in Writers, Replace(w) PROVE LedgerReadable'
  <2>1. /\ ledger' = Candidate(w) /\ Valid(Candidate(w))
        /\ written' = written \cup {record[w]}
    BY <1>2 DEF Replace
  <2>2. ASSUME NEW i \in DOMAIN Candidate(w) PROVE Candidate(w)[i] \in written'
    <3>1. i \in 1..Len(base[w]) \/ i = Len(base[w]) + 1
      BY CandidateIs
    <3>2. CASE i \in 1..Len(base[w])
      <4>1. i \in DOMAIN base[w] /\ Candidate(w)[i] = base[w][i]
        BY <3>2, CandidateIs
      <4>2. base[w][i] \in written
        BY <4>1 DEF Carried
      <4> QED
        BY <2>1, <4>1, <4>2
    <3> QED
      BY <2>1, <3>1, <3>2, CandidateIs
  <2> QED
    BY <2>1, <2>2 DEF LedgerReadable, Valid
<1> QED
  BY <1>1, <1>2 DEF Next, Prepare, GiveUp, Acknowledge, Crash, vars

\* The heart of the matter.  Suppose versions are distinct after a commit.  The
\* ledger it replaces is then no longer than what the writer read: a longer one
\* would hold a record with the new record's version.  And what it holds, the
\* writer read too: two committed records of one version are one record.
LEMMA LossShowsStep == MemoryInvariant /\ [Next]_vars => LossShowsInVersions'
<1> SUFFICES ASSUME TypeOK, Carried, LedgerReadable, LossShowsInVersions, [Next]_vars
             PROVE  LossShowsInVersions'
  BY DEF MemoryInvariant
<1>1. ASSUME UNCHANGED <<ledger, written>> PROVE LossShowsInVersions'
  BY <1>1 DEF LossShowsInVersions
<1>2. ASSUME NEW w \in Writers, Replace(w) PROVE LossShowsInVersions'
  <2>1. /\ ledger' = Candidate(w) /\ pc[w] = "prepared"
        /\ written' = written \cup {record[w]}
    BY <1>2 DEF Replace
  <2> SUFFICES ASSUME \A r, s \in written' : r.version = s.version => r = s,
                      NEW r \in written'
               PROVE  \E i \in DOMAIN ledger' : ledger'[i] = r
    BY DEF LossShowsInVersions
  <2>2. /\ record[w].version = Len(base[w]) + 1 /\ record[w] \notin written
        /\ \A i \in DOMAIN base[w] : base[w][i] \in written /\ base[w][i].version = i
    BY <2>1 DEF Carried, Valid
  <2>3. /\ \A i \in DOMAIN ledger : ledger[i] \in written /\ ledger[i].version = i
        /\ DOMAIN ledger = 1..Len(ledger) /\ Len(ledger) \in Nat
    BY DEF LedgerReadable, Valid, TypeOK
  <2>4. Len(ledger) <= Len(base[w])
    <3> SUFFICES ASSUME Len(base[w]) + 1 \in DOMAIN ledger PROVE FALSE
      BY <2>3, CandidateIs
    <3>1. ledger[Len(base[w]) + 1] = record[w]
      BY <2>1, <2>2, <2>3
    <3> QED
      BY <3>1, <2>2, <2>3
  <2>5. CASE r = record[w]
    BY <2>1, <2>5, CandidateIs
  <2>6. CASE r \in written
    <3>1. PICK i \in DOMAIN ledger : ledger[i] = r
      BY <2>1, <2>6 DEF LossShowsInVersions
    <3>2. i \in 1..Len(base[w]) /\ i \in DOMAIN base[w]
      BY <2>3, <2>4, CandidateIs
    <3>3. base[w][i] = r
      BY <2>1, <2>2, <2>3, <3>1, <3>2
    <3> QED
      BY <2>1, <3>2, <3>3, CandidateIs
  <2> QED
    BY <2>1, <2>5, <2>6
<1> QED
  BY <1>1, <1>2 DEF Next, Prepare, GiveUp, Acknowledge, Crash, vars

LEMMA MemoryStep == MemoryInvariant /\ [Next]_vars => MemoryInvariant'
  BY TypeStep, CarriedStep, LedgerReadableStep, LossShowsStep DEF MemoryInvariant

-----------------------------------------------------------------------------
\* However memory writers overlap, crash and are refused (memory_adapter.py:
\* 194-228 and 323-375), the ledger stays one that prepare accepts and holds
\* committed records only.
THEOREM MemoryLedgerReadable == Spec => []LedgerReadable
<1>1. MemoryInvariant => LedgerReadable
  BY DEF MemoryInvariant
<1> QED
  BY <1>1, MemoryInit, MemoryStep, PTL DEF Spec

\* What prepare reads and builds, what commit puts in place and the file itself
\* have their types.
THEOREM MemoryTypes == Spec => []TypeOK
<1>1. MemoryInvariant => TypeOK
  BY DEF MemoryInvariant
<1> QED
  BY <1>1, MemoryInit, MemoryStep, PTL DEF Spec

\* A committed record goes missing from the ledger only if two committed records
\* carry one version number: what the rename in anchored_atomic_write loses can
\* be told from the acknowledgements.
THEOREM MemoryLossShowsInVersions == Spec => []LossShowsInVersions
<1>1. MemoryInvariant => LossShowsInVersions
  BY DEF MemoryInvariant
<1> QED
  BY <1>1, MemoryInit, MemoryStep, PTL DEF Spec
=============================================================================
