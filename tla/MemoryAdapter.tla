---------------------------- MODULE MemoryAdapter ----------------------------
(***************************************************************************)
(* memory.write (memory_adapter.py) for one target: prepare reads and      *)
(* validates the whole ledger file and numbers the new record; commit      *)
(* writes what prepare read plus the record to a temp file, validates that *)
(* and renames it over the ledger (anchored_atomic_write).  Between the    *)
(* two lie the approval and the rate budget, and no lock: writers with     *)
(* different idempotency keys, or none, overlap.                           *)
(***************************************************************************)
EXTENDS Sequences, Naturals

CONSTANTS Writers,
          MaxCalls   \* bound on calls made

ASSUME MemoryAssumption == MaxCalls \in Nat

VARIABLES pc,
          base,     \* existing_records, what prepare read
          record,   \* memory_record, what prepare built
          ledger,   \* the records of the target's .jsonl file
          written,  \* every record that was ever renamed into place
          acked,    \* every record whose commit was acknowledged
          calls     \* the number of calls made; a call's number is its record_id

vars == <<pc, base, record, ledger, written, acked, calls>>

NoRecord == [record_id |-> 0, version |-> 0]

\* validate_memory_record over a whole file: record i has version i.
Valid(records) == \A i \in DOMAIN records : records[i].version = i

Init == /\ pc = [w \in Writers |-> "idle"]
        /\ base = [w \in Writers |-> <<>>]
        /\ record = [w \in Writers |-> NoRecord]
        /\ ledger = <<>>
        /\ written = {}
        /\ acked = {}
        /\ calls = 0

Leave(w) == /\ pc' = [pc EXCEPT ![w] = "idle"]
            /\ base' = [base EXCEPT ![w] = <<>>]
            /\ record' = [record EXCEPT ![w] = NoRecord]

\* commit's candidate_records.
Candidate(w) == Append(base[w], record[w])

-----------------------------------------------------------------------------
(* Seeded faults: wrong versions of the actions below, not used.            *)

\* The record is appended to the file instead of the file being replaced.
ReplaceByAppending(w) ==
  /\ pc[w] = "prepared"
  /\ ledger' = Append(ledger, record[w])
  /\ written' = written \cup {record[w]}
  /\ pc' = [pc EXCEPT ![w] = "replaced"]
  /\ UNCHANGED <<base, record, acked, calls>>

\* Only the new record is written to the temp file.
ReplaceForgettingBase(w) ==
  /\ pc[w] = "prepared"
  /\ ledger' = <<record[w]>>
  /\ written' = written \cup {record[w]}
  /\ pc' = [pc EXCEPT ![w] = "replaced"]
  /\ UNCHANGED <<base, record, acked, calls>>

-----------------------------------------------------------------------------
\* prepare: an existing ledger that does not validate refuses the intent.
Prepare(w) ==
  /\ pc[w] = "idle"
  /\ calls < MaxCalls
  /\ calls' = calls + 1
  /\ Valid(ledger)
  /\ base' = [base EXCEPT ![w] = ledger]
  /\ record' = [record EXCEPT ![w] = [record_id |-> calls + 1,
                                      version |-> Len(ledger) + 1]]
  /\ pc' = [pc EXCEPT ![w] = "prepared"]
  /\ UNCHANGED <<ledger, written, acked>>

\* The call ends between prepare and commit: approval, budget, custody, a dry
\* run, or a temp file that could not be written.
GiveUp(w) ==
  /\ pc[w] = "prepared"
  /\ Leave(w)
  /\ UNCHANGED <<ledger, written, acked, calls>>

\* commit up to os.replace: the temp file validates and takes the ledger's name.
Replace(w) ==
  /\ pc[w] = "prepared"
  /\ Valid(Candidate(w))
  /\ ledger' = Candidate(w)
  /\ written' = written \cup {record[w]}
  /\ pc' = [pc EXCEPT ![w] = "replaced"]
  /\ UNCHANGED <<base, record, acked, calls>>

\* The commit evidence reaches the caller.
Acknowledge(w) ==
  /\ pc[w] = "replaced"
  /\ acked' = acked \cup {record[w]}
  /\ Leave(w)
  /\ UNCHANGED <<ledger, written, calls>>

\* The writer dies; a temp file it leaves has a name nobody reads.
Crash(w) ==
  /\ pc[w] # "idle"
  /\ Leave(w)
  /\ UNCHANGED <<ledger, written, acked, calls>>

Next == \E w \in Writers :
          Prepare(w) \/ GiveUp(w) \/ Replace(w) \/ Acknowledge(w) \/ Crash(w)

Spec == Init /\ [][Next]_vars

-----------------------------------------------------------------------------
\* The variables have their types, and the numbers of calls bound those of records.
TypeOK ==
  /\ pc \in [Writers -> {"idle", "prepared", "replaced"}]
  /\ base \in [Writers -> Seq([record_id : Nat, version : Nat])]
  /\ record \in [Writers -> [record_id : Nat, version : Nat]]
  /\ ledger \in Seq([record_id : Nat, version : Nat])
  /\ written \subseteq [record_id : 1..calls, version : Nat]
  /\ calls \in Nat
  /\ \A w \in Writers : pc[w] # "idle" => record[w].record_id \in 1..calls

\* However writers overlap and die, the ledger is one prepare accepts: its
\* versions count up from 1 and every record in it was committed whole.
LedgerReadable == /\ Valid(ledger)
                  /\ \A i \in DOMAIN ledger : ledger[i] \in written

\* An overlapping writer can replace records it has not seen, and no error
\* tells: but then two committed records have the same version.  While the
\* versions handed out are distinct, nothing committed is missing.
LossShowsInVersions ==
  (\A r, s \in written : r.version = s.version => r = s)
    => \A r \in written : \E i \in DOMAIN ledger : ledger[i] = r

\* "A committed memory write means the local memory ledger contains the
\* proposed record."
CommittedRecordsStay == \A r \in acked : \E i \in DOMAIN ledger : ledger[i] = r
=============================================================================
