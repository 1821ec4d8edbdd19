----------------------------- MODULE TraceLedger -----------------------------
(***************************************************************************)
(* The audit ledger of traces (append_trace_ledger): a trace is appended   *)
(* to traces.jsonl and then read back, from the tail of the file or, when  *)
(* others have appended since, from all of it.  Nothing locks the file:    *)
(* between the append and the read-back other appends may land, and an     *)
(* append that failed earlier may have left a fragment without a newline.  *)
(***************************************************************************)
EXTENDS JsonlLedger

\* A trace too long for the scope is refused before anything is written.
TraceFits(scope, trace) == trace.bytes <= scope.max_bytes

TraceAppended(ledger, scope, trace, outcome) ==
  IF TraceFits(scope, trace) THEN AppendTo(ledger, trace, outcome) ELSE ledger

\* The last bytes of the file are those of the trace and its newline.
TailIs(ledger, trace) ==
  /\ ledger.pieces # <<>>
  /\ ledger.pieces[Len(ledger.pieces)].record = trace
  /\ ~ledger.open

\* The scan skips lines that do not parse and needs no last newline.
Scanned(ledger, trace) == trace \in ReadableRecordsOf(ledger)

Verified(ledger, trace) == TailIs(ledger, trace) \/ Scanned(ledger, trace)

\* What the caller gets, the ledger being `later` when it is read back; a write
\* that is cut short raises.
TraceAnswer(later, scope, trace, outcome) ==
  IF ~TraceFits(scope, trace) THEN "input_too_large"
  ELSE IF outcome # Whole THEN "raises"
  ELSE IF Verified(later, trace) THEN "verified"
  ELSE "trace_ledger_read_back_mismatch"
=============================================================================
