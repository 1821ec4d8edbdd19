----------------------------- MODULE JsonlLedger -----------------------------
(***************************************************************************)
(* A JSON-lines file that is only appended to, as the runtime writes it:   *)
(* one write and one fsync, neither atomic nor undone when it fails.  What *)
(* a reader can tell apart is which records still parse, and whether the   *)
(* last line has its newline: an append after a missing newline runs two   *)
(* records together and neither can be read again.                         *)
(***************************************************************************)
EXTENDS Sequences, Naturals

\* The pieces ever written, in order, each with whether its line parses.
EmptyLedger == [pieces |-> <<>>, open |-> FALSE]

\* The outcomes of one append that put bytes into the file.
Whole == "whole"                \* record and newline
Unterminated == "unterminated"  \* the record, not its newline
Torn == "torn"                  \* a proper prefix of the record

AppendOutcomes == {Whole, Unterminated, Torn}

WithLastUnreadable(pieces) ==
  [i \in DOMAIN pieces |->
     IF i = Len(pieces) THEN [pieces[i] EXCEPT !.parses = FALSE] ELSE pieces[i]]

AppendTo(ledger, record, outcome) ==
  [pieces |-> Append(IF ledger.open THEN WithLastUnreadable(ledger.pieces)
                                    ELSE ledger.pieces,
                     [record |-> record,
                      parses |-> outcome # Torn /\ ~ledger.open]),
   open   |-> outcome # Whole]

\* A reader that does not skip bad lines fails unless every line parses.
Readable(ledger) == \A i \in DOMAIN ledger.pieces : ledger.pieces[i].parses

RecordsOf(ledger) == {ledger.pieces[i].record : i \in DOMAIN ledger.pieces}

ReadableRecordsOf(ledger) ==
  {ledger.pieces[i].record : i \in {j \in DOMAIN ledger.pieces : ledger.pieces[j].parses}}
=============================================================================
