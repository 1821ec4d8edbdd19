------------------------- MODULE LocalServiceProofs -------------------------
(***************************************************************************)
(* What the service's records say for every number of threads, requests,   *)
(* ids and faults.  stream[h] is the phase of a request: "requests" until  *)
(* it is evaluated, then "responses" and "traces", or "errors".  What was  *)
(* verified under the lock has a line of its own (HasItsLine), which no    *)
(* later append, torn ones included, can spoil.                            *)
(***************************************************************************)
EXTENDS LocalService, OperatorProofs, FiniteSetTheorems

Effects == [post : 1..MaxPosts, request_id : RequestIds, verified : BOOLEAN]

StreamsOK == /\ streams \in [StreamNames -> LedgerOf(ServiceRecords)]
             /\ world \subseteq Effects

\* A thread's point and what it has in hand, by the phase of its request.
Thread(h) ==
  /\ (pc[h] = "idle") = (stream[h] = "none")
  /\ (pc[h] = "idle") = (post[h] = 0)
  /\ pc[h] = "idle" => outcome[h] = "none"
  /\ stream[h] = "requests" =>
       pc[h] \in {"write", "verify", "root", "evaluate"} /\ outcome[h] = "none"
  /\ stream[h] = "responses" => pc[h] \in {"write", "verify"}
  /\ stream[h] \in {"traces", "errors"} => pc[h] \in {"write", "verify", "answer"}
  /\ stream[h] \in {"responses", "traces"} => outcome[h] \in Evaluated
  /\ stream[h] = "errors" => outcome[h] \in Errors
  /\ stream[h] \in {"requests", "responses", "traces"} => id[h] \in RequestIds

Threads == \A h \in Handlers : Thread(h)

\* No two requests have one number, and no record or effect is ahead of it.
Numbered ==
  /\ \A g, h \in Handlers : post[g] = post[h] /\ post[g] # 0 => g = h
  /\ \A s \in StreamNames : \A r \in RecordsOf(streams[s]) : r.post \leq posts
  /\ \A e \in world : e.post \leq posts

\* The lock is held from the write to the end of the comparison, so that what is
\* compared is what was written.
Locked ==
  \A h \in Handlers :
    /\ (pc[h] = "verify") = (lock = h)
    /\ pc[h] = "verify" =>
         LET l == streams[stream[h]]
         IN  /\ Len(l.pieces) > 0 /\ ~l.open
             /\ l.pieces[Len(l.pieces)].record = ServiceRecord(h)

RequestOf(p, r) == [request_id |-> r, post |-> p, outcome |-> "none"]

\* What a thread has verified so far has a line of its own.
Requested(h) == \/ stream[h] \in {"responses", "traces"}
                \/ stream[h] = "requests" /\ pc[h] \in {"root", "evaluate"}

LinesOf(h) ==
  /\ Requested(h) => HasItsLine(streams["requests"], RequestOf(post[h], id[h]))
  /\ stream[h] = "traces" => HasItsLine(streams["responses"], ServiceRecord(h))
  /\ pc[h] = "answer" => HasItsLine(streams[stream[h]], ServiceRecord(h))

HasLineOf(s, p) == \E r \in ServiceRecords : r.post = p /\ HasItsLine(streams[s], r)

LinesKept ==
  /\ \A h \in Handlers : LinesOf(h)
  /\ \A a \in answers :
       /\ a.status = "ok" => \A s \in {"requests", "responses", "traces"} : HasLineOf(s, a.post)
       /\ a.status = "error" => HasLineOf("errors", a.post)
  /\ \A e \in world : HasItsLine(streams["requests"], RequestOf(e.post, e.request_id))

\* Nothing tells of an outcome before evaluation.
Unevaluated ==
  \A h \in Handlers : stream[h] = "requests" =>
    /\ \A e \in world : e.post # post[h]
    /\ \A s \in StreamNames \ {"requests"} : \A r \in RecordsOf(streams[s]) : r.post # post[h]

\* A request that is named anywhere was named in the requests stream first.
RequestedFirst ==
  /\ \A s \in StreamNames : \A r \in RecordsOf(streams[s]) :
       r.request_id # "unknown" =>
         \E q \in RecordsOf(streams["requests"]) : q.post = r.post /\ q.request_id = r.request_id
  /\ \A h \in Handlers :
       id[h] # "unknown" /\ ~(stream[h] = "requests" /\ pc[h] = "write") =>
         \E q \in RecordsOf(streams["requests"]) : q.post = post[h] /\ q.request_id = id[h]

\* "committed" is said by requests with a verified effect, and by all of them ...
CommitsTold ==
  /\ \A s \in StreamNames : \A r \in RecordsOf(streams[s]) : r.outcome = "committed" =>
       \E e \in world : e.request_id = r.request_id /\ e.verified
  /\ \A h \in Handlers : outcome[h] = "committed" =>
       \E e \in world : e.request_id = id[h] /\ e.verified
  /\ \A r \in RecordsOf(streams["responses"]), e \in world :
       r.post = e.post /\ e.verified => r.outcome = "committed"
  /\ \A h \in Handlers, e \in world :
       stream[h] \in {"responses", "traces"} /\ post[h] = e.post /\ e.verified
         => outcome[h] = "committed"

\* ... and one with an effect that ends in an error met an unreadable line.
ErrorsShow ==
  Exportable =>
    \A e \in world :
      /\ \A r \in RecordsOf(streams["errors"]) : r.post # e.post
      /\ \A h \in Handlers : stream[h] = "errors" => post[h] # e.post

ClosedUntilFaults == faults = 0 => \A s \in StreamNames : ~streams[s].open

ServiceInvariant ==
  /\ TypeOK
  /\ StreamsOK
  /\ Threads
  /\ Numbered
  /\ Locked
  /\ LinesKept
  /\ Unevaluated
  /\ RequestedFirst
  /\ CommitsTold
  /\ ErrorsShow
  /\ ClosedUntilFaults
  /\ OnlyFaultsSpoilStreams

-----------------------------------------------------------------------------
\* An append adds one record, leaves an unreadable file unreadable, and spoils no
\* line that ends in a newline.
LEMMA AppendFacts ==
  ASSUME NEW S, NEW l \in LedgerOf(S), NEW r \in S, NEW o \in AppendOutcomes,
         NEW m, m = AppendTo(l, r, o)
  PROVE  /\ m \in LedgerOf(S)
         /\ RecordsOf(m) = RecordsOf(l) \cup {r}
         /\ ~Readable(l) => ~Readable(m)
         /\ \A q : HasItsLine(l, q) => HasItsLine(m, q)
<1>1. /\ m \in LedgerOf(S)
      /\ DOMAIN l.pieces = 1..Len(l.pieces)
      /\ DOMAIN m.pieces = 1..(Len(l.pieces) + 1)
      /\ \A i \in 1..Len(l.pieces) : m.pieces[i].record = l.pieces[i].record
      /\ m.pieces[Len(l.pieces) + 1].record = r
  BY AppendKeepsRecords
<1>2. Len(l.pieces) \in Nat
  BY Pieces
<1>3. RecordsOf(m) = RecordsOf(l) \cup {r}
  <2>1. 1..(Len(l.pieces) + 1) = 1..Len(l.pieces) \cup {Len(l.pieces) + 1}
    BY <1>2
  <2> QED
    BY <1>1, <2>1 DEF RecordsOf
<1>4. ASSUME ~Readable(l) PROVE ~Readable(m)
  <2>1. PICK i \in 1..Len(l.pieces) : ~l.pieces[i].parses
    BY <1>1, <1>4 DEF Readable
  <2>2. m.pieces[i] = IF l.open THEN WithLastUnreadable(l.pieces)[i] ELSE l.pieces[i]
    BY LastOfAppended
  <2>3. l.pieces[i] \in [record : S, parses : BOOLEAN]
    BY Pieces, SeqElement
  <2>4. ~m.pieces[i].parses
    BY <1>1, <2>1, <2>2, <2>3 DEF WithLastUnreadable
  <2>5. i \in DOMAIN m.pieces
    BY <1>1, <1>2
  <2> QED
    BY <2>4, <2>5 DEF Readable
<1>5. ASSUME NEW q, HasItsLine(l, q) PROVE HasItsLine(m, q)
  BY <1>5, LinesAreKept
<1> QED
  BY <1>1, <1>3, <1>4, <1>5

\* Written whole after a newline, a record spoils nothing.
LEMMA WholeAppendReads ==
  ASSUME NEW S, NEW l \in LedgerOf(S), NEW r \in S, ~l.open,
         NEW m, m = AppendTo(l, r, Whole)
  PROVE  /\ Readable(l) => Readable(m)
         /\ ~m.open /\ Len(m.pieces) > 0
         /\ m.pieces[Len(m.pieces)].record = r /\ m.pieces[Len(m.pieces)].parses
<1>1. /\ Len(m.pieces) = Len(l.pieces) + 1 /\ Len(l.pieces) \in Nat
      /\ m \in LedgerOf(S) /\ ~m.open
      /\ m.pieces[Len(m.pieces)].record = r
      /\ m.pieces[Len(m.pieces)].parses
      /\ \A i \in 1..Len(l.pieces) : m.pieces[i] = l.pieces[i]
  BY LastOfWhole
<1>2. DOMAIN m.pieces = 1..Len(m.pieces) /\ DOMAIN l.pieces = 1..Len(l.pieces)
  BY <1>1, Pieces
<1> QED
  BY <1>1, <1>2 DEF Readable

\* Whoever is at the end of a verified append has a line of its own.
LEMMA LastHasItsLine ==
  ASSUME NEW S, NEW l \in LedgerOf(S), NEW r, Len(l.pieces) > 0, ~l.open,
         LastLineIs(l, r)
  PROVE  HasItsLine(l, r)
  BY Pieces DEF LastLineIs, HasItsLine

LEMMA LineIsReadable ==
  ASSUME NEW S, NEW l \in LedgerOf(S), NEW r, HasItsLine(l, r)
  PROVE  r \in ReadableRecordsOf(l)
  BY Pieces DEF HasItsLine, ReadableRecordsOf

-----------------------------------------------------------------------------
LEMMA ServiceInit == Init => ServiceInvariant
<1> SUFFICES ASSUME Init PROVE ServiceInvariant
  OBVIOUS
<1> USE DEF Init
<1>1. /\ \A s \in StreamNames : streams[s] = EmptyLedger
      /\ EmptyLedger \in LedgerOf(ServiceRecords)
      /\ RecordsOf(EmptyLedger) = {} /\ ~EmptyLedger.open /\ Readable(EmptyLedger)
  BY DEF EmptyLedger, LedgerOf, RecordsOf, Readable
<1>2. TypeOK
  BY <1>1, ServiceAssumption DEF TypeOK
<1>3. StreamsOK /\ Threads
  BY <1>1 DEF StreamsOK, Threads, Thread
<1>4. Numbered /\ LinesKept
  BY <1>1 DEF Numbered, LinesKept, LinesOf, Requested
<1>5. Locked
  BY ServiceAssumption DEF Locked
<1>6. Unevaluated /\ RequestedFirst /\ CommitsTold /\ ErrorsShow
  BY <1>1 DEF Unevaluated, RequestedFirst, CommitsTold, ErrorsShow, StreamNames
<1>7. ClosedUntilFaults /\ OnlyFaultsSpoilStreams
  BY <1>1 DEF ClosedUntilFaults, OnlyFaultsSpoilStreams, Exportable
<1> QED
  BY <1>2, <1>3, <1>4, <1>5, <1>6, <1>7 DEF ServiceInvariant

-----------------------------------------------------------------------------
(* What one step does to the streams, to the effects and to a thread.       *)

AppendsOf(h, o) ==
  streams' = [streams EXCEPT ![stream[h]] = AppendTo(@, ServiceRecord(h), o)]

Grows ==
  /\ streams' \in [StreamNames -> LedgerOf(ServiceRecords)]
  /\ \A s \in StreamNames : RecordsOf(streams[s]) \subseteq RecordsOf(streams'[s])
  /\ \A s \in StreamNames : \A r \in RecordsOf(streams'[s]) :
       \/ r \in RecordsOf(streams[s])
       \/ \E h \in Handlers : pc[h] = "write" /\ stream[h] = s /\ r = ServiceRecord(h)
  /\ \A s \in StreamNames : \A q :
       HasItsLine(streams[s], q) => HasItsLine(streams'[s], q)
  /\ Exportable' => Exportable

LEMMA HandlersRecord ==
  ASSUME ServiceInvariant, NEW h \in Handlers, pc[h] # "idle"
  PROVE  /\ ServiceRecord(h) \in ServiceRecords
         /\ stream[h] \in StreamNames /\ post[h] \in 1..posts
         /\ ServiceRecord(h).post = post[h] /\ ServiceRecord(h).request_id = id[h]
         /\ ServiceRecord(h).outcome = outcome[h]
<1> USE DEF ServiceInvariant
<1>1. stream[h] \in StreamNames /\ post[h] \in 1..posts
  BY DEF TypeOK, Threads, Thread
<1>2. /\ id[h] \in RequestIds \cup {"unknown"} /\ post[h] \in 1..MaxPosts
      /\ outcome[h] \in Evaluated \cup Errors \cup {"none"}
  BY <1>1, ServiceAssumption DEF TypeOK
<1> QED
  BY <1>1, <1>2 DEF ServiceRecord, ServiceRecords

LEMMA AppendGrows ==
  ASSUME ServiceInvariant, NEW h \in Handlers, pc[h] = "write",
         NEW o \in AppendOutcomes, AppendsOf(h, o)
  PROVE  /\ Grows
         /\ streams'[stream[h]] = AppendTo(streams[stream[h]], ServiceRecord(h), o)
         /\ \A s \in StreamNames \ {stream[h]} : streams'[s] = streams[s]
         /\ ServiceRecord(h) \in RecordsOf(streams'[stream[h]])
<1> DEFINE t == stream[h]
<1>1. t \in StreamNames /\ ServiceRecord(h) \in ServiceRecords
  BY HandlersRecord
<1>2. streams \in [StreamNames -> LedgerOf(ServiceRecords)]
  BY DEF ServiceInvariant, StreamsOK
<1>3. /\ streams'[t] = AppendTo(streams[t], ServiceRecord(h), o)
      /\ \A s \in StreamNames \ {t} : streams'[s] = streams[s]
  BY <1>1, <1>2 DEF AppendsOf
<1>4. /\ streams'[t] \in LedgerOf(ServiceRecords)
      /\ RecordsOf(streams'[t]) = RecordsOf(streams[t]) \cup {ServiceRecord(h)}
      /\ ~Readable(streams[t]) => ~Readable(streams'[t])
      /\ \A q : HasItsLine(streams[t], q) => HasItsLine(streams'[t], q)
  <2>1. streams[t] \in LedgerOf(ServiceRecords)
    BY <1>1, <1>2
  <2> QED
    BY <1>1, <1>3, <2>1, AppendFacts
<1>5. streams' \in [StreamNames -> LedgerOf(ServiceRecords)]
  BY <1>1, <1>2, <1>4 DEF AppendsOf
<1>6. Exportable' => Exportable
  BY <1>1, <1>3, <1>4 DEF Exportable
<1>7. Grows
  BY <1>1, <1>3, <1>4, <1>5, <1>6 DEF Grows
<1> QED
  BY <1>3, <1>4, <1>7

LEMMA UnchangedGrows ==
  ASSUME ServiceInvariant, streams' = streams
  PROVE  Grows
  BY DEF ServiceInvariant, StreamsOK, Grows, Exportable

\* Every step appends at most one record, of a thread that is at the write.
Appending ==
  \/ streams' = streams
  \/ \E h \in Handlers :
       /\ pc[h] = "write" /\ lock = NoHandler
       /\ \/ AppendsOf(h, Whole) /\ pc'[h] = "verify" /\ faults' = faults
          \/ \E o \in AppendOutcomes : AppendsOf(h, o) /\ faults' = faults + 1

LEMMA EveryAppending == ServiceInvariant /\ [Next]_vars => Appending /\ Grows
<1> SUFFICES ASSUME ServiceInvariant, [Next]_vars PROVE Appending /\ Grows
  OBVIOUS
<1>1. CASE UNCHANGED vars
  BY <1>1, UnchangedGrows DEF vars, Appending
<1>2. CASE Crash
  <2>1. CASE streams' = streams
    BY <2>1, UnchangedGrows DEF Appending
  <2>2. CASE streams' # streams
    <3>1. PICK h \in Handlers, o \in {Torn, Unterminated} :
            pc[h] = "write" /\ lock = NoHandler /\ AppendsOf(h, o)
      BY <1>2, <2>2 DEF Crash, AppendsOf
    <3> QED
      BY <1>2, <3>1, AppendGrows DEF Crash, Fault, Appending, AppendOutcomes
  <2> QED
    BY <2>1, <2>2
<1>3. ASSUME NEW h \in Handlers, Write(h) PROVE Appending /\ Grows
  <2>1. AppendsOf(h, Whole) /\ pc[h] = "write" /\ lock = NoHandler /\ faults' = faults
        /\ pc'[h] = "verify" /\ Whole \in AppendOutcomes
    BY <1>3 DEF Write, AppendsOf, Goto, AppendOutcomes, ServiceInvariant, TypeOK
  <2> QED
    BY <2>1, AppendGrows DEF Appending
<1>4. ASSUME NEW h \in Handlers, WriteFails(h) PROVE Appending /\ Grows
  <2>1. CASE streams' = streams
    BY <2>1, UnchangedGrows DEF Appending
  <2>2. CASE streams' # streams
    <3>1. PICK o \in AppendOutcomes : AppendsOf(h, o)
      BY <1>4, <2>2 DEF WriteFails, AppendsOf
    <3> QED
      BY <1>4, <3>1, AppendGrows DEF WriteFails, Fault, Appending
  <2> QED
    BY <2>1, <2>2
<1>5. ASSUME NEW h \in Handlers, streams' = streams PROVE Appending /\ Grows
  BY <1>5, UnchangedGrows DEF Appending
<1> QED
  BY <1>1, <1>2, <1>3, <1>4, <1>5
     DEF Next, Step, Receive, Verify, ResolveRoot, Evaluate, Answer

-----------------------------------------------------------------------------
(* The same steps by what becomes of the thread that takes them.            *)

Same(h) == /\ pc'[h] = pc[h] /\ post'[h] = post[h] /\ id'[h] = id[h]
           /\ stream'[h] = stream[h] /\ outcome'[h] = outcome[h]

Ended(h) == /\ pc'[h] = "idle" /\ post'[h] = 0 /\ id'[h] = "unknown"
            /\ stream'[h] = "none" /\ outcome'[h] = "none"

\* The thread goes on with its request.
Onward(h, l, s, o) ==
  /\ pc[h] # "idle"
  /\ pc'[h] = l /\ stream'[h] = s /\ outcome'[h] = o
  /\ post'[h] = post[h] /\ id'[h] = id[h] /\ posts' = posts

Begins(h) ==
  /\ pc[h] = "idle" /\ pc'[h] = "write"
  /\ posts < MaxPosts /\ posts' = posts + 1 /\ post'[h] = posts + 1
  /\ \/ stream'[h] = "requests" /\ id'[h] \in RequestIds /\ outcome'[h] = "none"
     \/ stream'[h] = "errors" /\ id'[h] = "unknown" /\ outcome'[h] = "request_error"
  /\ UNCHANGED <<streams, lock, world>>

Writes(h) ==
  /\ pc[h] = "write" /\ lock = NoHandler /\ lock' = h
  /\ AppendsOf(h, Whole) /\ Onward(h, "verify", stream[h], outcome[h])
  /\ UNCHANGED world

Passes(h) ==
  /\ pc[h] = "verify" /\ lock' = NoHandler
  /\ LastLineIs(streams[stream[h]], ServiceRecord(h))
  /\ \/ stream[h] = "requests" /\ Onward(h, "root", "requests", outcome[h])
     \/ stream[h] = "responses" /\ Onward(h, "write", "traces", outcome[h])
     \/ stream[h] \in {"traces", "errors"} /\ Onward(h, "answer", stream[h], outcome[h])
  /\ UNCHANGED <<streams, world>>

Spoilt(h) ==
  /\ pc[h] = "verify" /\ lock' = NoHandler
  /\ ~LastLineIs(streams[stream[h]], ServiceRecord(h))
  /\ Onward(h, "write", "errors", "append_verification_failed")
  /\ stream[h] # "errors"
  /\ UNCHANGED <<streams, world>>

Proceeds(h) ==
  /\ \/ pc[h] = "root" /\ Onward(h, "evaluate", stream[h], outcome[h])
     \/ pc[h] \in {"root", "evaluate"} /\ Onward(h, "write", "errors", "request_error")
  /\ UNCHANGED <<streams, lock, world>>

Evaluates(h, o) ==
  /\ pc[h] = "evaluate" /\ Onward(h, "write", "responses", o)
  /\ world' = IF o \in {"committed", "unverified"}
              THEN world \cup {[post |-> post[h], request_id |-> id[h],
                                verified |-> o = "committed"]}
              ELSE world
  /\ UNCHANGED <<streams, lock>>

Ends(h) ==
  /\ pc[h] # "idle" /\ Ended(h) /\ posts' = posts /\ world' = world
  /\ \/ pc[h] = "verify" /\ lock' = NoHandler
     \/ pc[h] # "verify" /\ lock' = lock

Moves(h) ==
  /\ \A g \in Handlers \ {h} : Same(g)
  /\ \/ Begins(h) \/ Writes(h) \/ Passes(h) \/ Spoilt(h) \/ Proceeds(h) \/ Ends(h)
     \/ \E o \in Evaluated : Evaluates(h, o)

AllEnd == /\ \A h \in Handlers : Ended(h)
          /\ lock' = NoHandler /\ posts' = posts /\ world' = world

\* Whoever takes the step is alone in it, unless the process dies.
EveryoneStays == /\ \A h \in Handlers : Same(h)
                 /\ UNCHANGED <<streams, lock, posts, world>>

LEMMA DropEnds ==
  ASSUME TypeOK, NEW h \in Handlers, NEW status, Finish(h, status)
  PROVE  Ended(h) /\ \A g \in Handlers \ {h} : Same(g)
<1>1. Ended(h)
  BY DEF TypeOK, Finish, Goto, Ended
<1>2. \A g \in Handlers \ {h} : Same(g)
  BY DEF TypeOK, Finish, Goto, Same
<1> QED
  BY <1>1, <1>2

LEMMA EveryMove ==
  ServiceInvariant /\ [Next]_vars => EveryoneStays \/ AllEnd \/ \E h \in Handlers : Moves(h)
<1> SUFFICES ASSUME ServiceInvariant, [Next]_vars
             PROVE  EveryoneStays \/ AllEnd \/ \E h \in Handlers : Moves(h)
  OBVIOUS
<1>0. TypeOK
  BY DEF ServiceInvariant
<1>1. CASE UNCHANGED vars
  BY <1>1 DEF vars, mine, EveryoneStays, Same
<1>2. CASE Crash
  BY <1>2 DEF Crash, AllEnd, Ended
<1>3. ASSUME NEW h \in Handlers, Receive(h) PROVE Moves(h)
  <2>1. \A g \in Handlers \ {h} : Same(g)
    BY <1>0, <1>3 DEF Receive, AppendNext, Error, Goto, TypeOK, Same
  <2>2. Begins(h)
    <3>1. /\ pc[h] = "idle" /\ posts < MaxPosts /\ posts' = posts + 1
          /\ post'[h] = posts + 1 /\ UNCHANGED <<streams, lock, world>>
      BY <1>0, <1>3 DEF Receive, TypeOK
    <3>2. outcome[h] = "none" /\ id[h] = "unknown"
      BY <1>0, <3>1 DEF TypeOK, ServiceInvariant, Threads, Thread
    <3>3. CASE AppendNext(h, "requests")
      <4>1. id'[h] \in RequestIds /\ outcome' = outcome
        BY <1>0, <1>3, <3>3 DEF Receive, AppendNext, Error, Goto, TypeOK
      <4> QED
        BY <1>0, <3>1, <3>2, <3>3, <4>1 DEF AppendNext, Goto, TypeOK, Begins
    <3>4. CASE Error(h, "request_error") /\ UNCHANGED id
      BY <1>0, <3>1, <3>2, <3>4 DEF Error, AppendNext, Goto, TypeOK, Begins
    <3> QED
      BY <1>3, <3>3, <3>4 DEF Receive
  <2> QED
    BY <2>1, <2>2 DEF Moves
<1>4. ASSUME NEW h \in Handlers, Write(h) PROVE Moves(h)
  <2>1. \A g \in Handlers \ {h} : Same(g)
    BY <1>0, <1>4 DEF Write, Goto, TypeOK, Same
  <2>2. Writes(h)
    BY <1>0, <1>4 DEF Write, Goto, TypeOK, Writes, Onward, AppendsOf
  <2> QED
    BY <2>1, <2>2 DEF Moves
<1>5. ASSUME NEW h \in Handlers, Verify(h) PROVE Moves(h)
  <2>1. CASE LastLineIs(streams[stream[h]], ServiceRecord(h))
    <3>1. AfterAppend(h) /\ UNCHANGED <<post, id, outcome, streams, world, posts>>
          /\ pc[h] = "verify" /\ lock' = NoHandler
      BY <1>5, <2>1 DEF Verify
    <3>2. \A g \in Handlers \ {h} : Same(g)
      BY <1>0, <3>1 DEF AfterAppend, AppendNext, Goto, TypeOK, Same
    <3>3. stream[h] \in StreamNames
      BY <1>5, HandlersRecord DEF Verify
    <3>4. Passes(h)
      BY <1>0, <2>1, <3>1, <3>3
         DEF AfterAppend, AppendNext, Goto, TypeOK, Passes, Onward, StreamNames
    <3> QED
      BY <3>2, <3>4 DEF Moves
  <2>2. CASE ~LastLineIs(streams[stream[h]], ServiceRecord(h)) /\ stream[h] = "errors"
    <3>1. Finish(h, "dropped") /\ UNCHANGED <<streams, world, posts>>
          /\ pc[h] = "verify" /\ lock' = NoHandler
      BY <1>5, <2>2 DEF Verify, Drop
    <3> QED
      BY <1>0, <3>1, DropEnds DEF Moves, Ends
  <2>3. CASE ~LastLineIs(streams[stream[h]], ServiceRecord(h)) /\ stream[h] # "errors"
    <3>1. Error(h, "append_verification_failed") /\ UNCHANGED <<post, id, streams, world, posts>>
          /\ pc[h] = "verify" /\ lock' = NoHandler
      BY <1>5, <2>3 DEF Verify
    <3>2. \A g \in Handlers \ {h} : Same(g)
      BY <1>0, <3>1 DEF Error, AppendNext, Goto, TypeOK, Same
    <3>3. Spoilt(h)
      BY <1>0, <2>3, <3>1 DEF Error, AppendNext, Goto, TypeOK, Spoilt, Onward
    <3> QED
      BY <3>2, <3>3 DEF Moves
  <2> QED
    BY <2>1, <2>2, <2>3
<1>6. ASSUME NEW h \in Handlers, ResolveRoot(h) PROVE Moves(h)
  <2>1. \A g \in Handlers \ {h} : Same(g)
    BY <1>0, <1>6 DEF ResolveRoot, Error, AppendNext, Goto, TypeOK, Same
  <2>2. Proceeds(h)
    BY <1>0, <1>6 DEF ResolveRoot, Error, AppendNext, Goto, TypeOK, Proceeds, Onward
  <2> QED
    BY <2>1, <2>2 DEF Moves
<1>7. ASSUME NEW h \in Handlers, Evaluate(h) PROVE Moves(h)
  <2>1. CASE Drop(h) /\ UNCHANGED world
    <3>1. Finish(h, "dropped") /\ UNCHANGED <<world, posts, lock>> /\ pc[h] = "evaluate"
      BY <1>7, <2>1 DEF Evaluate, Drop
    <3> QED
      BY <1>0, <3>1, DropEnds DEF Moves, Ends
  <2>2. CASE Error(h, "request_error") /\ UNCHANGED <<post, id, world, answers>>
    <3>1. \A g \in Handlers \ {h} : Same(g)
      BY <1>0, <2>2 DEF Error, AppendNext, Goto, TypeOK, Same
    <3>2. Proceeds(h)
      BY <1>0, <1>7, <2>2 DEF Evaluate, Error, AppendNext, Goto, TypeOK, Proceeds, Onward
    <3> QED
      BY <3>1, <3>2 DEF Moves
  <2>3. CASE ~(Drop(h) /\ UNCHANGED world)
             /\ ~(Error(h, "request_error") /\ UNCHANGED <<post, id, world, answers>>)
    <3>1. PICK o \in Evaluated :
            /\ outcome' = [outcome EXCEPT ![h] = o]
            /\ world' = IF o \in {"committed", "unverified"}
                        THEN world \cup {[post |-> post[h], request_id |-> id[h],
                                          verified |-> o = "committed"]}
                        ELSE world
            /\ AppendNext(h, "responses")
            /\ UNCHANGED <<post, id, answers>>
      BY <1>7, <2>3 DEF Evaluate
    <3>2. \A g \in Handlers \ {h} : Same(g)
      BY <1>0, <3>1 DEF AppendNext, Goto, TypeOK, Same
    <3>3. Onward(h, "write", "responses", o)
      BY <1>0, <1>7, <3>1 DEF Evaluate, AppendNext, Goto, TypeOK, Onward
    <3>4. Evaluates(h, o)
      BY <1>7, <3>1, <3>3 DEF Evaluate, Evaluates
    <3> QED
      BY <3>2, <3>4 DEF Moves
  <2> QED
    BY <2>1, <2>2, <2>3
<1>8. ASSUME NEW h \in Handlers, Answer(h) PROVE Moves(h)
  <2>1. PICK status : Finish(h, status) /\ UNCHANGED <<world, posts, lock>> /\ pc[h] = "answer"
    BY <1>8 DEF Answer, Drop
  <2> QED
    BY <1>0, <2>1, DropEnds DEF Moves, Ends
<1>9. ASSUME NEW h \in Handlers, WriteFails(h) PROVE Moves(h)
  <2>1. Finish(h, "dropped") /\ UNCHANGED <<world, posts, lock>> /\ pc[h] = "write"
    BY <1>9 DEF WriteFails, Drop
  <2> QED
    BY <1>0, <2>1, DropEnds DEF Moves, Ends
<1> QED
  BY <1>1, <1>2, <1>3, <1>4, <1>5, <1>6, <1>7, <1>8, <1>9 DEF Next, Step

-----------------------------------------------------------------------------
FunctionsOK ==
  /\ pc \in [Handlers -> {"idle", "write", "verify", "root", "evaluate", "answer"}]
  /\ post \in [Handlers -> 0..posts]
  /\ id \in [Handlers -> RequestIds \cup {"unknown"}]
  /\ stream \in [Handlers -> StreamNames \cup {"none"}]
  /\ outcome \in [Handlers -> Evaluated \cup Errors \cup {"none"}]
  /\ posts \in 0..MaxPosts /\ faults \in Nat

LEMMA FunctionsStep == ServiceInvariant /\ [Next]_vars => FunctionsOK'
<1> SUFFICES ASSUME ServiceInvariant, [Next]_vars PROVE FunctionsOK'
  OBVIOUS
<1>0. FunctionsOK /\ MaxPosts \in Nat
  BY ServiceAssumption DEF ServiceInvariant, TypeOK, FunctionsOK
<1>1. CASE UNCHANGED vars
  BY <1>0, <1>1 DEF vars, mine, FunctionsOK
<1>2. CASE Crash
  BY <1>0, <1>2 DEF Crash, Fault, FunctionsOK
<1>3. ASSUME NEW h \in Handlers, Receive(h) PROVE FunctionsOK'
  <2>1. posts' \in 0..MaxPosts /\ 0..posts \subseteq 0..posts' /\ posts + 1 \in 0..posts'
    BY <1>0, <1>3 DEF Receive, FunctionsOK
  <2>2. post' \in [Handlers -> 0..posts']
    BY <1>0, <1>3, <2>1 DEF Receive, FunctionsOK
  <2> QED
    BY <1>0, <1>3, <2>1, <2>2
       DEF Receive, Error, AppendNext, Goto, FunctionsOK, StreamNames, Errors
<1>4. ASSUME NEW h \in Handlers, Write(h) PROVE FunctionsOK'
  BY <1>0, <1>4 DEF Write, Goto, FunctionsOK
<1>5. ASSUME NEW h \in Handlers, Finish(h, "dropped"), posts' = posts, faults' \in Nat
      PROVE  FunctionsOK'
  BY <1>0, <1>5 DEF Finish, Goto, FunctionsOK
<1>6. ASSUME NEW h \in Handlers, NEW s \in StreamNames, AppendNext(h, s),
             UNCHANGED <<post, id, posts, faults>>,
             \/ UNCHANGED outcome
             \/ \E o \in Evaluated \cup Errors : outcome' = [outcome EXCEPT ![h] = o]
      PROVE  FunctionsOK'
  BY <1>0, <1>6 DEF AppendNext, Goto, FunctionsOK
<1>7. ASSUME NEW h \in Handlers, Verify(h) PROVE FunctionsOK'
  <2>1. CASE LastLineIs(streams[stream[h]], ServiceRecord(h))
    <3>1. AfterAppend(h) /\ UNCHANGED <<post, id, outcome, posts, faults>>
      BY <1>7, <2>1 DEF Verify
    <3> QED
      BY <1>0, <3>1 DEF AfterAppend, AppendNext, Goto, FunctionsOK, StreamNames
  <2>2. CASE Drop(h)
    BY <1>0, <1>5, <1>7, <2>2 DEF Verify, Drop, FunctionsOK
  <2>3. CASE Error(h, "append_verification_failed") /\ UNCHANGED <<post, id>>
    BY <1>6, <1>7, <2>3 DEF Verify, Error, StreamNames, Errors
  <2> QED
    BY <1>7, <2>1, <2>2, <2>3 DEF Verify
<1>8. ASSUME NEW h \in Handlers, ResolveRoot(h) PROVE FunctionsOK'
  BY <1>0, <1>8 DEF ResolveRoot, Error, AppendNext, Goto, FunctionsOK, StreamNames, Errors
<1>9. ASSUME NEW h \in Handlers, Evaluate(h) PROVE FunctionsOK'
  <2>1. CASE Drop(h)
    BY <1>0, <1>5, <1>9, <2>1 DEF Evaluate, Drop, FunctionsOK
  <2>2. CASE Error(h, "request_error") /\ UNCHANGED <<post, id>>
    BY <1>6, <1>9, <2>2 DEF Evaluate, Error, StreamNames, Errors
  <2>3. CASE /\ AppendNext(h, "responses") /\ UNCHANGED <<post, id>>
             /\ \E o \in Evaluated : outcome' = [outcome EXCEPT ![h] = o]
    BY <1>6, <1>9, <2>3 DEF Evaluate, StreamNames
  <2> QED
    BY <1>9, <2>1, <2>2, <2>3 DEF Evaluate
<1>10. ASSUME NEW h \in Handlers, Answer(h) PROVE FunctionsOK'
  <2>1. faults' \in Nat /\ posts' = posts /\ \E status : Finish(h, status)
    BY <1>0, <1>10 DEF Answer, Drop, Fault, FunctionsOK
  <2> QED
    BY <1>0, <2>1 DEF Finish, Goto, FunctionsOK
<1>11. ASSUME NEW h \in Handlers, WriteFails(h) PROVE FunctionsOK'
  <2>1. faults' \in Nat /\ posts' = posts /\ Finish(h, "dropped")
    BY <1>0, <1>11 DEF WriteFails, Drop, Fault, FunctionsOK
  <2> QED
    BY <1>5, <2>1
<1> QED
  BY <1>1, <1>2, <1>3, <1>4, <1>7, <1>8, <1>9, <1>10, <1>11 DEF Next, Step

\* A thread is where its request's phase allows, whoever moved.
LEMMA ThreadsStep == ServiceInvariant /\ [Next]_vars => Threads'
<1> SUFFICES ASSUME ServiceInvariant, [Next]_vars, NEW h \in Handlers PROVE Thread(h)'
  BY DEF Threads
<1>1. Thread(h) /\ pc[h] \in {"idle", "write", "verify", "root", "evaluate", "answer"}
      /\ stream[h] \in StreamNames \cup {"none"} /\ post[h] \in 0..posts /\ posts \in Nat
  BY ServiceAssumption DEF ServiceInvariant, Threads, TypeOK
<1>2. CASE Same(h)
  BY <1>1, <1>2 DEF Same, Thread
<1>3. CASE Ended(h)
  BY <1>3 DEF Ended, Thread
<1>4. CASE Begins(h)
  BY <1>1, <1>4 DEF Begins, Thread, Errors
<1>5. CASE Writes(h) \/ Passes(h)
  BY <1>1, <1>5 DEF Writes, Passes, Onward, Thread, StreamNames
<1>6. CASE Spoilt(h) \/ Proceeds(h)
  BY <1>1, <1>6 DEF Spoilt, Proceeds, Onward, Thread, StreamNames, Errors
<1>7. ASSUME NEW o \in Evaluated, Evaluates(h, o) PROVE Thread(h)'
  BY <1>1, <1>7 DEF Evaluates, Onward, Thread, StreamNames
<1> QED
  BY EveryMove, <1>2, <1>3, <1>4, <1>5, <1>6, <1>7
     DEF EveryoneStays, AllEnd, Moves, Ends

\* An effect is performed by the evaluation of a request that has none yet.
WorldGrows ==
  \/ world' = world
  \/ \E h \in Handlers, o \in {"committed", "unverified"} :
       /\ Evaluates(h, o) /\ \A g \in Handlers \ {h} : Same(g)
       /\ world' = world \cup {[post |-> post[h], request_id |-> id[h],
                               verified |-> o = "committed"]}

LEMMA EveryWorld == ServiceInvariant /\ [Next]_vars => WorldGrows
<1> SUFFICES ASSUME ServiceInvariant, [Next]_vars PROVE WorldGrows
  OBVIOUS
<1>1. CASE EveryoneStays \/ AllEnd
  BY <1>1 DEF EveryoneStays, AllEnd, WorldGrows
<1>2. ASSUME NEW h \in Handlers, Moves(h) PROVE WorldGrows
  BY <1>2 DEF Moves, Begins, Writes, Passes, Spoilt, Proceeds, Ends, Evaluates, WorldGrows
<1> QED
  BY <1>1, <1>2, EveryMove

LEMMA StreamsStep == ServiceInvariant /\ [Next]_vars => StreamsOK'
<1> SUFFICES ASSUME ServiceInvariant, [Next]_vars PROVE StreamsOK'
  OBVIOUS
<1>1. streams' \in [StreamNames -> LedgerOf(ServiceRecords)]
  BY EveryAppending DEF Grows
<1>2. world' \subseteq Effects
  <2>1. world \subseteq Effects
    BY DEF ServiceInvariant, StreamsOK
  <2>2. ASSUME NEW h \in Handlers, NEW o \in {"committed", "unverified"}, Evaluates(h, o)
        PROVE  [post |-> post[h], request_id |-> id[h], verified |-> o = "committed"]
                 \in Effects
    <3>1. post[h] \in 1..posts /\ posts \in 0..MaxPosts /\ MaxPosts \in Nat
      BY <2>2, HandlersRecord, ServiceAssumption DEF Evaluates, ServiceInvariant, TypeOK
    <3>2. stream[h] = "requests"
      BY <2>2, HandlersRecord
         DEF Evaluates, ServiceInvariant, Threads, Thread, StreamNames
    <3>3. id[h] \in RequestIds
      BY <3>2 DEF ServiceInvariant, Threads, Thread
    <3> QED
      BY <3>1, <3>3 DEF Effects
  <2> QED
    BY <2>1, <2>2, EveryWorld DEF WorldGrows
<1> QED
  BY <1>1, <1>2 DEF StreamsOK

LEMMA LockedStep == ServiceInvariant /\ [Next]_vars => Locked'
<1> SUFFICES ASSUME ServiceInvariant, [Next]_vars PROVE Locked'
  OBVIOUS
<1>0. Locked /\ NoHandler \notin Handlers
  BY ServiceAssumption DEF ServiceInvariant
<1> DEFINE Last(h) == LET l == streams[stream[h]]
                      IN  /\ Len(l.pieces) > 0 /\ ~l.open
                          /\ l.pieces[Len(l.pieces)].record = ServiceRecord(h)
<1>1. streams' = streams \/ lock = NoHandler
  BY EveryAppending DEF Appending
<1>2. CASE EveryoneStays
  BY <1>0, <1>2 DEF EveryoneStays, Same, Locked, ServiceRecord
<1>3. CASE AllEnd
  BY <1>0, <1>3 DEF AllEnd, Ended, Locked
<1>4. ASSUME NEW h \in Handlers, \A g \in Handlers \ {h} : Same(g), Writes(h) PROVE Locked'
  <2>1. \A g \in Handlers : pc[g] # "verify"
    BY <1>0, <1>4 DEF Writes, Locked
  <2>2. \A g \in Handlers : (pc'[g] = "verify") = (lock' = g)
    BY <1>4, <2>1 DEF Writes, Onward, Same
  <2>3. Last(h)'
    <3> DEFINE l == streams[stream[h]]
               m == streams'[stream[h]]
    <3>1. stream[h] \in StreamNames /\ ServiceRecord(h) \in ServiceRecords
      BY <1>4, HandlersRecord DEF Writes
    <3>2. l \in LedgerOf(ServiceRecords)
      BY <3>1 DEF ServiceInvariant, StreamsOK
    <3>3. m = AppendTo(l, ServiceRecord(h), Whole)
      BY <1>4, AppendGrows DEF Writes, AppendOutcomes
    <3>4. Len(m.pieces) > 0 /\ ~m.open /\ m.pieces[Len(m.pieces)].record = ServiceRecord(h)
      <4> HIDE DEF l, m
      <4> QED
        BY <3>1, <3>2, <3>3, LastOfWhole
    <3>5. ServiceRecord(h)' = ServiceRecord(h) /\ stream'[h] = stream[h]
      BY <1>4 DEF Writes, Onward, ServiceRecord
    <3> QED
      BY <3>4, <3>5
  <2> QED
    BY <1>4, <2>1, <2>2, <2>3 DEF Locked, Same
<1>5. ASSUME NEW h \in Handlers, \A g \in Handlers \ {h} : Same(g),
             pc'[h] # "verify",
             \/ pc[h] = "verify" /\ lock' = NoHandler
             \/ pc[h] # "verify" /\ lock' = lock
      PROVE  Locked'
  <2>1. \A g \in Handlers : (pc'[g] = "verify") = (lock' = g)
    BY <1>0, <1>5 DEF Locked, Same
  <2>2. ASSUME NEW g \in Handlers, pc'[g] = "verify" PROVE Last(g)'
    BY <1>0, <1>1, <1>5, <2>1, <2>2 DEF Locked, Same, ServiceRecord
  <2> QED
    BY <2>1, <2>2 DEF Locked
<1>6. ASSUME NEW h \in Handlers, Moves(h) PROVE Locked'
  <2>1. CASE Begins(h) \/ Proceeds(h) \/ Ends(h)
    BY <1>5, <1>6, <2>1 DEF Moves, Begins, Proceeds, Onward, Ends, Ended
  <2>2. CASE Passes(h) \/ Spoilt(h)
    BY <1>5, <1>6, <2>2 DEF Moves, Passes, Spoilt, Onward
  <2>3. CASE \E o \in Evaluated : Evaluates(h, o)
    BY <1>5, <1>6, <2>3 DEF Moves, Evaluates, Onward
  <2> QED
    BY <1>4, <1>6, <2>1, <2>2, <2>3 DEF Moves
<1> QED
  BY <1>2, <1>3, <1>6, EveryMove

LEMMA NumberedStep == ServiceInvariant /\ [Next]_vars => Numbered'
<1> SUFFICES ASSUME ServiceInvariant, [Next]_vars PROVE Numbered'
  OBVIOUS
<1>0. /\ Numbered /\ posts \in Nat /\ \A h \in Handlers : post[h] \in 0..posts
      /\ \A h \in Handlers : (pc[h] = "idle") = (post[h] = 0)
  BY ServiceAssumption DEF ServiceInvariant, TypeOK, Threads, Thread
<1>1. posts' \in Nat /\ posts \leq posts'
  BY <1>0, EveryMove DEF EveryoneStays, AllEnd, Moves, Begins, Writes, Passes, Spoilt,
     Proceeds, Onward, Evaluates, Ends
<1>2. \A g, h \in Handlers : post'[g] = post'[h] /\ post'[g] # 0 => g = h
  <2>1. CASE EveryoneStays \/ AllEnd
    BY <1>0, <2>1 DEF EveryoneStays, AllEnd, Same, Ended, Numbered
  <2>2. ASSUME NEW h \in Handlers, Moves(h)
        PROVE  \/ post'[h] \in {post[h], 0}
               \/ post'[h] = posts + 1
    BY <2>2 DEF Moves, Begins, Writes, Passes, Spoilt, Proceeds, Onward, Evaluates, Ends, Ended
  <2>3. ASSUME NEW h \in Handlers, Moves(h)
        PROVE  \A g, k \in Handlers : post'[g] = post'[k] /\ post'[g] # 0 => g = k
    <3>1. \A g \in Handlers \ {h} : post'[g] = post[g]
      BY <2>3 DEF Moves, Same
    <3> QED
      BY <1>0, <2>2, <2>3, <3>1 DEF Numbered
  <2> QED
    BY <2>1, <2>3, EveryMove
<1>3. ASSUME NEW s \in StreamNames, NEW r \in RecordsOf(streams'[s]) PROVE r.post \leq posts'
  <2>1. CASE r \in RecordsOf(streams[s])
    <3>1. r.post \in Nat
      BY <2>1 DEF ServiceInvariant, TypeOK, ServiceRecords
    <3> QED
      BY <1>0, <1>1, <2>1, <3>1 DEF Numbered
  <2>2. ASSUME NEW h \in Handlers, pc[h] = "write", r = ServiceRecord(h)
        PROVE  r.post \leq posts'
    BY <1>0, <1>1, <2>2, HandlersRecord
  <2> QED
    BY <2>1, <2>2, EveryAppending DEF Grows
<1>4. ASSUME NEW e \in world' PROVE e.post \leq posts'
  <2>1. CASE e \in world
    <3>1. e.post \in Nat
      BY <2>1 DEF ServiceInvariant, StreamsOK, Effects
    <3> QED
      BY <1>0, <1>1, <2>1, <3>1 DEF Numbered
  <2>2. CASE e \notin world
    <3>1. PICK h \in Handlers : e.post = post[h]
      BY <2>2, EveryWorld DEF WorldGrows
    <3> QED
      BY <1>0, <1>1, <3>1
  <2> QED
    BY <2>1, <2>2
<1> QED
  BY <1>2, <1>3, <1>4 DEF Numbered

-----------------------------------------------------------------------------
\* A client is answered "ok" or "error" by a thread that is at the answer.
Answering ==
  \/ answers' = answers
  \/ \E h \in Handlers, status \in {"ok", "error", "dropped"} :
       /\ answers' = answers \cup {[post |-> post[h], status |-> status]}
       /\ status = "ok" => pc[h] = "answer" /\ outcome[h] \notin Errors
       /\ status = "error" => pc[h] = "answer" /\ outcome[h] \in Errors

LEMMA EveryAnswer == ServiceInvariant /\ [Next]_vars => Answering
<1> SUFFICES ASSUME ServiceInvariant, [Next]_vars PROVE Answering
  OBVIOUS
<1>1. ASSUME NEW h \in Handlers, Drop(h) PROVE Answering
  BY <1>1 DEF Drop, Finish, Answering
<1>2. ASSUME NEW h \in Handlers, Answer(h) PROVE Answering
  <2>1. CASE Drop(h)
    BY <1>1, <2>1
  <2>2. CASE Finish(h, IF outcome[h] \in Errors THEN "error" ELSE "ok")
    <3>1. CASE outcome[h] \in Errors
      BY <1>2, <2>2, <3>1 DEF Answer, Finish, Answering
    <3>2. CASE outcome[h] \notin Errors
      BY <1>2, <2>2, <3>2 DEF Answer, Finish, Answering
    <3> QED
      BY <3>1, <3>2
  <2> QED
    BY <1>2, <2>1, <2>2 DEF Answer
<1>3. CASE UNCHANGED vars \/ Crash
  BY <1>3 DEF vars, Crash, Answering
<1>4. ASSUME NEW h \in Handlers, Receive(h) \/ Write(h) \/ ResolveRoot(h) PROVE Answering
  BY <1>4 DEF Receive, Write, ResolveRoot, Answering
<1>5. ASSUME NEW h \in Handlers, Verify(h) \/ Evaluate(h) \/ WriteFails(h) PROVE Answering
  <2>1. CASE Drop(h)
    BY <1>1, <2>1
  <2>2. CASE ~Drop(h)
    BY <1>5, <2>2 DEF Verify, Evaluate, WriteFails, Answering
  <2> QED
    BY <2>1, <2>2
<1> QED
  BY <1>2, <1>3, <1>4, <1>5 DEF Next, Step

\* A comparison that passes shows the record on a line of its own.
LEMMA PassedHasItsLine ==
  ASSUME ServiceInvariant, NEW h \in Handlers, pc[h] = "verify",
         LastLineIs(streams[stream[h]], ServiceRecord(h))
  PROVE  HasItsLine(streams[stream[h]], ServiceRecord(h))
<1>1. streams[stream[h]] \in LedgerOf(ServiceRecords)
  BY HandlersRecord DEF ServiceInvariant, StreamsOK
<1>2. Len(streams[stream[h]].pieces) > 0 /\ ~streams[stream[h]].open
  BY DEF ServiceInvariant, Locked
<1> QED
  BY <1>1, <1>2, LastHasItsLine

LEMMA LinesStep == ServiceInvariant /\ [Next]_vars => LinesKept'
<1> SUFFICES ASSUME ServiceInvariant, [Next]_vars PROVE LinesKept'
  OBVIOUS
<1>0. LinesKept /\ Threads
  BY DEF ServiceInvariant
<1>1. \A s \in StreamNames : \A q : HasItsLine(streams[s], q) => HasItsLine(streams'[s], q)
  BY EveryAppending DEF Grows
<1>2. {"requests", "responses", "traces", "errors"} = StreamNames
  BY DEF StreamNames
<1>3. ASSUME NEW h \in Handlers PROVE LinesOf(h)'
  <2>0. LinesOf(h) /\ Thread(h)
    BY <1>0 DEF LinesKept, Threads
  <2>1. CASE Same(h)
    <3>1. stream[h] \in StreamNames \/ pc[h] = "idle"
      BY <2>0 DEF Thread, ServiceInvariant, TypeOK
    <3> QED
      BY <1>1, <1>2, <2>0, <2>1, <3>1 DEF Same, LinesOf, Requested, ServiceRecord
  <2>2. CASE Ended(h)
    BY <2>2 DEF Ended, LinesOf, Requested
  <2>3. CASE Begins(h) \/ Spoilt(h)
    BY <2>3 DEF Begins, Spoilt, Onward, LinesOf, Requested
  <2>4. CASE Writes(h) \/ Proceeds(h)
    BY <1>1, <1>2, <2>0, <2>4
       DEF Writes, Proceeds, Onward, Thread, LinesOf, Requested, ServiceRecord
  <2>5. CASE Passes(h)
    <3>1. HasItsLine(streams'[stream[h]], ServiceRecord(h))
      BY <2>5, PassedHasItsLine DEF Passes
    <3>2. /\ id'[h] = id[h] /\ post'[h] = post[h] /\ outcome'[h] = outcome[h]
          /\ ServiceRecord(h)' = ServiceRecord(h)
      BY <2>5 DEF Passes, Onward, ServiceRecord
    <3>3. CASE stream[h] = "requests" /\ Onward(h, "root", "requests", outcome[h])
      <4>1. ServiceRecord(h) = RequestOf(post[h], id[h])
        BY <2>0, <3>3 DEF Thread, ServiceRecord, RequestOf
      <4> QED
        BY <3>1, <3>2, <3>3, <4>1 DEF Onward, LinesOf
    <3>4. CASE stream[h] = "responses" /\ Onward(h, "write", "traces", outcome[h])
      BY <1>1, <1>2, <2>0, <3>1, <3>2, <3>4 DEF Onward, LinesOf, Requested
    <3>5. CASE stream[h] \in {"traces", "errors"} /\ Onward(h, "answer", stream[h], outcome[h])
      BY <1>1, <1>2, <2>0, <3>1, <3>2, <3>5 DEF Onward, LinesOf, Requested
    <3> QED
      BY <2>5, <3>3, <3>4, <3>5 DEF Passes
  <2>6. ASSUME NEW o \in Evaluated, Evaluates(h, o) PROVE LinesOf(h)'
    <3>1. stream[h] = "requests"
      BY <2>0, <2>6, HandlersRecord DEF Evaluates, Thread, StreamNames
    <3> QED
      BY <1>1, <1>2, <2>0, <2>6, <3>1 DEF Evaluates, Onward, LinesOf, Requested
  <2> QED
    BY EveryMove, <2>1, <2>2, <2>3, <2>4, <2>5, <2>6 DEF EveryoneStays, AllEnd, Moves, Ends
<1>4. ASSUME NEW s \in StreamNames, NEW p, HasLineOf(s, p) PROVE HasLineOf(s, p)'
  BY <1>1, <1>4 DEF HasLineOf
<1>5. ASSUME NEW h \in Handlers, pc[h] = "answer"
      PROVE  /\ outcome[h] \notin Errors =>
                  \A s \in {"requests", "responses", "traces"} : HasLineOf(s, post[h])
             /\ outcome[h] \in Errors => HasLineOf("errors", post[h])
  <2>1. /\ ServiceRecord(h) \in ServiceRecords /\ ServiceRecord(h).post = post[h]
        /\ HasItsLine(streams[stream[h]], ServiceRecord(h)) /\ stream[h] \in {"traces", "errors"}
    BY <1>0, <1>5, HandlersRecord DEF LinesKept, LinesOf, Threads, Thread, StreamNames
  <2>2. CASE stream[h] = "errors"
    BY <1>0, <2>1, <2>2 DEF Threads, Thread, HasLineOf
  <2>3. CASE stream[h] = "traces"
    <3>1. RequestOf(post[h], id[h]) \in ServiceRecords /\ RequestOf(post[h], id[h]).post = post[h]
      <4>1. id[h] \in RequestIds \cup {"unknown"} /\ post[h] \in 1..MaxPosts
        BY <2>1 DEF ServiceRecords, ServiceRecord
      <4> QED
        BY <4>1 DEF RequestOf, ServiceRecords
    <3>2. /\ HasItsLine(streams["requests"], RequestOf(post[h], id[h]))
          /\ HasItsLine(streams["responses"], ServiceRecord(h))
      BY <1>0, <2>3 DEF LinesKept, LinesOf, Requested
    <3>3. outcome[h] \notin Errors
      BY <1>0, <2>3 DEF Threads, Thread, Evaluated, Errors
    <3> QED
      BY <2>1, <2>3, <3>1, <3>2, <3>3 DEF HasLineOf
  <2> QED
    BY <2>1, <2>2, <2>3
<1>6. ASSUME NEW a \in answers'
      PROVE  /\ a.status = "ok" =>
                  \A s \in {"requests", "responses", "traces"} : HasLineOf(s, a.post)'
             /\ a.status = "error" => HasLineOf("errors", a.post)'
  <2>1. CASE a \in answers
    BY <1>0, <1>2, <1>4, <2>1 DEF LinesKept
  <2>2. CASE a \notin answers
    <3>1. PICK h \in Handlers :
            /\ a.post = post[h]
            /\ a.status = "ok" => pc[h] = "answer" /\ outcome[h] \notin Errors
            /\ a.status = "error" => pc[h] = "answer" /\ outcome[h] \in Errors
      BY <2>2, EveryAnswer DEF Answering
    <3> QED
      BY <1>2, <1>4, <1>5, <3>1
  <2> QED
    BY <2>1, <2>2
<1>7. ASSUME NEW e \in world'
      PROVE  HasItsLine(streams'["requests"], RequestOf(e.post, e.request_id))
  <2>1. CASE e \in world
    BY <1>0, <1>1, <1>2, <2>1 DEF LinesKept
  <2>2. CASE e \notin world
    <3>1. PICK h \in Handlers : pc[h] = "evaluate" /\ e.post = post[h] /\ e.request_id = id[h]
      BY <2>2, EveryWorld DEF WorldGrows, Evaluates
    <3>2. stream[h] = "requests"
      BY <1>0, <3>1, HandlersRecord DEF Threads, Thread, StreamNames
    <3>3. HasItsLine(streams["requests"], RequestOf(post[h], id[h]))
      BY <1>0, <3>1, <3>2 DEF LinesKept, LinesOf, Requested
    <3> QED
      BY <1>1, <1>2, <3>1, <3>3
  <2> QED
    BY <2>1, <2>2
<1> QED
  BY <1>3, <1>6, <1>7 DEF LinesKept

-----------------------------------------------------------------------------
\* What the lemmas below use of a thread: its post is its own.
LEMMA OwnPosts ==
  ASSUME ServiceInvariant, NEW g \in Handlers, NEW h \in Handlers, g # h, pc[g] # "idle"
  PROVE  post[g] # post[h]
  BY HandlersRecord DEF ServiceInvariant, Numbered

LEMMA EvaluatesFromRequests ==
  ASSUME ServiceInvariant, NEW h \in Handlers, pc[h] \in {"root", "evaluate"}
  PROVE  stream[h] = "requests"
  BY HandlersRecord DEF ServiceInvariant, Threads, Thread, StreamNames

\* A thread goes on with its number and id, or is done, or takes the next number.
LEMMA PostsCarried ==
  ASSUME ServiceInvariant, [Next]_vars, NEW g \in Handlers, pc'[g] # "idle"
  PROVE  \/ Begins(g)
         \/ pc[g] # "idle" /\ post'[g] = post[g] /\ id'[g] = id[g]
  BY EveryMove DEF EveryoneStays, AllEnd, Ended, Moves, Same, Writes, Passes, Spoilt,
     Proceeds, Evaluates, Onward, Ends

LEMMA BusyHasStream ==
  ASSUME ServiceInvariant, [Next]_vars, NEW g \in Handlers, stream'[g] # "none"
  PROVE  pc'[g] # "idle"
  BY ThreadsStep DEF Threads, Thread

LEMMA UnevaluatedStep == ServiceInvariant /\ [Next]_vars => Unevaluated'
<1> SUFFICES ASSUME ServiceInvariant, [Next]_vars, NEW g \in Handlers, stream'[g] = "requests"
             PROVE  /\ \A e \in world' : e.post # post'[g]
                    /\ \A s \in StreamNames \ {"requests"} :
                         \A r \in RecordsOf(streams'[s]) : r.post # post'[g]
  BY DEF Unevaluated
<1>1. CASE Begins(g)
  <2>1. posts \in Nat /\ post'[g] = posts + 1 /\ world' = world /\ streams' = streams
    BY <1>1, ServiceAssumption DEF Begins, ServiceInvariant, TypeOK
  <2>2. /\ \A e \in world : e.post \in Nat /\ e.post \leq posts
        /\ \A s \in StreamNames : \A r \in RecordsOf(streams[s]) :
             r.post \in Nat /\ r.post \leq posts
    BY DEF ServiceInvariant, Numbered, StreamsOK, TypeOK, Effects, ServiceRecords
  <2> QED
    BY <2>1, <2>2
<1>2. CASE stream[g] = "requests" /\ pc[g] # "idle" /\ post'[g] = post[g]
  <2>1. ASSUME NEW e \in world' PROVE e.post # post[g]
    <3>1. CASE e \in world
      BY <1>2, <3>1 DEF ServiceInvariant, Unevaluated
    <3>2. CASE e \notin world
      <4>1. PICK h \in Handlers : e.post = post[h] /\ stream'[h] = "responses"
        BY <3>2, EveryWorld DEF WorldGrows, Evaluates, Onward
      <4> QED
        BY <1>2, <4>1, OwnPosts
    <3> QED
      BY <3>1, <3>2
  <2>2. ASSUME NEW s \in StreamNames \ {"requests"}, NEW r \in RecordsOf(streams'[s])
        PROVE  r.post # post[g]
    <3>1. CASE r \in RecordsOf(streams[s])
      BY <1>2, <3>1 DEF ServiceInvariant, Unevaluated
    <3>2. ASSUME NEW h \in Handlers, pc[h] = "write", stream[h] = s, r = ServiceRecord(h)
          PROVE  r.post # post[g]
      BY <1>2, <3>2, HandlersRecord, OwnPosts
    <3> QED
      BY <3>1, <3>2, EveryAppending DEF Grows
  <2> QED
    BY <1>2, <2>1, <2>2
<1>3. \/ Begins(g)
      \/ stream[g] = "requests" /\ pc[g] # "idle" /\ post'[g] = post[g]
  <2>1. stream'[g] = stream[g] \/ Begins(g) \/ pc[g] = "root" \/ pc[g] = "verify"
    BY EveryMove DEF EveryoneStays, AllEnd, Ended, Moves, Same, Writes, Passes, Spoilt,
       Proceeds, Evaluates, Onward, Ends
  <2>2. CASE pc[g] = "verify"
    BY <2>2, EveryMove DEF EveryoneStays, AllEnd, Ended, Moves, Same, Begins, Writes, Passes,
       Spoilt, Proceeds, Evaluates, Onward, Ends
  <2>3. CASE pc[g] # "verify"
    BY <2>1, <2>3, BusyHasStream, PostsCarried, EvaluatesFromRequests
  <2> QED
    BY <2>2, <2>3
<1> QED
  BY <1>1, <1>2, <1>3

LEMMA RequestedFirstStep == ServiceInvariant /\ [Next]_vars => RequestedFirst'
<1> SUFFICES ASSUME ServiceInvariant, [Next]_vars PROVE RequestedFirst'
  OBVIOUS
<1>0. RequestedFirst /\ Grows /\ "requests" \in StreamNames
  BY EveryAppending DEF ServiceInvariant, StreamNames
<1> DEFINE Named(p, i) == \E q \in RecordsOf(streams'["requests"]) :
                            q.post = p /\ q.request_id = i
<1>1. ASSUME NEW s \in StreamNames, NEW r \in RecordsOf(streams'[s]), r.request_id # "unknown"
      PROVE  Named(r.post, r.request_id)
  <2>1. CASE r \in RecordsOf(streams[s])
    BY <1>0, <1>1, <2>1 DEF RequestedFirst, Grows
  <2>2. ASSUME NEW h \in Handlers, pc[h] = "write", stream[h] = s, r = ServiceRecord(h)
        PROVE  Named(r.post, r.request_id)
    <3>1. r.post = post[h] /\ r.request_id = id[h]
      BY <2>2, HandlersRecord
    <3>2. CASE s = "requests"
      BY <1>1, <3>2
    <3>3. CASE s # "requests"
      BY <1>0, <1>1, <2>2, <3>1, <3>3 DEF RequestedFirst, Grows
    <3> QED
      BY <3>2, <3>3
  <2> QED
    BY <1>0, <2>1, <2>2 DEF Grows
<1>2. ASSUME NEW g \in Handlers, id'[g] # "unknown",
             ~(stream'[g] = "requests" /\ pc'[g] = "write")
      PROVE  Named(post'[g], id'[g])
  <2>1. id[g] # "unknown" /\ id'[g] = id[g] /\ post'[g] = post[g] /\ ~Begins(g)
    BY <1>2, EveryMove DEF EveryoneStays, AllEnd, Ended, Moves, Same, Begins, Writes, Passes,
       Spoilt, Proceeds, Evaluates, Onward, Ends
  <2>2. CASE ~(stream[g] = "requests" /\ pc[g] = "write")
    BY <1>0, <2>1, <2>2 DEF RequestedFirst, Grows
  <2>3. CASE stream[g] = "requests" /\ pc[g] = "write"
    <3>1. Writes(g)
      BY <1>2, <2>3, EveryMove DEF EveryoneStays, AllEnd, Ended, Moves, Same, Begins, Passes,
         Spoilt, Proceeds, Evaluates, Onward, Ends
    <3>2. ServiceRecord(g) \in RecordsOf(streams'["requests"])
      BY <2>3, <3>1, AppendGrows DEF Writes, AppendOutcomes
    <3>3. ServiceRecord(g).post = post[g] /\ ServiceRecord(g).request_id = id[g]
      BY <2>3, HandlersRecord
    <3> QED
      BY <2>1, <3>2, <3>3
  <2> QED
    BY <2>2, <2>3
<1> QED
  BY <1>1, <1>2 DEF RequestedFirst

LEMMA CommitsStep == ServiceInvariant /\ [Next]_vars => CommitsTold'
<1> SUFFICES ASSUME ServiceInvariant, [Next]_vars PROVE CommitsTold'
  OBVIOUS
<1>0. CommitsTold /\ Grows /\ WorldGrows /\ Unevaluated /\ StreamNames # {}
  BY EveryAppending, EveryWorld DEF ServiceInvariant, StreamNames
<1>1. world \subseteq world'
  BY <1>0 DEF WorldGrows
<1>2. ASSUME NEW s \in StreamNames, NEW r \in RecordsOf(streams'[s]), r.outcome = "committed"
      PROVE  \E e \in world' : e.request_id = r.request_id /\ e.verified
  <2>1. CASE r \in RecordsOf(streams[s])
    BY <1>0, <1>1, <1>2, <2>1 DEF CommitsTold
  <2>2. ASSUME NEW h \in Handlers, pc[h] = "write", r = ServiceRecord(h)
        PROVE  \E e \in world' : e.request_id = r.request_id /\ e.verified
    BY <1>0, <1>1, <1>2, <2>2, HandlersRecord DEF CommitsTold
  <2> QED
    BY <1>0, <2>1, <2>2 DEF Grows
<1>3. ASSUME NEW g \in Handlers, outcome'[g] = "committed"
      PROVE  \E e \in world' : e.request_id = id'[g] /\ e.verified
  <2>1. CASE outcome[g] = "committed" /\ id'[g] = id[g]
    BY <1>0, <1>1, <2>1 DEF CommitsTold
  <2>2. CASE Evaluates(g, "committed")
    <3>1. [post |-> post[g], request_id |-> id[g], verified |-> "committed" = "committed"] \in world'
      BY <2>2 DEF Evaluates
    <3> QED
      BY <2>2, <3>1 DEF Evaluates, Onward
  <2>3. \/ outcome[g] = "committed" /\ id'[g] = id[g]
        \/ Evaluates(g, "committed")
    BY <1>3, EveryMove DEF EveryoneStays, AllEnd, Ended, Moves, Same, Begins, Writes, Passes,
       Spoilt, Proceeds, Evaluates, Onward, Ends
  <2> QED
    BY <2>1, <2>2, <2>3
<1>4. ASSUME NEW r \in RecordsOf(streams'["responses"]), NEW e \in world',
             r.post = e.post, e.verified
      PROVE  r.outcome = "committed"
  <2>0. "responses" \in StreamNames \ {"requests"}
    BY DEF StreamNames
  <2>1. CASE r \in RecordsOf(streams["responses"]) /\ e \in world
    BY <1>0, <1>4, <2>1 DEF CommitsTold
  <2>2. CASE e \notin world
    <3>1. PICK h \in Handlers : e.post = post[h] /\ pc[h] = "evaluate" /\ streams' = streams
      BY <1>0, <2>2 DEF WorldGrows, Evaluates
    <3> QED
      BY <1>0, <1>4, <2>0, <3>1, EvaluatesFromRequests DEF Unevaluated
  <2>3. CASE e \in world /\ r \notin RecordsOf(streams["responses"])
    <3>1. PICK h \in Handlers : pc[h] = "write" /\ stream[h] = "responses" /\ r = ServiceRecord(h)
      BY <1>0, <2>0, <2>3 DEF Grows
    <3> QED
      BY <1>0, <1>4, <2>3, <3>1, HandlersRecord DEF CommitsTold
  <2> QED
    BY <2>1, <2>2, <2>3
<1>5. ASSUME NEW g \in Handlers, NEW e \in world',
             stream'[g] \in {"responses", "traces"}, post'[g] = e.post, e.verified
      PROVE  outcome'[g] = "committed"
  <2>0. pc'[g] # "idle" /\ ~Begins(g)
    BY <1>5, BusyHasStream DEF Begins
  <2>1. pc[g] # "idle" /\ post'[g] = post[g]
    BY <2>0, PostsCarried
  <2>2. CASE e \notin world
    <3>1. PICK h \in Handlers, o \in {"committed", "unverified"} :
            /\ Evaluates(h, o)
            /\ e = [post |-> post[h], request_id |-> id[h], verified |-> o = "committed"]
      BY <1>0, <2>2 DEF WorldGrows
    <3>2. g = h
      BY <1>5, <2>1, <3>1, OwnPosts
    <3>3. e.verified <=> o = "committed"
      BY <3>1
    <3> QED
      BY <1>5, <3>1, <3>2, <3>3 DEF Evaluates, Onward
  <2>3. CASE e \in world
    <3>1. CASE stream[g] \in {"responses", "traces"} /\ outcome'[g] = outcome[g]
      BY <1>0, <1>5, <2>1, <2>3, <3>1 DEF CommitsTold
    <3>2. CASE stream[g] = "requests"
      BY <1>0, <1>5, <2>1, <2>3, <3>2 DEF Unevaluated
    <3>3. \/ stream[g] \in {"responses", "traces"} /\ outcome'[g] = outcome[g]
          \/ pc[g] = "evaluate"
      BY <1>5, <2>0, EveryMove DEF EveryoneStays, AllEnd, Ended, Moves, Same, Writes, Passes,
         Spoilt, Proceeds, Evaluates, Onward, Ends
    <3> QED
      BY <3>1, <3>2, <3>3, EvaluatesFromRequests
  <2> QED
    BY <2>2, <2>3
<1> QED
  BY <1>2, <1>3, <1>4, <1>5 DEF CommitsTold

\* The last line of a failed comparison does not parse.
LEMMA SpoiltIsUnreadable ==
  ASSUME ServiceInvariant, NEW h \in Handlers, pc[h] = "verify",
         ~LastLineIs(streams[stream[h]], ServiceRecord(h))
  PROVE  ~Exportable
<1> DEFINE l == streams[stream[h]]
<1>1. stream[h] \in StreamNames /\ l \in LedgerOf(ServiceRecords)
  BY HandlersRecord DEF ServiceInvariant, StreamsOK
<1>2. Len(l.pieces) > 0 /\ l.pieces[Len(l.pieces)].record = ServiceRecord(h)
  BY DEF ServiceInvariant, Locked
<1>3. ~l.pieces[Len(l.pieces)].parses
  BY <1>2 DEF LastLineIs
<1>4. Len(l.pieces) \in DOMAIN l.pieces
  <2> HIDE DEF l
  <2> QED
    BY <1>1, <1>2, Pieces
<1> QED
  BY <1>1, <1>3, <1>4 DEF Exportable, Readable

LEMMA ErrorsStep == ServiceInvariant /\ [Next]_vars => ErrorsShow'
<1> SUFFICES ASSUME ServiceInvariant, [Next]_vars, Exportable'
             PROVE  /\ \A e \in world' : \A r \in RecordsOf(streams'["errors"]) : r.post # e.post
                    /\ \A e \in world' : \A g \in Handlers :
                         stream'[g] = "errors" => post'[g] # e.post
  BY DEF ErrorsShow
<1>0. /\ ErrorsShow /\ Exportable /\ Grows /\ WorldGrows /\ Unevaluated
      /\ "errors" \in StreamNames \ {"requests"}
  BY EveryAppending, EveryWorld DEF ServiceInvariant, Grows, StreamNames
<1>1. ASSUME NEW e \in world', NEW r \in RecordsOf(streams'["errors"])
      PROVE  r.post # e.post
  <2>1. CASE e \in world /\ r \in RecordsOf(streams["errors"])
    BY <1>0, <2>1 DEF ErrorsShow
  <2>2. CASE e \notin world
    <3>1. PICK h \in Handlers : e.post = post[h] /\ pc[h] = "evaluate" /\ streams' = streams
      BY <1>0, <2>2 DEF WorldGrows, Evaluates
    <3> QED
      BY <1>0, <3>1, EvaluatesFromRequests DEF Unevaluated
  <2>3. CASE e \in world /\ r \notin RecordsOf(streams["errors"])
    <3>1. PICK h \in Handlers : pc[h] = "write" /\ stream[h] = "errors" /\ r = ServiceRecord(h)
      BY <1>0, <2>3 DEF Grows
    <3> QED
      BY <1>0, <2>3, <3>1, HandlersRecord DEF ErrorsShow
  <2> QED
    BY <2>1, <2>2, <2>3
<1>2. ASSUME NEW e \in world', NEW g \in Handlers, stream'[g] = "errors"
      PROVE  post'[g] # e.post
  <2>0. pc'[g] # "idle"
    BY <1>2, BusyHasStream
  <2>1. CASE Begins(g)
    <3>1. posts \in Nat /\ post'[g] = posts + 1 /\ world' = world
      BY <2>1, ServiceAssumption DEF Begins, ServiceInvariant, TypeOK
    <3>2. e.post \in Nat /\ e.post \leq posts
      BY <3>1 DEF ServiceInvariant, Numbered, StreamsOK, Effects
    <3> QED
      BY <3>1, <3>2
  <2>2. CASE ~Begins(g)
    <3>1. pc[g] # "idle" /\ post'[g] = post[g]
      BY <2>0, <2>2, PostsCarried
    <3>2. CASE e \notin world
      <4>1. PICK h \in Handlers : e.post = post[h] /\ stream'[h] = "responses"
        BY <1>0, <3>2 DEF WorldGrows, Evaluates, Onward
      <4> QED
        BY <1>2, <3>1, <4>1, OwnPosts
    <3>3. CASE e \in world /\ stream[g] = "errors"
      BY <1>0, <3>1, <3>3 DEF ErrorsShow
    <3>4. CASE e \in world /\ stream[g] = "requests"
      BY <1>0, <3>1, <3>4 DEF Unevaluated
    <3>5. stream[g] \in {"errors", "requests"}
      <4>1. stream'[g] = stream[g] \/ Spoilt(g) \/ pc[g] \in {"root", "evaluate"}
        BY <1>2, <2>2, EveryMove DEF EveryoneStays, AllEnd, Ended, Moves, Same, Writes, Passes,
           Proceeds, Evaluates, Onward, Ends
      <4>2. ~Spoilt(g)
        BY <1>0, SpoiltIsUnreadable DEF Spoilt
      <4> QED
        BY <1>2, <4>1, <4>2, EvaluatesFromRequests
    <3> QED
      BY <3>2, <3>3, <3>4, <3>5
  <2> QED
    BY <2>1, <2>2
<1> QED
  BY <1>1, <1>2

LEMMA FaultsCount ==
  ServiceInvariant /\ [Next]_vars => faults' = faults \/ faults' = faults + 1
  BY DEF vars, Next, Step, Crash, Receive, Write, WriteFails, Verify, ResolveRoot, Evaluate,
     Answer, Fault

\* Without faults every line is whole, and every comparison passes.
LEMMA FaultlessStep ==
  ServiceInvariant /\ [Next]_vars => ClosedUntilFaults' /\ OnlyFaultsSpoilStreams'
<1> SUFFICES ASSUME ServiceInvariant, [Next]_vars, faults' = 0
             PROVE  /\ \A s \in StreamNames : ~streams'[s].open
                    /\ Exportable'
                    /\ \A s \in StreamNames : \A r \in RecordsOf(streams'[s]) :
                         r.outcome # "append_verification_failed"
                    /\ \A h \in Handlers : outcome'[h] # "append_verification_failed"
  BY DEF ClosedUntilFaults, OnlyFaultsSpoilStreams
<1>0. faults = 0
  BY FaultsCount DEF ServiceInvariant, TypeOK
<1>1. /\ \A s \in StreamNames : ~streams[s].open
      /\ Exportable
      /\ \A s \in StreamNames : \A r \in RecordsOf(streams[s]) :
           r.outcome # "append_verification_failed"
      /\ \A h \in Handlers : outcome[h] # "append_verification_failed"
  BY <1>0 DEF ServiceInvariant, ClosedUntilFaults, OnlyFaultsSpoilStreams
<1>2. \A s \in StreamNames : ~streams'[s].open /\ Readable(streams'[s])
  <2>1. CASE streams' = streams
    BY <1>1, <2>1 DEF Exportable
  <2>2. ASSUME NEW h \in Handlers, pc[h] = "write", AppendsOf(h, Whole)
        PROVE  \A s \in StreamNames : ~streams'[s].open /\ Readable(streams'[s])
    <3> DEFINE l == streams[stream[h]]
               m == streams'[stream[h]]
    <3>1. /\ stream[h] \in StreamNames /\ ServiceRecord(h) \in ServiceRecords
          /\ l \in LedgerOf(ServiceRecords) /\ ~l.open /\ Readable(l)
      BY <1>1, <2>2, HandlersRecord DEF ServiceInvariant, StreamsOK, Exportable
    <3>2. /\ m = AppendTo(l, ServiceRecord(h), Whole)
          /\ \A s \in StreamNames \ {stream[h]} : streams'[s] = streams[s]
      BY <2>2, AppendGrows DEF AppendOutcomes
    <3>3. Readable(m) /\ ~m.open
      <4> HIDE DEF l, m
      <4> QED
        BY <3>1, <3>2, WholeAppendReads
    <3> QED
      BY <1>1, <3>2, <3>3 DEF Exportable
  <2> QED
    BY <1>0, <2>1, <2>2, EveryAppending DEF Appending
<1>3. ASSUME NEW s \in StreamNames, NEW r \in RecordsOf(streams'[s])
      PROVE  r.outcome # "append_verification_failed"
  <2>1. CASE r \in RecordsOf(streams[s])
    BY <1>1, <2>1
  <2>2. ASSUME NEW h \in Handlers, pc[h] = "write", r = ServiceRecord(h)
        PROVE  r.outcome # "append_verification_failed"
    BY <1>1, <2>2, HandlersRecord
  <2> QED
    BY <2>1, <2>2, EveryAppending DEF Grows
<1>4. ASSUME NEW h \in Handlers PROVE outcome'[h] # "append_verification_failed"
  <2>1. ~Spoilt(h)
    BY <1>1, SpoiltIsUnreadable DEF Spoilt
  <2> QED
    BY <1>1, <2>1, EveryMove DEF EveryoneStays, AllEnd, Ended, Moves, Same, Begins, Writes,
       Passes, Proceeds, Evaluates, Evaluated, Onward, Ends
<1> QED
  BY <1>2, <1>3, <1>4 DEF Exportable

LEMMA TypeStep == ServiceInvariant /\ [Next]_vars => TypeOK'
<1> SUFFICES ASSUME ServiceInvariant, [Next]_vars PROVE TypeOK'
  OBVIOUS
<1>1. \A s \in StreamNames : RecordsOf(streams'[s]) \subseteq ServiceRecords
  <2> SUFFICES ASSUME NEW s \in StreamNames, NEW r \in RecordsOf(streams'[s])
               PROVE  r \in ServiceRecords
    OBVIOUS
  <2>1. CASE r \in RecordsOf(streams[s])
    BY <2>1 DEF ServiceInvariant, TypeOK
  <2>2. ASSUME NEW h \in Handlers, pc[h] = "write", r = ServiceRecord(h)
        PROVE  r \in ServiceRecords
    BY <2>2, HandlersRecord
  <2> QED
    BY <2>1, <2>2, EveryAppending DEF Grows
<1>2. lock' \in Handlers \cup {NoHandler}
  BY EveryMove DEF EveryoneStays, AllEnd, Moves, Begins, Writes, Passes, Spoilt, Proceeds,
     Evaluates, Ends, ServiceInvariant, TypeOK
<1>3. ASSUME NEW h \in Handlers, pc'[h] = "idle"
      PROVE  id'[h] = "unknown" /\ stream'[h] = "none" /\ lock' # h
  <2>1. lock' # h /\ stream'[h] = "none"
    BY <1>3, LockedStep, ThreadsStep DEF Locked, Threads, Thread
  <2>2. id'[h] = "unknown"
    BY <1>3, EveryMove DEF EveryoneStays, AllEnd, Ended, Moves, Same, Begins, Writes, Passes,
       Spoilt, Proceeds, Evaluates, Onward, Ends, ServiceInvariant, TypeOK
  <2> QED
    BY <2>1, <2>2
<1> QED
  BY <1>1, <1>2, <1>3, FunctionsStep DEF FunctionsOK, TypeOK

-----------------------------------------------------------------------------
\* The invariants of the run follow.
LEMMA AnsweredFollows == ServiceInvariant => AnsweredIsRecorded /\ EffectIsRequested
<1> SUFFICES ASSUME ServiceInvariant PROVE AnsweredIsRecorded /\ EffectIsRequested
  OBVIOUS
<1>1. ASSUME NEW s \in StreamNames, NEW r, HasItsLine(streams[s], r)
      PROVE  r \in ReadableRecordsOf(streams[s])
  BY <1>1, LineIsReadable DEF ServiceInvariant, StreamsOK
<1>2. AnsweredIsRecorded
  BY <1>1 DEF ServiceInvariant, LinesKept, HasLineOf, AnsweredIsRecorded, StreamNames
<1>3. EffectIsRequested
  <2> SUFFICES ASSUME NEW e \in world
               PROVE  \E r \in ReadableRecordsOf(streams["requests"]) :
                        r.post = e.post /\ r.request_id = e.request_id
    BY DEF EffectIsRequested
  <2> DEFINE q == RequestOf(e.post, e.request_id)
  <2>1. HasItsLine(streams["requests"], q)
    BY DEF ServiceInvariant, LinesKept
  <2>2. q \in ReadableRecordsOf(streams["requests"])
    BY <1>1, <2>1 DEF StreamNames
  <2>3. q.post = e.post /\ q.request_id = e.request_id
    BY DEF RequestOf
  <2> QED
    BY <2>2, <2>3
<1> QED
  BY <1>2, <1>3

LEMMA CommittedFollows == ServiceInvariant => CommittedIsTrue
<1> SUFFICES ASSUME ServiceInvariant, NEW r \in RequestIds, Classify(r) = "committed"
             PROVE  \E e \in world : e.request_id = r /\ e.verified
  BY DEF CommittedIsTrue
<1>1. \E o \in Outcomes("traces", r) : CommitTraced(o)
  BY DEF Classify
<1>2. PICK i \in DOMAIN streams["traces"].pieces :
        /\ streams["traces"].pieces[i].record.request_id = r
        /\ streams["traces"].pieces[i].record.outcome = "committed"
  BY <1>1 DEF Outcomes, Group, CommitTraced
<1>3. streams["traces"].pieces[i].record \in RecordsOf(streams["traces"])
  BY DEF RecordsOf
<1> QED
  BY <1>2, <1>3 DEF ServiceInvariant, CommitsTold, StreamNames

\* Of an id posted once all records are of that post.
LEMMA OnePost ==
  ASSUME ServiceInvariant, NEW r \in RequestIds, Cardinality(Group("requests", r)) = 1,
         NEW e \in world, e.request_id = r,
         NEW s \in StreamNames, NEW i \in Group(s, r)
  PROVE  streams[s].pieces[i].record \in RecordsOf(streams[s])
         /\ streams[s].pieces[i].record.post = e.post
<1> DEFINE l == streams["requests"]
           rec == streams[s].pieces[i].record
<1>1. l \in LedgerOf(ServiceRecords) /\ r # "unknown"
  BY ServiceAssumption DEF ServiceInvariant, StreamsOK, StreamNames
<1>2. DOMAIN l.pieces = 1..Len(l.pieces) /\ Len(l.pieces) \in Nat
  <2> HIDE DEF l
  <2> QED
    BY <1>1, Pieces
<1>3. PICK k : Group("requests", r) = {k}
  <2>1. Group("requests", r) \subseteq 1..Len(l.pieces)
    BY <1>2 DEF Group
  <2>2. IsFiniteSet(1..Len(l.pieces))
    BY <1>2, FS_Interval
  <2>3. IsFiniteSet(Group("requests", r))
    BY <2>1, <2>2, FS_Subset
  <2> QED
    BY <2>3, FS_Singleton
<1>4. rec \in RecordsOf(streams[s]) /\ rec.request_id = r
  BY DEF Group, RecordsOf
<1>5. PICK q \in RecordsOf(l) : q.post = rec.post /\ q.request_id = r
  BY <1>1, <1>4 DEF ServiceInvariant, RequestedFirst
<1>6. l.pieces[k].record = q
  <2>1. PICK j \in DOMAIN l.pieces : l.pieces[j].record = q
    BY DEF RecordsOf
  <2>2. j \in Group("requests", r)
    BY <1>5, <2>1 DEF Group
  <2> QED
    BY <1>3, <2>1, <2>2
<1>7. l.pieces[k].record = RequestOf(e.post, r)
  <2>1. HasItsLine(l, RequestOf(e.post, r))
    BY DEF ServiceInvariant, LinesKept
  <2>2. PICK j \in DOMAIN l.pieces : l.pieces[j].record = RequestOf(e.post, r)
    BY <1>2, <2>1 DEF HasItsLine
  <2>3. RequestOf(e.post, r).request_id = r
    BY DEF RequestOf
  <2>4. j \in Group("requests", r)
    BY <2>2, <2>3 DEF Group
  <2> QED
    BY <1>3, <2>2, <2>4
<1>8. RequestOf(e.post, r).post = e.post
  BY DEF RequestOf
<1> QED
  BY <1>4, <1>5, <1>6, <1>7, <1>8

LEMMA PostedOnceFollows == ServiceInvariant => PostedOnceHidesNothing
<1> SUFFICES ASSUME ServiceInvariant, Exportable, NEW r \in RequestIds,
                    Cardinality(Group("requests", r)) = 1,
                    Classify(r) \in {"paused", "rejected", "service_error"},
                    NEW e \in world, e.request_id = r, e.verified
             PROVE  FALSE
  BY DEF PostedOnceHidesNothing
<1> DEFINE states == {StateOf(o) : o \in Outcomes("responses", r)}
<1>1. CASE Classify(r) = "service_error"
  <2>1. PICK i : i \in Group("errors", r)
    BY <1>1 DEF Classify
  <2>2. streams["errors"].pieces[i].record \in RecordsOf(streams["errors"])
        /\ streams["errors"].pieces[i].record.post = e.post
    BY <2>1, OnePost DEF StreamNames
  <2> QED
    BY <2>2 DEF ServiceInvariant, ErrorsShow
<1>2. CASE Classify(r) \in {"paused", "rejected"}
  <2>1. Group("responses", r) # {} /\ (states = {"paused"} \/ states = {"rejected"})
    BY <1>2 DEF Classify
  <2>2. PICK i : i \in Group("responses", r)
    BY <2>1
  <2>3. streams["responses"].pieces[i].record \in RecordsOf(streams["responses"])
        /\ streams["responses"].pieces[i].record.post = e.post
    BY <2>2, OnePost DEF StreamNames
  <2>4. streams["responses"].pieces[i].record.outcome = "committed"
    BY <2>3 DEF ServiceInvariant, CommitsTold
  <2>5. "committed" \in Outcomes("responses", r)
    BY <2>2, <2>4 DEF Outcomes
  <2>6. StateOf("committed") = "committed"
    BY DEF StateOf
  <2>7. "committed" \in states
    BY <2>5, <2>6
  <2> QED
    BY <2>1, <2>7
<1> QED
  BY <1>1, <1>2

\* ServiceInvariant holds for any number of threads, requests, ids and faults.
THEOREM ServiceSafety == Spec => []ServiceInvariant
<1>1. ServiceInvariant /\ [Next]_vars => ServiceInvariant'
  BY TypeStep, StreamsStep, ThreadsStep, NumberedStep, LockedStep, LinesStep,
     UnevaluatedStep, RequestedFirstStep, CommitsStep, ErrorsStep, FaultlessStep
     DEF ServiceInvariant
<1> QED
  BY ServiceInit, <1>1, PTL DEF Spec

\* AppendOnlyStore and do_POST keep their types, and no idle thread has the lock.
THEOREM ServiceTypes == Spec => []TypeOK
<1>1. ServiceInvariant => TypeOK
  BY DEF ServiceInvariant
<1> QED
  BY ServiceSafety, <1>1, PTL

\* What a client was answered is in the streams to be read, whoever dies or fails
\* to append afterwards.
THEOREM AnswersAreRecorded == Spec => []AnsweredIsRecorded
  BY ServiceSafety, AnsweredFollows, PTL

\* Every effect has a legible record of the request that do_POST took it from,
\* whoever dies or fails to append after it.
THEOREM EffectsAreRequested == Spec => []EffectIsRequested
  BY ServiceSafety, AnsweredFollows, PTL

\* classify_request says "committed" only of an id an effect was committed for.
THEOREM CommittedMeansEffect == Spec => []CommittedIsTrue
  BY ServiceSafety, CommittedFollows, PTL

\* Of an id posted once it never calls a verified effect paused, rejected or an
\* error.
THEOREM ClassificationHidesNothing == Spec => []PostedOnceHidesNothing
  BY ServiceSafety, PostedOnceFollows, PTL

\* Threads that append together never fail each other's comparison.
THEOREM OnlyFaultsSpoil == Spec => []OnlyFaultsSpoilStreams
<1>1. ServiceInvariant => OnlyFaultsSpoilStreams
  BY DEF ServiceInvariant
<1> QED
  BY ServiceSafety, <1>1, PTL
=============================================================================
