---------------------------- MODULE LocalService ----------------------------
(***************************************************************************)
(* The loopback HTTP service (service.py): handler threads that answer     *)
(* POST requests, keep a record of each in four append-only streams, and   *)
(* run the governed pipeline in between; and what service_records.py makes *)
(* of the streams afterwards.  A request's id is its client's choice, so a *)
(* client that retries may post it again.                                  *)
(***************************************************************************)
EXTENDS JsonlLedger, FiniteSets

CONSTANTS Handlers, NoHandler,
          RequestIds,
          MaxPosts,   \* bound on requests posted
          MaxFaults   \* bound on failing appends, lost clients and deaths

ASSUME ServiceAssumption ==
  /\ NoHandler \notin Handlers
  /\ "unknown" \notin RequestIds
  /\ MaxPosts \in Nat /\ MaxFaults \in Nat

VARIABLES pc,
          post,     \* the number of the request a handler answers
          id,       \* its request_id, "unknown" before it is validated
          stream,   \* the stream it appends to
          outcome,  \* what evaluation came to
          streams,  \* records/<stream>.jsonl
          lock,     \* AppendOnlyStore._lock
          world,    \* the effects performed: by which post, for which id
          answers,  \* what clients got
          posts, faults

mine == <<pc, post, id, stream, outcome>>
vars == <<mine, streams, lock, world, answers, posts, faults>>

StreamNames == {"requests", "responses", "traces", "errors"}

\* effect.state, with the cases that look alike told apart: a replay reports
\* "committed" and commits nothing, an unverified commit reports "rejected"
\* and may have an effect.
Evaluated == {"approved", "rejected", "paused", "committed", "replayed", "unverified"}
Errors == {"request_error", "append_verification_failed"}

\* effect["state"] of the response, and whether the trace tells of a commit.
StateOf(o) == CASE o = "replayed"   -> "committed"
                [] o = "unverified" -> "rejected"
                [] OTHER            -> o
CommitTraced(o) == o = "committed"

\* service_record: the wrapper appended to the handler's stream.
ServiceRecord(h) ==
  [request_id |-> id[h], post |-> post[h], outcome |-> outcome[h]]

Init == /\ pc = [h \in Handlers |-> "idle"]
        /\ post = [h \in Handlers |-> 0]
        /\ id = [h \in Handlers |-> "unknown"]
        /\ stream = [h \in Handlers |-> "none"]
        /\ outcome = [h \in Handlers |-> "none"]
        /\ streams = [s \in StreamNames |-> EmptyLedger]
        /\ lock = NoHandler
        /\ world = {} /\ answers = {}
        /\ posts = 0 /\ faults = 0

-----------------------------------------------------------------------------
Goto(h, l) == pc' = [pc EXCEPT ![h] = l]

\* Go on to append a record to a stream.
AppendNext(h, s) == Goto(h, "write") /\ stream' = [stream EXCEPT ![h] = s]

\* A ServiceError or RuntimeApiError in do_POST: handle_service_error.
Error(h, code) == /\ AppendNext(h, "errors")
                  /\ outcome' = [outcome EXCEPT ![h] = code]

Fault == faults < MaxFaults /\ faults' = faults + 1

\* Seeded fault, not used: the thread keeps its request's id for the next one.
FinishKeepingId(h, status) ==
  /\ answers' = answers \cup {[post |-> post[h], status |-> status]}
  /\ Goto(h, "idle")
  /\ post' = [post EXCEPT ![h] = 0]
  /\ stream' = [stream EXCEPT ![h] = "none"]
  /\ outcome' = [outcome EXCEPT ![h] = "none"]
  /\ UNCHANGED id

\* The handler is done with its request; what its client got is noted.
Finish(h, status) ==
  /\ answers' = answers \cup {[post |-> post[h], status |-> status]}
  /\ Goto(h, "idle")
  /\ post' = [post EXCEPT ![h] = 0]
  /\ id' = [id EXCEPT ![h] = "unknown"]
  /\ stream' = [stream EXCEPT ![h] = "none"]
  /\ outcome' = [outcome EXCEPT ![h] = "none"]

\* Any other exception ends the thread: the connection closes unanswered.
Drop(h) == Finish(h, "dropped")

-----------------------------------------------------------------------------
(* Seeded faults: wrong versions of the actions below, not used.            *)

\* Appends take no lock.
WriteWithoutLock(h) ==
  /\ pc[h] = "write"
  /\ streams' = [streams EXCEPT ![stream[h]] = AppendTo(@, ServiceRecord(h), Whole)]
  /\ Goto(h, "verify")
  /\ UNCHANGED <<post, id, stream, outcome, lock, world, answers, posts, faults>>

\* An append that fails is not worth losing the request for.
WriteFailsIgnored(h) ==
  /\ pc[h] = "write"
  /\ lock = NoHandler
  /\ Fault
  /\ IF stream[h] = "requests" THEN Goto(h, "root") ELSE Goto(h, "answer")
  /\ UNCHANGED <<post, id, stream, outcome, streams, lock, world, answers, posts>>

\* The last line is not compared.
VerifyNothing(h) ==
  /\ pc[h] = "verify"
  /\ lock' = NoHandler
  /\ CASE stream[h] = "requests"  -> Goto(h, "root") /\ UNCHANGED stream
       [] stream[h] = "responses" -> AppendNext(h, "traces")
       [] OTHER                   -> Goto(h, "answer") /\ UNCHANGED stream
  /\ UNCHANGED <<post, id, outcome, streams, world, answers, posts, faults>>

\* The lock is given back only after a verified append, and it is no RLock.
VerifyKeepingLock(h) ==
  /\ pc[h] = "verify"
  /\ LET last == streams[stream[h]].pieces[Len(streams[stream[h]].pieces)]
     IN  IF last.parses
         THEN /\ lock' = NoHandler
              /\ CASE stream[h] = "requests"  -> Goto(h, "root") /\ UNCHANGED stream
                   [] stream[h] = "responses" -> AppendNext(h, "traces")
                   [] OTHER                   -> Goto(h, "answer") /\ UNCHANGED stream
              /\ UNCHANGED outcome
         ELSE Error(h, "append_verification_failed") /\ UNCHANGED lock
  /\ UNCHANGED <<post, id, answers, streams, world, posts, faults>>

\* The runtime raises after the adapter has committed.
EvaluateRaisingLate(h) ==
  /\ pc[h] = "evaluate"
  /\ world' = world \cup {[post |-> post[h], request_id |-> id[h], verified |-> TRUE]}
  /\ Error(h, "request_error")
  /\ UNCHANGED <<post, id, streams, lock, answers, posts, faults>>

-----------------------------------------------------------------------------
\* operation_from_path, read_body and validate_request: a request without a
\* valid envelope goes to the errors under the id "unknown".
Receive(h) ==
  /\ pc[h] = "idle"
  /\ posts < MaxPosts
  /\ posts' = posts + 1
  /\ post' = [post EXCEPT ![h] = posts + 1]
  /\ \/ /\ \E r \in RequestIds : id' = [id EXCEPT ![h] = r]
        /\ AppendNext(h, "requests")
        /\ UNCHANGED outcome
     \/ Error(h, "request_error") /\ UNCHANGED id
  /\ UNCHANGED <<streams, lock, world, answers, faults>>

\* AppendOnlyStore.append takes the lock and writes ...
Write(h) ==
  /\ pc[h] = "write"
  /\ lock = NoHandler
  /\ lock' = h
  /\ streams' = [streams EXCEPT ![stream[h]] = AppendTo(@, ServiceRecord(h), Whole)]
  /\ Goto(h, "verify")
  /\ UNCHANGED <<post, id, stream, outcome, world, answers, posts, faults>>

\* ... or fails with an OSError, which do_POST does not catch, having written
\* nothing, a part, all but the newline, or everything.
WriteFails(h) ==
  /\ pc[h] = "write"
  /\ lock = NoHandler
  /\ Fault
  /\ \/ UNCHANGED streams
     \/ \E o \in AppendOutcomes :
          streams' = [streams EXCEPT ![stream[h]] = AppendTo(@, ServiceRecord(h), o)]
  /\ Drop(h)
  /\ UNCHANGED <<lock, world, posts>>

LastLineIs(ledger, record) ==
  LET last == ledger.pieces[Len(ledger.pieces)]
  IN  last.record = record /\ last.parses

\* Where do_POST goes from an append that was verified.
AfterAppend(h) ==
  CASE stream[h] = "requests"  -> Goto(h, "root") /\ UNCHANGED stream
    [] stream[h] = "responses" -> AppendNext(h, "traces")
    [] OTHER                   -> Goto(h, "answer") /\ UNCHANGED stream

\* Still under the lock, the file's last line is compared with the record: one
\* that ran into an unfinished line before it is an append_verification_failed,
\* and in handle_service_error nobody catches that.
Verify(h) ==
  /\ pc[h] = "verify"
  /\ lock' = NoHandler
  /\ IF LastLineIs(streams[stream[h]], ServiceRecord(h))
     THEN AfterAppend(h) /\ UNCHANGED <<post, id, outcome, answers>>
     ELSE IF stream[h] = "errors"
     THEN Drop(h)
     ELSE Error(h, "append_verification_failed") /\ UNCHANGED <<post, id, answers>>
  /\ UNCHANGED <<streams, world, posts, faults>>

\* resolve_sandbox_root: inside the service root, or an error.
ResolveRoot(h) ==
  /\ pc[h] = "root"
  /\ \/ Goto(h, "evaluate") /\ UNCHANGED <<stream, outcome>>
     \/ Error(h, "request_error")
  /\ UNCHANGED <<post, id, streams, lock, world, answers, posts, faults>>

\* interpret or run: an effect state, a RuntimeApiError, or an exception that
\* is neither (as of an expires_at without time zone).
Evaluate(h) ==
  /\ pc[h] = "evaluate"
  /\ \/ \E o \in Evaluated :
          /\ outcome' = [outcome EXCEPT ![h] = o]
          /\ world' = IF o \in {"committed", "unverified"}
                      THEN world \cup {[post |-> post[h], request_id |-> id[h],
                                        verified |-> o = "committed"]}
                      ELSE world
          /\ AppendNext(h, "responses")
          /\ UNCHANGED <<post, id, answers>>
     \/ Error(h, "request_error") /\ UNCHANGED <<post, id, world, answers>>
     \/ Drop(h) /\ UNCHANGED world
  /\ UNCHANGED <<streams, lock, posts, faults>>

\* write_json, if the client is still there.
Answer(h) ==
  /\ pc[h] = "answer"
  /\ \/ Finish(h, IF outcome[h] \in Errors THEN "error" ELSE "ok") /\ UNCHANGED faults
     \/ Fault /\ Drop(h)
  /\ UNCHANGED <<streams, lock, world, posts>>

\* The server process dies with all its threads, maybe in the middle of an
\* append, and is started again.
Crash ==
  /\ \E h \in Handlers : pc[h] # "idle"
  /\ Fault
  /\ pc' = [h \in Handlers |-> "idle"]
  /\ post' = [h \in Handlers |-> 0]
  /\ id' = [h \in Handlers |-> "unknown"]
  /\ stream' = [h \in Handlers |-> "none"]
  /\ outcome' = [h \in Handlers |-> "none"]
  /\ lock' = NoHandler
  /\ \/ UNCHANGED streams
     \/ \E h \in Handlers, o \in {Torn, Unterminated} :
          /\ pc[h] = "write" /\ lock = NoHandler
          /\ streams' = [streams EXCEPT ![stream[h]] = AppendTo(@, ServiceRecord(h), o)]
  /\ UNCHANGED <<world, answers, posts>>

Step(h) == Write(h) \/ Verify(h) \/ ResolveRoot(h) \/ Evaluate(h) \/ Answer(h)

Next == Crash \/ \E h \in Handlers : Receive(h) \/ Step(h) \/ WriteFails(h)

Spec == Init /\ [][Next]_vars

\* The threads of a running server keep running.
FairSpec == Spec /\ \A h \in Handlers : WF_vars(Step(h))

-----------------------------------------------------------------------------
(* service_records.py: what the streams say of a request_id.                *)

\* read_stream gives up on a line that does not parse, and the export with it.
Exportable == \A s \in StreamNames : Readable(streams[s])

\* The records of one stream under an id, by their lines.
Group(s, r) == {i \in DOMAIN streams[s].pieces : streams[s].pieces[i].record.request_id = r}
Outcomes(s, r) == {streams[s].pieces[i].record.outcome : i \in Group(s, r)}

\* Seeded fault, not used: the response alone decides.
ClassifyByState(r) ==
  LET states == {StateOf(o) : o \in Outcomes("responses", r)}
  IN  CASE Group("errors", r) # {}                     -> "service_error"
        [] Group("responses", r) = {}                  -> "incomplete"
        [] Cardinality(Group("responses", r)) # 1      -> "needs_review"
        [] states \subseteq {"committed", "paused", "rejected"} -> CHOOSE st \in states : TRUE
        [] OTHER                                       -> "needs_review"

\* classify_request: "committed" needs a trace that tells of the commit.
Classify(r) ==
  LET states == {StateOf(o) : o \in Outcomes("responses", r)}
  IN  IF Group("errors", r) # {} THEN "service_error"
      ELSE IF Group("responses", r) = {} THEN "incomplete"
      ELSE IF Cardinality(Group("responses", r)) # 1 THEN "needs_review"
      ELSE IF states = {"committed"} /\ \E o \in Outcomes("traces", r) : CommitTraced(o)
           THEN "committed"
      ELSE IF states = {"paused"} THEN "paused"
      ELSE IF states = {"rejected"} THEN "rejected"
      ELSE "needs_review"

-----------------------------------------------------------------------------
ServiceRecords == [request_id : RequestIds \cup {"unknown"}, post : 1..MaxPosts,
                   outcome : Evaluated \cup Errors \cup {"none"}]

\* The variables have their types; a thread between requests keeps nothing of
\* the last one.
TypeOK ==
  /\ pc \in [Handlers -> {"idle", "write", "verify", "root", "evaluate", "answer"}]
  /\ post \in [Handlers -> 0..posts]
  /\ id \in [Handlers -> RequestIds \cup {"unknown"}]
  /\ stream \in [Handlers -> StreamNames \cup {"none"}]
  /\ outcome \in [Handlers -> Evaluated \cup Errors \cup {"none"}]
  /\ \A s \in StreamNames : RecordsOf(streams[s]) \subseteq ServiceRecords
  /\ lock \in Handlers \cup {NoHandler}
  /\ posts \in 0..MaxPosts /\ faults \in Nat
  /\ \A h \in Handlers :
       pc[h] = "idle" => id[h] = "unknown" /\ stream[h] = "none" /\ lock # h

\* A client that got an answer finds its request in the streams: whatever is
\* appended, torn or glued later, its lines stay legible.
AnsweredIsRecorded ==
  \A a \in answers :
    /\ a.status = "ok" =>
         \A s \in {"requests", "responses", "traces"} :
           \E r \in ReadableRecordsOf(streams[s]) : r.post = a.post
    /\ a.status = "error" =>
         \E r \in ReadableRecordsOf(streams["errors"]) : r.post = a.post

\* No effect without a legible record of the request it comes from, whoever dies
\* or fails to append after it.
EffectIsRequested ==
  \A e \in world :
    \E r \in ReadableRecordsOf(streams["requests"]) :
      r.post = e.post /\ r.request_id = e.request_id

\* An id is classified as committed only if an effect was committed for it:
\* never for a replay of some other request's effect, whatever clients retry
\* under one id.
CommittedIsTrue ==
  Exportable =>
    \A r \in RequestIds :
      Classify(r) = "committed" => \E e \in world : e.request_id = r /\ e.verified

\* Of an id posted once, the classification never hides a verified effect: it
\* calls no request with one paused, rejected or a service error.
PostedOnceHidesNothing ==
  Exportable =>
    \A r \in RequestIds :
      Cardinality(Group("requests", r)) = 1
        /\ Classify(r) \in {"paused", "rejected", "service_error"}
      => ~ \E e \in world : e.request_id = r /\ e.verified

\* Threads that append at once never fail each other's verification, nor make
\* the streams unreadable: that takes an append that failed half way.
OnlyFaultsSpoilStreams ==
  faults = 0 =>
    /\ Exportable
    /\ \A s \in StreamNames : \A r \in RecordsOf(streams[s]) :
         r.outcome # "append_verification_failed"
    /\ \A h \in Handlers : outcome[h] # "append_verification_failed"

\* Every request a running server takes comes to an end: no way out of an append
\* keeps the lock.
EveryRequestEnds == \A h \in Handlers : pc[h] # "idle" ~> pc[h] = "idle"
=============================================================================
