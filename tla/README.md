# Fermata, checked

Fermata is a runtime that governs what an agent may do: a proposal is admitted,
approved, performed by an adapter, verified and recorded. This directory holds
TLA+ models of that runtime, TLC configurations that check them on small
instances, and theorems that the TLA+ proof system proves for every instance.
Line numbers below are those of `src/src/fermata/`.

## The system

| part | state | operations | properties that make it right |
|---|---|---|---|
| evaluation pipeline (`runtime_core.py` 605-1078) | none of its own between calls; per call the request, the clock it read, its result | `evaluate_with_adapter`: admission, key lock, lookup, prepare, approval, budget, commit or custody, records | an effect per (scope, key) at most once; what is replayed was done; nothing reaches the world without clearance; budgets hold |
| key lock (236-311) | lock files in `.fermata-idempotency/locks`, flocks | acquire with creation race, release | exclusive, never lost or orphaned |
| idempotency ledger (153-226) | `.fermata-idempotency/keys.jsonl`, append only | append a record, look up by scanning every line | survives torn and unterminated appends |
| rate ledger (314-412) | `.fermata-rate/events.jsonl`, rewritten | count a trailing window, prune and rewrite | counts each effect once |
| approvals (`runtime_ir.py` 365-519) | none | bind a decision to a scope and intent, check binding, status and expiry | a yes is for this intent, in this scope, now |
| `file.write` (`file_adapter.py`) and `anchored_atomic_write` (`runtime_core.py` 76-144) | the target, a temp file per call | walk without following links, fill, read back, link or rename, read back | whole files, inside the sandbox, no overwriting by accident |
| `memory.write` (`memory_adapter.py`) | one ledger file per target | prepare reads and numbers, commit rewrites | committed records stay |
| `network.fetch` (`network_adapter.py`) | response files in `.fermata-network` | prepare checks URL, method, target and resolves; commit resolves again, pins one address, makes one request, reads up to the cap, persists | connects to what commit checked; keeps no more than the scope allows |
| trace ledger (491-602) | `.fermata-traces/traces.jsonl` | append and read back | a verified record is legible |
| run bundles (`cli.py`) | `scope/proposal/approval/effect/trace.json` of a directory | `bundle run`, `run`, `interpret`, `approve` (yes, no, render only) | nothing leaves unapproved; evidence tells what happened; a decision is followed by its outcome |
| local service (`service.py`, `service_records.py`) | four append-only streams | `POST /run`, `/interpret`; classify afterwards | a request's records tell its outcome |
| API lowering (`runtime_api.py`), interpreter (`interpreter.py`) | none | lower JSON records, refuse malformed ones, dispatch by adapter and operation | what a scope record asks for is what the runtime enforces |
| policy parser (`policy_parser.py`) | none | turn a block of policy lines into a scope record | what a block asks for is what the runtime asks for |
| tongue parser and bridge (`tongue_parser.py`, `tongue_bridge.py`) | none | turn a spoken line into a proposal record and acknowledge it | speech is recorded and never acts |

Callers are threads of the service and processes of the CLI; they share nothing
but the files under a scope's `sandbox_root` and, for the CLI, the files of a bundle
directory, which no lock protects. Adapters are called by the
pipeline, twice: `prepare` must touch nothing, `commit` may. The pipeline holds a
flock on a key's lock file from the lookup to the return of a keyed call, and no
lock at all for a call without key, for the rate ledger, or for an adapter's own
files.

Hard behaviours: callers that interleave at every read and write of a file;
a process that dies between the effect and its record; appends that fail half
way; a clock that moves on while a call waits for the lock; budgets shared by
scopes of one sandbox root; writers that overlap between `prepare` and `commit`;
people who change the sandbox under the runtime. `PROJECT.json` lists them as
hazards, each at its line, with the properties that watch it.

## The modules

**`KeyMutex`, `IdempotencyLock`, `IdempotencyLockProofs`.** A caller opens the
stable lock name; if it is missing it creates a temp file, links it to the stable
name unless somebody else has, removes the temp name, opens the stable name again
and flocks what it got. `stable` is the inode the name refers to, `fd` and `temp`
what each caller has open or made, `holder` the flocks. `KeyMutex` is the promise:
one owner, who acquires a free lock and gives it back. Every behaviour of
`IdempotencyLock` is one of `KeyMutex` (`ImplementsMutex`), which is why the
pipeline's model may take the lock in one step.

**`Approvals`.** The chain of checks as operators: what
`approval_for` picks, what `approval_rejection_reason` answers, including the
`TypeError` of an `expires_at` without time zone. `Clears` says declaratively what
an approval has to be; `VerdictIsClearance` (in `OperatorProofs`) proves the two agree.

**`JsonlLedger`.** A file of lines as a sequence of pieces
that parse or do not, with a flag for a missing final newline. An append is whole,
torn or unterminated; after a missing newline it makes the last piece unreadable.

**`GovernedRuntime`, `MCGovernedRuntime`, `GovernedRuntimeProofs`.** The pipeline.
A caller's `pc` is the access to shared state it makes next, one action each:
`Submit` (admission), `Lock`, `Lookup`, `Authorize`, `CheckBudget`, `Commit` or
`HandOver` (record-only custody), `RecordKey`, `ReadRate`, `WriteRate`, `Return`.
`world` is what adapters did, `custody` what was handed to another actor, `idem`
and `rate` the two ledgers. The adapter is abstract: `prepare` refuses or not,
`commit` performs, refuses, or performs and fails to verify. `Crash` drops the
lock and all memory, files stay. An adapter, the approval check and the walk to the
lock file can also raise what the pipeline does not catch: the call then ends
`raised`, with its lock given back. An effect carries three times: when its call had
its lock (`entered`), looked at its budget (`checked`) and acted (`done`).

**`AtomicWrite`, `FileAdapter`, `MCFileAdapter`, `FileAdapterProofs`.** What a
`commit` does on disk, in steps of one system call that others can see: stat and open
the directory, look at the target, make and fill the temp file, rename or link,
unlink, read back, clean up. Mode `anchored` is `anchored_atomic_write`. `Outsider` is
everybody who does not go through the runtime. `AtomicWrite` is the promise, without
directories, temp files or steps: a call writes its whole content at once or nothing,
at most once, never over a directory or, creating, over anything; it is told that it
committed only if it wrote, and by `file.write` only while the file still has its
content; a reason that blames the target only if it did not. Every behaviour of
`FileAdapter` is one of `AtomicWrite` (`ImplementsAtomicWrite`).

**`MemoryAdapter`, `MCMemoryAdapter`, `MemoryAdapterProofs`.** The read of
`prepare` and the rewrite of `commit` are two actions; whatever other writers do
happens between them.

**`LocalService`, `LocalServiceProofs`.** A handler thread's `pc` is the next thing it
does that others can see: append to `stream[h]` (`Write`, then `Verify` under the same
lock), `ResolveRoot`, `Evaluate`, `Answer`. The pipeline is abstract: an outcome, and
for two of them an effect. A post has a number of its own, which the code does not
know; the records carry the client's `request_id`. `Classify` and `Exportable` are
`service_records.py` over the streams as they stand. The streams are `JsonlLedger`s.

**`RuntimeApi`.** Lowering as operators on records whose fields may be absent, null
or malformed: which records are refused (`ScopeOutcome`, `ProposalIsCanonical`,
`ApprovalIsCanonical`), which make the program raise something nobody catches, and
what the rest become (`ScopeFromRecord`, ...). The code tests several fields for truth
before it looks at their type, so an empty string or object passes for an empty list;
0 and false count with `Null`, of which `tuple()` raises; so does a `record_type` that
has no hash (`Malformed`). `AdmissionReason` and
`StopsAtApproval` are the dispatch of `evaluate` and of `interpreter.py`.

**`NetworkAdapter`, `NetworkAdapterProofs`.** A fetcher is a caller of the adapter;
`phase` says how far it is: `Prepare` (checks in the code's order, with one
resolution), `Pin` (a second resolution, checked and pinned), `Request`, `Read` per
chunk, `Persist`, or a failure at any of them. What a host resolves to, whether a
connection stands, status, declared length, media type and body are choices of the
environment, made afresh every time. `wire` holds every request that was sent, `store`
the kept responses. A failure has a reason or is one the code maps to none (`raises`):
a host the resolver cannot encode, a path the request line cannot (`Unencodable`), a
declared length that `int` does not take, after which `RejectionReason(str(exc))`
(436, 498) raises again. The port of a connection is that of the URL, or of the proxy
that `build_opener` takes from the environment (`ProxyPort`); the address is the
pinned one either way. The persisting write is one step, which the refinement of
`AtomicWrite` by `FileAdapter`'s mode `anchored` justifies.

**`RunBundle`, `MCRunBundle`, `RunBundleProofs`.** A bundle directory and the
operators at work on it. `job[f].at` is the next access of a command to the
directory: the check of the outputs, the inputs, `approval.json`, the evaluation,
then looking for (unless it may overwrite), truncating and filling `effect.json` and
`trace.json`; `approve` shows what is
pending, decides on what it reads anew, truncates and fills `approval.json` and goes
on as an overwriting run. Between `Evaluate` and `Outcome` the steps are those of
`NetworkAdapter` and the checks those of `Approvals`, so the module composes three
others. `Edit` changes the inputs, `Crash` kills a command anywhere (a file that cannot be
written is the same). An exception of the adapter, of the lowering or of the approval
check ends a command by an ordinary step of its own (`Refuse`, `Withhold`, `Outcome`).

**`TraceLedger`.** `append_trace_ledger` as operators over `JsonlLedger`: the append,
the comparison of the tail, the scan. Nothing but the self tests calls it, so it has
theorems (in `OperatorProofs`) and no state machine.

**`PolicyBlock`, `Tongue`.** The two surfaces that people and agents
write by hand, as operators that end in the records of `RuntimeApi`. A policy block
is a sequence of lines, each a record of what it says; `IsPolicyBlock` is what
parses, `BlockRecord` the scope it becomes. A spoken line is its first word and its
parts; `ParsedLine` is its proposal, `ProposeFromUtterance` the bridge. One scope and
one proposal of the `bundle` run are made by them.

**`OperatorProofs`.** The lemmas and theorems about the modules that have no state,
which the proofs about the state machines cite.

Definitions headed *seeded fault* are wrong on purpose: a plausible bug in one
definition of the code, which `PROJECT.json` pairs with the property it must
break. No specification uses them.

## The runs

| run | instance | shows |
|---|---|---|
| `lock` | 3 callers, 4 inodes, any errors and deaths | one inode is flocked, by one caller at a time, the name never goes away, no lock is orphaned; implements the mutex; somebody always proceeds |
| `keys` | 2 callers, 11 requests, 3 calls, 2 faults of 7 kinds, clock 0..1 | at most one recorded effect per (scope, key) and no effect after a record; only faults repeat effects; replays are faithful; effects and hand-overs were cleared, also by an approval that lapses while its call waits for the lock; custody modes never mix |
| `budget` | 1 caller, 4 calls, window 2, cap 1, clock 0..4 | serial: never more effects than the cap in a window shortened by the longest delay between a check and its effect, and no refusal without the scope's own effects |
| `concurrent` | 2 callers, 3 calls, a budget, keys, 1 fault, weak fairness | the rate ledger never over-counts; every call ends |
| `crash` (violated) | 1 caller, 2 calls, 1 death | a death between commit and record: the retry performs the effect again, against "at most once per (scope, key)" after a crash |
| `torn` (violated) | 1 caller, 2 calls, 1 torn append | one torn record makes the lookup of every later keyed call of the root fail (`adapter_commit_failed`, which here is the runtime's own reason; an adapter's refusal is `adapter_refused`), against "it only means a future retry would not dedupe" |
| `prune` (violated) | 1 caller, 2 scopes, 4 calls | a scope with a short window prunes events another still has to count: more than N in its window, with serial callers and no delay |
| `memory_overlap` | 3 writers, 5 calls | the ledger stays one that `prepare` accepts; nothing is missing while versions are distinct |
| `memory_lost` (violated) | 2 writers, 2 calls | an overlapping commit drops an acknowledged record |
| `files` | 2 writers, 3 calls of 3 modes and 2 contents, 2 outside changes, 1 fault | no partial file, nothing outside, one creator, no temp file left except by a death or a removal that itself failed; each call, over all its steps, is one whole write or none with a true answer (`AtomicWrite`) |
| `service` | 2 threads, 2 posts under 2 ids, 2 faults, weak fairness | answers and effects have legible records; no commit is claimed that was not, none hidden of an id posted once; threads never spoil each other's appends; every request ends |
| `bundle` | 2 operators, 7 bundles to start from, 2 commands, 1 edit or death, 3 resolutions, cap of 1 chunk | nothing leaves under a `scope.json` that asks for approval without a clearing `approval.json`; connections and kept responses are within scope; evidence is true; a run alone reports what it sent, a decision alone gets its own outcome, unless an exception of the adapter ends it |

Bounds. Two callers suffice for every race on a ledger, since each access is one step
of one caller; three for the creation race of the lock (one links, one finds the name
taken, one comes later). Three calls leave room for an effect, its retry and a
conflict, and two faults for a death and a torn record in one history. Two posts
suffice for the service: a torn append and the one it swallows, a retry under one id,
two appends at once; two faults put a failing append and a death in one history. Four
serial calls and four ticks put events before, at and after the edge of a window of
two ticks, and leave a call one or two to lose between its check and its effect. The
approval until tick 1 of `keys` is good when its call is made and lapses when the one
tick comes, which may be while the call waits for its lock, between its check and its
commit, or never. The lock needs one inode for each caller that creates a temp file
and one that a death leaves behind. Two commands on a bundle suffice for a run against
a run, an approval against a denial and either against a run, because a paused bundle
is among the starting ones; proposals that make the adapter raise come in by an edit
before the command; a cap of one chunk has bodies below, at and above it; one accident
is an edit between any two accesses or a death at any. The scope and proposal are read
in one step, which one edit cannot tell from two. Operators are interchangeable and
every property of the run is an invariant or a property of steps, so symmetry is sound
there as in the other runs that use it. `CHECK_DEADLOCK FALSE` wherever the calls are
bounded: when the last call is done nobody has to make another.

Fairness. `FairSpec` asks that a caller inside a call keeps running (weak fairness
of its own steps), which is what threads and processes get from the scheduler; in
`LocalService` likewise for a thread with a request. It
promises no new calls, no faults, no time, and says nothing of the order in which
waiting callers get a flock; `EveryCallReturns` is therefore stated for finite
batches, and `SomeoneProceeds` of whoever waits, not of each.

Known limits of the code that the models keep. Budgets hold only for serial callers
with one scope on a sandbox root, and then only up to the time a call lets pass
between its check (919) and its effect (985). The effect is dated by its check and
forgotten a window after that: checked at 0 and committed at 3, it is not counted by a
check at 3 with a window of 2, so a serial caller has two effects in one window of
one, where `runtime_ir.py` 114-123 promises at most that many within any trailing
window. `BudgetHeldUpToDelay` is what remains of the promise. `rate_count_recent`
counts every event of the root whatever its scope (350-363), so a scope can be refused
for another's effects, and concurrent rewrites lose events. Expiry is compared once,
after the wait for the lock and before the budget and the commit: `EffectsAuthorized`
says that the approval was in force at some moment between lock and effect, and an
effect can come after it has lapsed; `docs/ugly-trace-v0.md` 106-108 says that the
runtime rejects an expired approval before adapter commit, which is what it does,
once. The comment in `runtime_ir.py` 149-153 that lookup and record are not under one
lock is older than the lock. A commit that fails to verify leaves its effect in place
and unrecorded, and a retry performs it again. The service does not ask that a
`request_id` be new: of an id posted twice the classification can be `service_error`
although one of the posts committed, where `docs/recovery-evidence-v0.md` 78-79
reserves the word for requests without an effect; `PostedOnceHidesNothing` is
therefore stated of ids posted once. One torn line makes the export of all requests
fail (`Exportable`).

Of run bundles: `approve` shows what is pending (`cli.py` 325), waits for the answer
and reads the files again (210), so an edit meanwhile binds the yes to what nobody was
shown; overlapping commands may each perform the effect, and an approval may be
followed by the run of a denial written just after it, for which reason
`DecisionFollowed` and `RequestsReported` are stated of commands nobody disturbed.
They also except a command that an exception of the adapter ends: after a host the
resolver cannot encode (`network_adapter.py` 436), a path without an encoding or a
`Content-Length` that `int` does not take (498) an approval is in `approval.json`, the
request may have been sent, and `effect.json` stays paused, although `approve_bundle`
(199-201) says that it reflects the outcome. Two runs without `--overwrite` that both
find no `effect.json` (66) both write it, and the later one replaces the evidence of
the other, which `write_json_object` (64) says it refuses to do. A death, or an
exception of the adapter, between the request and `effect.json` leaves a pause in
place, and approving it again repeats the request; files are written in place, so a
reader can meet an empty or garbled one. A supplied approval with status
`not_required` counts as a yes. Of lowering: an `expires_at` that is not a string is
dropped; a `network_allow` or list of content types that is null, 0 or false raises a
`TypeError`, an allowlist entry with a bad port a `ValueError`, and no command catches
either. Of policy blocks: `policy` lines, which `docs/charter-v0.md` 114 calls
admission rules, the patterns of capabilities, the targets of resources and the
authority an approval line asks for end up in the record, and the runtime reads none
of them, so a block that grants `file.write` on a pattern grants it in the whole
sandbox; `//` starts a comment in a quoted text too, so a URL cannot be written as a
target or pattern. A spoken line of an actor with an empty name is refused by the
lowering, on a path `tongue_bridge.py` 139 marks as never taken. Of `network.fetch`: a
body the peer cut short can be kept as complete, and a second response for a target
replaces the first. With a proxy in the environment the connection goes to the pinned
address of the target's host at the proxy's port. A URL with a lone surrogate, of
which `prepare` raises, is not among the URLs; it ends a command as a bad port of an
allowlist entry does. Of the trace ledger: a trace appended after an unterminated
fragment is verified and yet no reader of lines finds it (`FragmentHidesVerified`).

`RunBundle` is about `network.fetch` proposals without idempotency key or budget and
with a clock that stands still; keys, budgets and time are `GovernedRuntime`'s.

## The proofs

All by TLAPS, for any numbers of callers, writers, requests, faults and calls. Every
invariant and every property of steps that a run checks is also a theorem; only
liveness is not. An invariant here is the conjunction of the parts named below, each of
which TLC also finds to hold on the instance of the component's run.

* `IdempotencyLockProofs`: the safety properties of the lock and the refinement of
  `KeyMutex`. The inductive invariant says that whoever flocks does so on the inode
  of the stable name, which once set never changes.
* `OperatorProofs`, about the modules without state. An append keeps every earlier
  piece and adds one; what the read-back of the trace ledger establishes and what it
  does not, for ledgers of any content. The chain of approval checks is the
  declarative clearance. A block that parses lowers to a scope or is refused for a
  condition (`BlockOutcome`) and asks for exactly the approvals it names
  (`BlockAsks`); a spoken line of a named actor is always acknowledged
  (`SpeechIsAcknowledged`) and never reaches an adapter (`SpeechNeverActs`). The last
  four suppose that strings and lists are none of the values that stand for missing
  and malformed fields.
* `GovernedRuntimeProofs`: `RuntimeInvariant` is inductive, and with it `TypeOK`,
  `LockDiscipline`, `AtMostOneRecorded`, `NoEffectAfterRecord`, `ReplayIsFaithful`,
  `EffectsAuthorized` and `CustodyHonored`. None is inductive alone. A commit adds
  an effect without a record of its claim because the lookup found none
  (`LookupHolds`); that stays true because only the holder of the claim's lock
  appends under it (`LockDiscipline`); it is enough because calls are numbered
  apart (`CallsDistinct`), the ledger has one record per claim
  (`OneRecordPerClaim`), and each point of the pipeline is reached only with what
  was checked before it (`Progress`). `OnlyFaultsRepeatEffects` needs more: as long as
  nothing failed, an effect of a claim is either recorded or its caller is about to
  record it and still holds the lock (`Unfaulted`), so no other lookup can miss it.
* The budget, in the same module. `BudgetInvariant` ties every event of the rate
  ledger, and every list of events a caller carries from its read to its rewrite, to
  one committed effect (`Backed`, `RateBacked`), and keeps effects apart by call
  (`EffectsApart`): concurrent rewrites lose events and never invent or double one
  (`RuntimeNeverOvercounts`). `RuntimeLimitedByOwnEffects` compares cardinalities of
  windows: what a caller counted belongs to as many effects, so that one refused for
  its rate has a full window behind it (`Filled`), and the window that ends at its time
  only grows.
  It supposes that all requests on a root share a `scope_id`, because the code counts
  the events of all scopes (350-363). `RuntimeHoldsBudget` supposes one caller at a
  time, one scope, and neither a death nor a failed rewrite of the ledger
  (`OneAtATime`): then every effect whose check is still inside the window has its
  event (`NothingLost`, `KeptAll`) and a caller past the check has room for one more
  (`HasRoom`). That is a bound by the dates of the checks; if no call lets more than
  `d` pass between check and effect, the effects of a window shortened by `d` have their
  checks in one whole window, and `BudgetHeldUpToDelay` follows. Each condition is
  needed: two callers pass the check together, a death or a failed write loses the
  event, a scope with a shorter window prunes events another counts (`prune`), and
  without the shortening the bound is false.
* `FileAdapterProofs`: `FileInvariant` is inductive, and with it all properties of the
  run `files`. A caller past a step still holds what it made there: its directory is
  inside, its temp file is its own and, once filled, whole (`Held`), and calls are
  told apart (`CallsApart`). What a call placed was whole when it was linked or
  renamed, which is why nobody sees a part of it; and as long as nobody outside
  touches the file, once created it is there (`CreatedIsThere`), so that a second
  link fails. A temp file that no call has any more is excused by a death or by a
  removal that failed, never by another failing system call: `TempsRemoved` says so of
  every `except` and `finally` on the way (366-371, and 138-143 of
  `runtime_core.py`). The refinement of `AtomicWrite` (`FileImplementsAtomicWrite`) maps
  `Prepare` to the beginning of a call, a rename or link that succeeds to its write,
  what the caller is told to its answer, a death to the end of the call, and every
  other step to a stutter. It needs that a call whose temp file is in place never
  gets there again and never blames the target (`PlacedWhere`).
* `LocalServiceProofs`: `ServiceInvariant` is inductive, and with it all safety
  properties of the run `service`. Each stream keeps the lines it had under any later
  append, torn or not (`LinesKept`, by the lemmas about `JsonlLedger`), the lock
  separates a write from the writes of others until it is compared (`Locked`), and
  a thread gets to its evaluation only with its request in the stream
  (`RequestedFirst`). `CommitsTold` and `ErrorsShow` say what the streams show of an
  effect at each place of its thread, from which the truth of the classification
  follows; posts, which the code cannot tell apart under one id, are numbered
  (`Numbered`).
* `MemoryAdapterProofs`: the ledger stays readable, and a loss shows in the
  versions. What a writer carries from `prepare` was committed whole, and its own
  record is new (`Carried`); if versions are distinct after a commit, the ledger it
  replaced was no longer than what it had read.
* `NetworkAdapterProofs`: `NetInvariant` is inductive. Each fetcher past `Prepare` has
  a URL that passed the checks for its own scope (`Checked`), past `Pin` an address
  that passed them too (`PinnedIsSafe`), past `Request` a request on the wire that it
  is the answer to (`Answered`), and calls are told apart (`CallsApart`); with these,
  `ConnectsToChecked` and `StoredWithinScope`.
* `RunBundleProofs`: `BundleUsesAdapter` shows that every behaviour of a bundle is one of
  `NetworkAdapter`, since run numbers never repeat and only what was lowered
  reaches the adapter; the adapter's two theorems then hold of bundles without
  being proved again. `RequestsApproved` and `EvidenceIsTrue` come from `BundleInvariant`: what
  a command carries was in the files when it read them, who is at the commit was
  cleared by an approval that had been put in the bundle (by `VerdictIsClearance`),
  and what a command is about to report agrees with what the wire and the store hold for
  its number. A block's scope reaches no network (`BlockReachesNoNetwork`).
* The two properties of steps of a bundle, in the same module. `AloneInvariant`: while
  a command is undisturbed nobody else is running, so each file is as it found or
  left it, and it can end with a request sent only after both reports
  (`BundleRequestsReported`). `DecisionInvariant`: an undisturbed decision is, from the
  moment it is made, the one its run reads back, and its verdict is the yes or no
  that was meant (`DecisionIsClear`), up to the report (`BundleDecisionFollowed`). Both
  suppose that the values standing for an absent, empty or garbled file and for null
  and malformed fields are no records (`MarksAreNoRecords`), and both except the step
  in which an exception of the adapter ends the command (`Raised`), since the code
  reports nothing then.

`LockDiscipline` of the pipeline, `TypeOK` of `IdempotencyLock` and `MemoryAdapter`
and `CommittedWasPlaced` of `FileAdapter` are proved (`RuntimeLockDiscipline`,
`LockTypes`, `MemoryTypes`, `CommitsAreTrue`) and are no properties of a run; the last
is part of what `ImplementsAtomicWrite` says.

Assumptions: those the modules name (`RequestAssumption`, `RuntimeAssumption`,
`ApprovalAssumption`, `LockAssumption`, `MemoryAssumption`, `NetworkAssumption`,
`RecordAssumption`, `BundleAssumption`), which TLC evaluates in
the runs. `RequestAssumption` makes the digest of an intent injective by letting the
intent stand for it, and has budgets of integers, which lowering checks
(`runtime_api.py` 292-306). The hypotheses named above are stated in the theorems
that need them, not assumed of the models.

Only model-checked: liveness under fairness (`SomeoneProceeds`, `EveryCallReturns`,
`EveryRequestEnds`), which is out of this prover's reach.

## The plan

1. Done: the key lock, approvals, the JSONL ledger, the pipeline, `memory.write`,
   the anchored file write, with the proofs above.
2. Done: `LocalService`, `NetworkAdapter`, `RuntimeApi`, `RunBundle` over them,
   `TraceLedger`, `PolicyBlock` and `Tongue`, with the proofs above.
3. Done: every safety property, property of steps and refinement of the runs as a
   theorem.
4. Left: an abstract once-per-key specification that the fault-free pipeline
   implements.

Not modelled: `tongue_renderer.py` (wording), the character-level grammar of the two
parsers, the argument parser and wording of `cli.py`, the `coerce_*`
helpers that let a caller pass objects instead of records, the self tests and
validators, the release scripts, fixtures and documents. Trace events are left out
of every model: nothing reads them back to decide anything, except
`service_records.py`, which looks for one kind of event (`CommitTraced`).
