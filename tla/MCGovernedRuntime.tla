-------------------------- MODULE MCGovernedRuntime --------------------------
(* Scopes, intents and requests for the runs of GovernedRuntime.             *)
EXTENDS GovernedRuntime, TLC

Scope(id, max, window) ==
  [scope_id |-> id, capabilities |-> {"memory.write"},
   approval_required_for |-> {"memory.write"},
   max_effects_per_window |-> max, rate_window_seconds |-> window]

Intent(id, key, custodyMode) ==
  [intent_id |-> id, operation |-> "memory.write", well_typed |-> TRUE,
   required_capability |-> "memory.write", idempotency_key |-> key,
   custody_mode |-> custodyMode]

Request(scope, intent) ==
  [scope |-> scope, adapter |-> "memory.write", speech_act |-> "intend",
   intent |-> intent, approval |-> Unset, approval_granted |-> TRUE,
   stop_at_approval |-> FALSE]

Until(r, t) ==
  [r EXCEPT !.approval = MakeApprovalDecision(r.scope, r.intent, "approved", t)]

-----------------------------------------------------------------------------
Plain == Scope("s1", 0, 0)
Other == Scope("s2", 0, 0)
Keyed1 == Request(Plain, Intent("i1", "k", Unset))

OneKeyRequest == {Keyed1}

(* Keys: one intent under a key, with an approval that lapses at the tick the *)
(* run has, which a call may spend waiting for the lock; another intent under *)
(* the same key; the key in another scope; the key again for record_only.     *)
KeyRequests == {Until(Keyed1, 1),
                Request(Plain, Intent("i2", "k", Unset)),
                Request(Other, Intent("i1", "k", Unset)),
                Request(Plain, Intent("i1", "k", "record_only"))}

(* Approvals: one that has just lapsed, one for another intent, one bound to *)
(* nothing, a naive one, none at all, a dry run, and a proposal no check     *)
(* admits; record_only beside execute.                                       *)
ApprovalRequests ==
  LET foreign == Until(Request(Other, Intent("i2", "k", Unset)), Unset).approval
  IN  {Until(Keyed1, 0), Until(Keyed1, Naive),
       [Keyed1 EXCEPT !.approval_granted = FALSE],
       [Keyed1 EXCEPT !.approval = foreign],
       [Keyed1 EXCEPT !.approval = [foreign EXCEPT !.scope_id = Unset, !.intent_id = Unset,
                                                   !.intent_sha256 = Unset]],
       [Keyed1 EXCEPT !.stop_at_approval = TRUE],
       [Keyed1 EXCEPT !.scope.capabilities = {}],
       Request(Plain, Intent("i1", "k", "record_only"))}

SafetyRequests == KeyRequests \cup ApprovalRequests

(* Budgets: one effect in a window, by execute and record_only; the window   *)
(* is long enough to be shortened by a delay.                                *)
BudgetRequests == {Request(Scope("s1", 1, 2), Intent("i1", Unset, Unset)),
                   Request(Scope("s1", 1, 2), Intent("i2", Unset, "record_only"))}

(* A window of one tick, and a key on one of the requests.                   *)
Rated == Scope("s1", 1, 1)
ConcurrentRequests == {Request(Rated, Intent("i1", "k", Unset)),
                       Request(Rated, Intent("i2", Unset, "record_only"))}

(* Two scopes over one sandbox root, one of them with a longer window.       *)
SharedRootRequests == {Request(Scope("s1", 2, 2), Intent("i1", Unset, Unset)),
                       Request(Scope("s2", 1, 1), Intent("i2", Unset, Unset))}

Interchangeable == Permutations(Callers)
=============================================================================
