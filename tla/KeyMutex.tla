------------------------------ MODULE KeyMutex ------------------------------
(***************************************************************************)
(* What the idempotency lock promises its callers: at any time at most one *)
(* of them is inside the replay-check -> commit -> record section of one   *)
(* (scope, key) pair, and only its owner leaves it.  IdempotencyLock is    *)
(* shown to implement this; GovernedRuntime uses it as a single step.      *)
(***************************************************************************)
CONSTANTS Callers,   \* threads or processes that evaluate proposals
          NoCaller   \* the section is free

VARIABLE owner

Init == owner = NoCaller

Acquire(p) == /\ owner = NoCaller
              /\ owner' = p

\* An ordinary release, or the kernel dropping the lock of a dead process.
Release(p) == /\ owner = p
              /\ owner' = NoCaller

Next == \E p \in Callers : Acquire(p) \/ Release(p)

Spec == Init /\ [][Next]_owner
=============================================================================
