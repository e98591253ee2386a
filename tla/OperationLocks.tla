--------------------------- MODULE OperationLocks ---------------------------
(***************************************************************************)
(* The table operation_locks (store.py): durable mutexes around artifacts  *)
(* on GitHub that must not be made twice.  A lock has a name and an owner, *)
(* the coordinator of a process: the threads of a process share it.        *)
(* Whether expires_at is ahead is the flag live, as for leases.            *)
(***************************************************************************)

VARIABLE locks  \* rows [name, owner, live]

\* Unexpired holders of a lock, whatever thread they are.
Held(n) == \E l \in locks : l.name = n /\ l.live

\* Every acquisition sweeps the expired rows of all names, then inserts or
\* ignores.
Unexpired == {l \in locks : l.live}

AcquireOperationLock(n, o) ==
  /\ ~Held(n)
  /\ locks' = Unexpired \cup {[name |-> n, owner |-> o, live |-> TRUE]}

OperationLockRefused(n) ==
  /\ Held(n)
  /\ locks' = Unexpired

\* By name and owner: a row that a thread of the same process inserted after
\* an expiry goes too.
ReleaseOperationLock(n, o) == locks' = {l \in locks : ~(l.name = n /\ l.owner = o)}

LockExpires(l) ==
  /\ l \in locks /\ l.live
  /\ locks' = (locks \ {l}) \cup {[l EXCEPT !.live = FALSE]}
=============================================================================
