----------------------------- MODULE LeaseLock -----------------------------
(***************************************************************************)
(* What the leases table promises its clients: locks on keys that expire.  *)
(* A key has one holder, which holds no other key.  It passes to another   *)
(* only after it was given up, and a hold that expired never counts again. *)
(***************************************************************************)
CONSTANTS Keys, Jobs

VARIABLES
  holds,   \* pairs <<key, job>>
  lapsed   \* those whose time is over

lockVars == <<holds, lapsed>>

LockInit == holds = {} /\ lapsed = {}

Take(k, j) ==
  /\ \A h \in holds : h[1] # k /\ h[2] # j
  /\ holds' = holds \cup {<<k, j>>}
  /\ UNCHANGED lapsed

Lapse(h) ==
  /\ h \in holds \ lapsed
  /\ lapsed' = lapsed \cup {h}
  /\ UNCHANGED holds

\* Given up by its holder, or taken away: who may is not the table's business.
GiveUp(h) ==
  /\ h \in holds
  /\ holds' = holds \ {h}
  /\ lapsed' = lapsed \ {h}

LockNext ==
  \/ \E k \in Keys, j \in Jobs : Take(k, j)
  \/ \E h \in Keys \X Jobs : Lapse(h) \/ GiveUp(h)

LockSpec == LockInit /\ [][LockNext]_lockVars
=============================================================================
