--------------------------- MODULE LeaseTheorems ---------------------------
(***************************************************************************)
(* The leases table implements a table of expiring locks: StoreSpec        *)
(* implies LeaseLock's specification under the mapping of Store, for any   *)
(* number of jobs, keys and owners.                                        *)
(***************************************************************************)
EXTENDS StoreTheorems

LeaseInvariant == leases \subseteq LeaseRow /\ LeaseTable

\* What a call may do to the leases table, and nothing else.
LeaseChange ==
  \/ leases' = leases
  \/ \E j \in Jobs : leases' = WithoutLeaseOf(j)
  \/ \E l \in leases : LeaseExpires(l)
  \/ \E j \in Jobs, o \in Owners : ClaimNext(j, o)

LEMMA StepChangesLeases == [StoreNext]_storeVars => LeaseChange
<1> SUFFICES ASSUME [StoreNext]_storeVars PROVE LeaseChange
  OBVIOUS
<1>1. ASSUME NEW j \in Jobs, WorkerCall(j) PROVE LeaseChange
  BY <1>1 DEF LeaseChange, WorkerCall, BeginAttempt, Transition, RecordPr,
     RecordReview, RecordConversation, RecordPhase
<1>2. ASSUME NEW j \in Jobs, OperatorCall(j) PROVE LeaseChange
  BY <1>2 DEF LeaseChange, OperatorCall, EnsureJob, UpdateSnapshotIfUnclaimed,
     AcceptSnapshot, RecordRouting, RequestControl, RequestCancel,
     RequestPause, RequestRequeue, ReapExpired
<1>3. CASE Clock
  BY <1>3 DEF LeaseChange, Clock, SetProviderBackoff, BackoffElapses
<1>4. CASE UNCHANGED storeVars
  BY <1>4 DEF LeaseChange, storeVars
<1>5. QED
  BY <1>1, <1>2, <1>3, <1>4 DEF StoreNext

\* The row a claim inserts: its key and its job were free.
LEMMA ClaimedRow ==
  ASSUME StoreTypeOK, NEW j \in Jobs, NEW o \in Owners, ClaimNext(j, o)
  PROVE  \E k \in Keys, r \in LeaseRow :
           /\ r.key = k /\ r.job = j /\ r.live
           /\ leases' = leases \cup {r}
           /\ \A l \in leases : l.key # k /\ l.job # j
<1> DEFINE r == [key |-> job[j].route.key, job |-> j, owner |-> o, live |-> TRUE]
<1>1. job[j].route.key \in Keys
  BY StoreAssumption DEF StoreTypeOK, JobRow, Route
<1>2. r \in LeaseRow /\ r.job = j /\ r.live /\ r.key = job[j].route.key
  BY <1>1 DEF LeaseRow
<1>3. leases' = leases \cup {r}
  BY DEF ClaimNext
<1>4. \A l \in leases : l.key # job[j].route.key /\ l.job # j
  BY DEF ClaimNext, ClaimCandidates, Claimable, LeasesOf
<1>5. QED
  BY <1>1, <1>2, <1>3, <1>4

\* The row an expiry writes differs from the one it replaces in live only.
LEMMA ExpiredRow ==
  ASSUME leases \subseteq LeaseRow, NEW l \in leases, LeaseExpires(l)
  PROVE  \E m \in LeaseRow :
           /\ m.key = l.key /\ m.job = l.job /\ ~m.live /\ l.live
           /\ leases' = (leases \ {l}) \cup {m}
<1> DEFINE m == [l EXCEPT !.live = FALSE]
<1>1. m \in LeaseRow /\ m.key = l.key /\ m.job = l.job /\ ~m.live
  BY DEF LeaseRow
<1>2. QED
  BY <1>1 DEF LeaseExpires, LiveLeases

LEMMA LeaseInvariantStep ==
  StoreTypeOK /\ LeaseInvariant /\ [StoreNext]_storeVars => LeaseInvariant'
<1> SUFFICES ASSUME StoreTypeOK, LeaseInvariant, LeaseChange PROVE LeaseInvariant'
  BY StepChangesLeases
<1>1. CASE leases' = leases
  BY <1>1 DEF LeaseInvariant, LeaseTable
<1>2. ASSUME NEW j \in Jobs, leases' = WithoutLeaseOf(j) PROVE LeaseInvariant'
  BY <1>2, WithoutLeaseFacts DEF LeaseInvariant, LeaseTable
<1>3. ASSUME NEW l \in leases, LeaseExpires(l) PROVE LeaseInvariant'
  BY <1>3, ExpiredRow DEF LeaseInvariant, LeaseTable
<1>4. ASSUME NEW j \in Jobs, NEW o \in Owners, ClaimNext(j, o) PROVE LeaseInvariant'
  BY <1>4, ClaimedRow DEF LeaseInvariant, LeaseTable
<1>5. QED
  BY <1>1, <1>2, <1>3, <1>4 DEF LeaseChange

-----------------------------------------------------------------------------
(* The four changes as steps of the lock table.                            *)

LEMMA StepReleases ==
  ASSUME LeaseInvariant, NEW j \in Jobs, leases' = WithoutLeaseOf(j)
  PROVE  [Locks!LockNext]_(Locks!lockVars)
<1>1. CASE LeasesOf(j) = {}
  <2>1. leases' = leases
    BY <1>1 DEF WithoutLeaseOf, LeasesOf
  <2>2. QED
    BY <2>1 DEF Locks!lockVars, Holds, LiveLeases
<1>2. CASE LeasesOf(j) # {}
  <2>1. PICK l \in leases : l.job = j
    BY <1>2 DEF LeasesOf
  <2> DEFINE h == <<l.key, l.job>>
  <2>2. h \in Keys \X Jobs /\ h \in Holds(leases)
    BY <2>1 DEF LeaseInvariant, LeaseRow, Holds
  <2>3. \A m \in leases : m.job = j <=> m = l
    BY <2>1 DEF LeaseInvariant, LeaseTable
  <2>4. leases' = leases \ {l}
    BY <2>3 DEF WithoutLeaseOf
  <2>5. \A m \in leases : <<m.key, m.job>> = h => m = l
    BY <2>1, <2>3
  <2>6. Holds(leases)' = Holds(leases) \ {h}
    BY <2>4, <2>5 DEF Holds
  <2>7. Holds(leases \ LiveLeases)' = Holds(leases \ LiveLeases) \ {h}
    BY <2>4, <2>5 DEF Holds, LiveLeases
  <2>8. Locks!GiveUp(h)
    BY <2>2, <2>6, <2>7 DEF Locks!GiveUp
  <2>9. QED
    BY <2>2, <2>8 DEF Locks!LockNext
<1>3. QED
  BY <1>1, <1>2

LEMMA StepExpires ==
  ASSUME LeaseInvariant, NEW l \in leases, LeaseExpires(l)
  PROVE  [Locks!LockNext]_(Locks!lockVars)
<1> DEFINE h == <<l.key, l.job>>
<1>1. PICK m \in LeaseRow : /\ m.key = l.key /\ m.job = l.job /\ ~m.live /\ l.live
                            /\ leases' = (leases \ {l}) \cup {m}
  BY ExpiredRow DEF LeaseInvariant
<1>2. h \in Keys \X Jobs
  BY DEF LeaseInvariant, LeaseRow
<1>3. Holds(leases)' = Holds(leases)
  BY <1>1 DEF Holds
<1>4. h \in Holds(leases) \ Holds(leases \ LiveLeases)
  BY <1>1 DEF Holds, LiveLeases, LeaseInvariant, LeaseTable
<1>5. Holds(leases \ LiveLeases)' = Holds(leases \ LiveLeases) \cup {h}
  BY <1>1 DEF Holds, LiveLeases
<1>6. Locks!Lapse(h)
  BY <1>3, <1>4, <1>5 DEF Locks!Lapse
<1>7. QED
  BY <1>2, <1>6 DEF Locks!LockNext

LEMMA StepClaims ==
  ASSUME StoreTypeOK, LeaseInvariant, NEW j \in Jobs, NEW o \in Owners,
         ClaimNext(j, o)
  PROVE  [Locks!LockNext]_(Locks!lockVars)
<1>1. PICK k \in Keys, r \in LeaseRow :
           /\ r.key = k /\ r.job = j /\ r.live
           /\ leases' = leases \cup {r}
           /\ \A l \in leases : l.key # k /\ l.job # j
  BY ClaimedRow
<1>2. \A h \in Holds(leases) : h[1] # k /\ h[2] # j
  BY <1>1 DEF Holds
<1>3. Holds(leases)' = Holds(leases) \cup {<<k, j>>}
  BY <1>1 DEF Holds
<1>4. Holds(leases \ LiveLeases)' = Holds(leases \ LiveLeases)
  BY <1>1 DEF Holds, LiveLeases
<1>5. Locks!Take(k, j)
  BY <1>2, <1>3, <1>4 DEF Locks!Take
<1>6. QED
  BY <1>5 DEF Locks!LockNext

\* Every behaviour of the store, with any clients calling it in any order, is a
\* behaviour of a table of expiring locks: claims, releases, recoveries and
\* expiries of the leases of store.py never hand a held key over.
THEOREM LeasesImplementLocks == StoreSpec => LeasesAreLocks
<1>1. StoreInit => LeaseInvariant /\ Locks!LockInit
  BY DEF StoreInit, LeaseInvariant, LeaseTable, Locks!LockInit, Holds, LiveLeases
<1>2. ASSUME StoreTypeOK, LeaseInvariant, [StoreNext]_storeVars
      PROVE  [Locks!LockNext]_(Locks!lockVars)
  <2>1. LeaseChange
    BY <1>2, StepChangesLeases
  <2>2. CASE leases' = leases
    BY <2>2 DEF Locks!lockVars, Holds, LiveLeases
  <2>3. QED
    BY <1>2, <2>1, <2>2, StepReleases, StepExpires, StepClaims DEF LeaseChange
<1>3. QED
  BY <1>1, <1>2, StoreTypeInit, StoreTypeStep, LeaseInvariantStep, PTL
     DEF StoreSpec, LeasesAreLocks, Locks!LockSpec
=============================================================================
