--------------------------- MODULE StoreTheorems ---------------------------
(***************************************************************************)
(* Theorems of the Store: they hold for any number of jobs, keys, owners   *)
(* and providers, any limits, and any order of calls by any clients.       *)
(***************************************************************************)
EXTENDS Store, FiniteSetTheorems, TLAPS

USE DEF QUEUED, RUNNING, NEEDS_GUIDANCE, PR_OPEN, REVIEWING, BLOCKED, FAILED,
        CANCELED, DONE, Absent

-----------------------------------------------------------------------------
(* Facts about the operators. *)

\* A row that does not exist yet is well-typed.
LEMMA AbsentRowType == AbsentRow \in JobRow
<1>1. (CHOOSE r \in Routes : TRUE) \in Routes
  BY StoreAssumption
<1>2. (CHOOSE c \in Contents : TRUE) \in Contents
  BY StoreAssumption
<1>3. QED
  BY <1>1, <1>2 DEF AbsentRow, JobRow

\* So is the one intake inserts.
LEMMA NewRowType ==
  NewRow \in JobRow /\ NewRow.state = QUEUED /\ NewRow.attempt = 0
  BY AbsentRowType DEF NewRow, AbsentRow, JobRow, JobState

\* What the calls of transition ask for: never RUNNING, and the lease is kept
\* only when the job goes to PR_OPEN or REVIEWING.
LEMMA TransitionCallFacts ==
  ASSUME NEW call \in TransitionCalls
  PROVE  /\ call[1] \in JobState
         /\ call[1] # RUNNING
         /\ call[2] \in BOOLEAN
         /\ call[1] \in StoppedStates => call[2]
<1>1. CASE call \in {QUEUED, NEEDS_GUIDANCE, PR_OPEN, BLOCKED, FAILED,
                     CANCELED, DONE} \X {TRUE}
  BY <1>1 DEF JobState
<1>2. CASE call = <<PR_OPEN, FALSE>>
  BY <1>2 DEF JobState, StoppedStates
<1>3. CASE call = <<REVIEWING, FALSE>>
  BY <1>3 DEF JobState, StoppedStates
<1>4. QED
  BY <1>1, <1>2, <1>3 DEF TransitionCalls

\* Recovery always leaves RUNNING and REVIEWING.
LEMMA RecoveryStateFacts ==
  ASSUME NEW j \in Jobs
  PROVE  RecoveryState(j) \in {CANCELED, NEEDS_GUIDANCE, PR_OPEN, QUEUED}
  BY DEF RecoveryState

\* Releasing the lease of a job removes its rows and no other.
LEMMA WithoutLeaseFacts ==
  ASSUME NEW j \in Jobs
  PROVE  /\ WithoutLeaseOf(j) \subseteq leases
         /\ \A l \in leases : l.job # j => l \in WithoutLeaseOf(j)
         /\ \A l \in WithoutLeaseOf(j) : l.job # j
  BY DEF WithoutLeaseOf

-----------------------------------------------------------------------------
(* Type correctness. *)

\* An UPDATE that writes a well-typed row keeps the table well-typed.
LEMMA PutType ==
  ASSUME StoreTypeOK, NEW j \in Jobs, NEW row \in JobRow, Put(j, row)
  PROVE  job' \in [Jobs -> JobRow]
  BY DEF Put, StoreTypeOK

LEMMA StoreTypeInit == StoreInit => StoreTypeOK
<1> SUFFICES ASSUME StoreInit PROVE StoreTypeOK
  OBVIOUS
<1>1. ASSUME NEW s \in {QUEUED, FAILED}, NEW n \in LegacyAttempts, NEW p \in BOOLEAN
      PROVE  LegacyRow(s, n, p) \in JobRow
  BY AbsentRowType, StoreAssumption DEF LegacyRow, JobRow, JobState
<1>2. \A r \in LegacyRows : r \in JobRow
  BY <1>1 DEF LegacyRows
<1>3. job \in [Jobs -> JobRow]
  BY <1>2, AbsentRowType, NewRowType DEF StoreInit
<1>4. QED
  BY <1>3 DEF StoreInit, StoreTypeOK

LEMMA WorkerCallType ==
  ASSUME StoreTypeOK, NEW j \in Jobs, WorkerCall(j)
  PROVE  StoreTypeOK'
<1> DEFINE r == job[j]
<1>1. ASSUME NEW o \in Owners, ClaimNext(j, o) PROVE StoreTypeOK'
  <2>1. r.route.key \in Keys
    BY StoreAssumption DEF Route, StoreTypeOK, JobRow
  <2>2. [key |-> r.route.key, job |-> j, owner |-> o, live |-> TRUE] \in LeaseRow
    BY <2>1 DEF LeaseRow
  <2>3. [r EXCEPT !.state = RUNNING, !.repair = FALSE] \in JobRow
    BY DEF StoreTypeOK, JobRow, JobState
  <2>4. leases' \subseteq LeaseRow
    BY <1>1, <2>2 DEF ClaimNext, StoreTypeOK
  <2>5. QED
    BY <1>1, <2>3, <2>4, PutType DEF ClaimNext, StoreTypeOK
<1>2. ASSUME NEW c \in Convs, BeginAttempt(j, c) PROVE StoreTypeOK'
  <2>1. r \in JobRow /\ r.attempt \in Nat
    BY DEF StoreTypeOK, JobRow
  <2>2. r.attempt + 1 \in Nat
    BY <2>1
  <2>3. \A n \in Nat : [r EXCEPT !.attempt = n, !.conv = c,
                             !.retry = FALSE, !.repair = FALSE] \in JobRow
    BY <2>1 DEF JobRow
  <2>4. QED
    BY <1>2, <2>2, <2>3, PutType DEF BeginAttempt, StoreTypeOK
<1>3. ASSUME NEW call \in TransitionCalls, Transition(j, call[1], call[2])
      PROVE  StoreTypeOK'
  <2>1. [r EXCEPT !.state = call[1], !.repair = FALSE] \in JobRow
    BY TransitionCallFacts DEF StoreTypeOK, JobRow
  <2>2. leases' \subseteq LeaseRow
    BY <1>3, WithoutLeaseFacts DEF Transition, StoreTypeOK
  <2>3. QED
    BY <1>3, <2>1, <2>2, PutType DEF Transition, StoreTypeOK
<1>4. ASSUME RecordPr(j) PROVE StoreTypeOK'
  <2>1. [r EXCEPT !.pr = TRUE] \in JobRow
    BY DEF StoreTypeOK, JobRow
  <2>2. QED
    BY <1>4, <2>1, PutType DEF RecordPr, StoreTypeOK
<1>5. ASSUME NEW c \in Convs, RecordReview(j, c) PROVE StoreTypeOK'
  <2>1. [r EXCEPT !.rconv = c] \in JobRow
    BY DEF StoreTypeOK, JobRow
  <2>2. QED
    BY <1>5, <2>1, PutType DEF RecordReview, StoreTypeOK
<1>6. ASSUME NEW c \in Convs, NEW b \in BOOLEAN, RecordConversation(j, c, b)
      PROVE  StoreTypeOK'
  <2>1. [r EXCEPT !.conv = c, !.repair = @ \/ b] \in JobRow
    BY DEF StoreTypeOK, JobRow
  <2>2. QED
    BY <1>6, <2>1, PutType DEF RecordConversation, StoreTypeOK
<1>7. ASSUME NEW b \in BOOLEAN, RecordPhase(j, b) PROVE StoreTypeOK'
  <2>1. [r EXCEPT !.repair = FALSE, !.retry = @ /\ ~b] \in JobRow
    BY DEF StoreTypeOK, JobRow
  <2>2. QED
    BY <1>7, <2>1, PutType DEF RecordPhase, StoreTypeOK
<1>8. QED
  BY <1>1, <1>2, <1>3, <1>4, <1>5, <1>6, <1>7 DEF WorkerCall

LEMMA OperatorCallType ==
  ASSUME StoreTypeOK, NEW j \in Jobs, OperatorCall(j)
  PROVE  StoreTypeOK'
<1> DEFINE r == job[j]
<1>1. ASSUME NEW s \in Routes, NEW c \in Contents, EnsureJob(j, s, c)
      PROVE  StoreTypeOK'
  <2>1. [NewRow EXCEPT !.route = s, !.content = c] \in JobRow
    BY NewRowType DEF JobRow, JobState
  <2>2. QED
    BY <1>1, <2>1, PutType DEF EnsureJob, StoreTypeOK
<1>2. ASSUME NEW s \in Routes, NEW c \in Contents, UpdateSnapshotIfUnclaimed(j, s, c)
      PROVE  StoreTypeOK'
  <2>1. [r EXCEPT !.route = s, !.content = c] \in JobRow
    BY DEF StoreTypeOK, JobRow
  <2>2. QED
    BY <1>2, <2>1, PutType DEF UpdateSnapshotIfUnclaimed, StoreTypeOK
<1>3. ASSUME NEW c \in Contents, AcceptSnapshot(j, c) PROVE StoreTypeOK'
  <2>1. [r EXCEPT !.content = c] \in JobRow
    BY DEF StoreTypeOK, JobRow
  <2>2. QED
    BY <1>3, <2>1, PutType DEF AcceptSnapshot, StoreTypeOK
<1>4. ASSUME NEW s \in Routes, RecordRouting(j, s) PROVE StoreTypeOK'
  <2>1. [r EXCEPT !.route = s] \in JobRow
    BY DEF StoreTypeOK, JobRow
  <2>2. QED
    BY <1>4, <2>1, PutType DEF RecordRouting, StoreTypeOK
<1>5. ASSUME RequestCancel(j) PROVE StoreTypeOK'
  <2>1. /\ [r EXCEPT !.cancel = TRUE] \in JobRow
        /\ [r EXCEPT !.cancel = TRUE, !.state = CANCELED, !.repair = FALSE] \in JobRow
    BY DEF StoreTypeOK, JobRow, JobState
  <2>2. QED
    BY <1>5, <2>1, PutType, WithoutLeaseFacts DEF RequestCancel, StoreTypeOK
<1>6. ASSUME RequestPause(j) PROVE StoreTypeOK'
  <2>1. /\ [r EXCEPT !.pause = TRUE] \in JobRow
        /\ [r EXCEPT !.pause = TRUE, !.state = NEEDS_GUIDANCE, !.repair = FALSE] \in JobRow
    BY DEF StoreTypeOK, JobRow, JobState
  <2>2. QED
    BY <1>6, <2>1, PutType, WithoutLeaseFacts DEF RequestPause, StoreTypeOK
<1>7. ASSUME RequestRequeue(j) PROVE StoreTypeOK'
  <2>1. [r EXCEPT !.state = QUEUED, !.retry = TRUE, !.cancel = FALSE,
                  !.pause = FALSE, !.repair = FALSE,
                  !.attempt = IF Polluted(j) THEN 0 ELSE @] \in JobRow
    BY DEF StoreTypeOK, JobRow, JobState
  <2>2. QED
    BY <1>7, <2>1, PutType DEF RequestRequeue, StoreTypeOK
<1>8. ASSUME ReapExpired(j) PROVE StoreTypeOK'
  <2>1. [r EXCEPT !.state = RecoveryState(j), !.repair = FALSE] \in JobRow
    BY RecoveryStateFacts DEF StoreTypeOK, JobRow, JobState
  <2>2. QED
    BY <1>8, <2>1, PutType, WithoutLeaseFacts DEF ReapExpired, StoreTypeOK
<1>9. QED
  BY <1>1, <1>2, <1>3, <1>4, <1>5, <1>6, <1>7, <1>8
     DEF OperatorCall, RequestControl

LEMMA StoreTypeStep == StoreTypeOK /\ [StoreNext]_storeVars => StoreTypeOK'
<1> SUFFICES ASSUME StoreTypeOK, [StoreNext]_storeVars PROVE StoreTypeOK'
  OBVIOUS
<1>1. CASE Clock
  BY <1>1 DEF Clock, SetProviderBackoff, BackoffElapses, LeaseExpires,
              LiveLeases, StoreTypeOK, LeaseRow
<1>2. ASSUME NEW j \in Jobs, WorkerCall(j) \/ OperatorCall(j) PROVE StoreTypeOK'
  BY <1>2, WorkerCallType, OperatorCallType
<1>3. CASE UNCHANGED storeVars
  BY <1>3 DEF storeVars, StoreTypeOK
<1>4. QED
  BY <1>1, <1>2, <1>3 DEF StoreNext

\* Every column of every row keeps its domain.
THEOREM StoreTypeCorrect == StoreSpec => []StoreTypeOK
  BY StoreTypeInit, StoreTypeStep, PTL DEF StoreSpec

-----------------------------------------------------------------------------
(* Leases follow the states.                                               *)
(*                                                                         *)
(* Both facts are inductive together: every call that moves a job out of   *)
(* the lease table moves it out of RUNNING in the same transaction, and    *)
(* only a claim, which inserts a lease, moves a job into RUNNING.          *)

LeaseInv == RunningHasLease /\ StoppedHoldsNoLease

\* A call that changes one job's state and at most that job's leases.
LEMMA LeaseInvOneJob ==
  ASSUME StoreTypeOK, LeaseInv, NEW j \in Jobs, NEW row \in JobRow, Put(j, row),
         \/ leases' = leases
         \/ leases' = WithoutLeaseOf(j),
         row.state = RUNNING =>
            leases' = leases /\ job[j].state = RUNNING,
         row.state \in StoppedStates \cup {Absent} =>
            \/ leases' = WithoutLeaseOf(j)
            \/ job[j].state \in StoppedStates \cup {Absent}
  PROVE  LeaseInv'
<1>1. \A k \in Jobs : job'[k] = IF k = j THEN row ELSE job[k]
  BY DEF Put, StoreTypeOK
<1>2. \A k \in Jobs : k # j => LeasesOf(k)' = LeasesOf(k)
  BY DEF LeasesOf, WithoutLeaseOf
<1>3. leases' = WithoutLeaseOf(j) => LeasesOf(j)' = {}
  BY DEF LeasesOf, WithoutLeaseOf
<1>4. leases' = leases => LeasesOf(j)' = LeasesOf(j)
  BY DEF LeasesOf
<1>5. RunningHasLease'
  BY <1>1, <1>2, <1>4 DEF LeaseInv, RunningHasLease
<1>6. StoppedHoldsNoLease'
  BY <1>1, <1>2, <1>3, <1>4 DEF LeaseInv, StoppedHoldsNoLease
<1>7. QED
  BY <1>5, <1>6 DEF LeaseInv

LEMMA LeaseInvInit == StoreInit => LeaseInv
<1> SUFFICES ASSUME StoreInit PROVE LeaseInv
  OBVIOUS
<1>1. AbsentRow.state = Absent
  BY DEF AbsentRow
<1>2. ASSUME NEW s \in {QUEUED, FAILED}, NEW n \in LegacyAttempts, NEW p \in BOOLEAN
      PROVE  LegacyRow(s, n, p).state = s
  BY DEF LegacyRow, AbsentRow
<1>3. \A r \in LegacyRows : r.state \in {QUEUED, FAILED}
  BY <1>2 DEF LegacyRows
<1>4. \A r \in {AbsentRow, NewRow} \cup LegacyRows : r.state # RUNNING
  BY <1>1, <1>3, NewRowType
<1>5. \A j \in Jobs : job[j].state # RUNNING /\ LeasesOf(j) = {}
  BY <1>4 DEF StoreInit, LeasesOf
<1>6. QED
  BY <1>5 DEF LeaseInv, RunningHasLease, StoppedHoldsNoLease

LEMMA WorkerCallLease ==
  ASSUME StoreTypeOK, LeaseInv, NEW j \in Jobs, WorkerCall(j)
  PROVE  LeaseInv'
<1>0. job[j] \in JobRow
  BY DEF StoreTypeOK
<1>1. ASSUME NEW o \in Owners, ClaimNext(j, o) PROVE LeaseInv'
  <2>1. /\ job'[j].state = RUNNING
        /\ \A k \in Jobs : k # j => job'[k] = job[k]
    BY <1>0, <1>1 DEF ClaimNext, Put, StoreTypeOK, JobRow
  <2> DEFINE l == [key |-> job[j].route.key, job |-> j, owner |-> o, live |-> TRUE]
  <2>2. LeasesOf(j)' # {}
    <3>1. l \in leases' /\ l.job = j
      BY <1>1 DEF ClaimNext
    <3>2. QED
      BY <3>1 DEF LeasesOf
  <2>3. \A k \in Jobs : k # j => LeasesOf(k)' = LeasesOf(k)
    BY <1>1 DEF ClaimNext, LeasesOf
  <2>4. QED
    BY <2>1, <2>2, <2>3
       DEF LeaseInv, RunningHasLease, StoppedHoldsNoLease, StoppedStates
<1>2. ASSUME NEW call \in TransitionCalls, Transition(j, call[1], call[2])
      PROVE  LeaseInv'
  <2> DEFINE row == [job[j] EXCEPT !.state = call[1], !.repair = FALSE]
  <2>1. row \in JobRow /\ row.state = call[1]
    BY <1>0, TransitionCallFacts DEF JobRow
  <2>2. call[1] # RUNNING /\ call[1] # Absent
    BY TransitionCallFacts DEF JobState
  <2>3. call[1] \in StoppedStates => leases' = WithoutLeaseOf(j)
    BY <1>2, TransitionCallFacts DEF Transition
  <2>4. leases' = leases \/ leases' = WithoutLeaseOf(j)
    BY <1>2 DEF Transition
  <2>5. QED
    BY <1>2, <2>1, <2>2, <2>3, <2>4, LeaseInvOneJob DEF Transition
<1>3. ASSUME leases' = leases,
             \A k \in Jobs : job'[k].state = job[k].state
      PROVE  LeaseInv'
  BY <1>3 DEF LeaseInv, RunningHasLease, StoppedHoldsNoLease, LeasesOf
<1>4. ASSUME NEW row, Put(j, row), row.state = job[j].state, leases' = leases
      PROVE  LeaseInv'
  BY <1>3, <1>4 DEF Put, StoreTypeOK
<1>5. ASSUME NEW c \in Convs, BeginAttempt(j, c) PROVE LeaseInv'
  <2> DEFINE row == [job[j] EXCEPT !.attempt = @ + 1, !.conv = c,
                                   !.retry = FALSE, !.repair = FALSE]
  <2>1. row.state = job[j].state
    BY <1>0 DEF JobRow
  <2>2. QED
    BY <1>4, <1>5, <2>1 DEF BeginAttempt
<1>6. CASE RecordPr(j)
  BY <1>0, <1>4, <1>6 DEF RecordPr, JobRow
<1>7. CASE \E c \in Convs : RecordReview(j, c)
  BY <1>0, <1>4, <1>7 DEF RecordReview, JobRow
<1>8. CASE \E c \in Convs, b \in BOOLEAN : RecordConversation(j, c, b)
  BY <1>0, <1>4, <1>8 DEF RecordConversation, JobRow
<1>9. CASE \E b \in BOOLEAN : RecordPhase(j, b)
  BY <1>0, <1>4, <1>9 DEF RecordPhase, JobRow
<1>10. QED
  BY <1>1, <1>2, <1>5, <1>6, <1>7, <1>8, <1>9 DEF WorkerCall

LEMMA OperatorCallLease ==
  ASSUME StoreTypeOK, LeaseInv, NEW j \in Jobs, OperatorCall(j)
  PROVE  LeaseInv'
<1>0. job[j] \in JobRow
  BY DEF StoreTypeOK
<1>1. ASSUME NEW s \in Routes, NEW c \in Contents, EnsureJob(j, s, c)
      PROVE  LeaseInv'
  <2> DEFINE row == [NewRow EXCEPT !.route = s, !.content = c]
  <2>1. row \in JobRow /\ row.state = QUEUED
    BY NewRowType DEF JobRow, JobState
  <2>2. QED
    BY <1>1, <2>1, LeaseInvOneJob DEF EnsureJob, StoppedStates
<1>2. ASSUME leases' = leases,
             \A k \in Jobs : job'[k].state = job[k].state
      PROVE  LeaseInv'
  BY <1>2 DEF LeaseInv, RunningHasLease, StoppedHoldsNoLease, LeasesOf
<1>3. ASSUME NEW row, Put(j, row), row.state = job[j].state, leases' = leases
      PROVE  LeaseInv'
  BY <1>2, <1>3 DEF Put, StoreTypeOK
<1>4. ASSUME NEW s \in Routes, NEW c \in Contents, UpdateSnapshotIfUnclaimed(j, s, c)
      PROVE  LeaseInv'
  BY <1>0, <1>3, <1>4 DEF UpdateSnapshotIfUnclaimed, JobRow
<1>5. ASSUME NEW c \in Contents, AcceptSnapshot(j, c) PROVE LeaseInv'
  BY <1>0, <1>3, <1>5 DEF AcceptSnapshot, JobRow
<1>6. ASSUME NEW s \in Routes, RecordRouting(j, s) PROVE LeaseInv'
  BY <1>0, <1>3, <1>6 DEF RecordRouting, JobRow
<1>7. ASSUME RequestCancel(j) PROVE LeaseInv'
  <2> DEFINE row == [job[j] EXCEPT !.cancel = TRUE, !.state = CANCELED,
                                   !.repair = FALSE]
  <2>1. CASE job[j].state \in ACTIVE_STATES
    BY <1>0, <1>2, <1>7, <2>1 DEF RequestCancel, Put, StoreTypeOK, JobRow
  <2>2. row \in JobRow /\ row.state = CANCELED
    BY <1>0 DEF JobRow, JobState
  <2>3. CASE job[j].state \notin ACTIVE_STATES
    BY <1>7, <2>2, <2>3, LeaseInvOneJob DEF RequestCancel
  <2>4. QED
    BY <2>1, <2>3
<1>8. ASSUME RequestPause(j) PROVE LeaseInv'
  <2> DEFINE row == [job[j] EXCEPT !.pause = TRUE, !.state = NEEDS_GUIDANCE,
                                   !.repair = FALSE]
  <2>1. CASE job[j].state # QUEUED
    BY <1>0, <1>2, <1>8, <2>1 DEF RequestPause, Put, StoreTypeOK, JobRow
  <2>2. row \in JobRow /\ row.state = NEEDS_GUIDANCE
    BY <1>0 DEF JobRow, JobState
  <2>3. CASE job[j].state = QUEUED
    BY <1>8, <2>2, <2>3, LeaseInvOneJob DEF RequestPause
  <2>4. QED
    BY <2>1, <2>3
<1>9. ASSUME RequestRequeue(j) PROVE LeaseInv'
  <2> DEFINE row == [job[j] EXCEPT !.state = QUEUED, !.retry = TRUE,
                                   !.cancel = FALSE, !.pause = FALSE,
                                   !.repair = FALSE,
                                   !.attempt = IF Polluted(j) THEN 0 ELSE @]
  <2>1. CASE ~Requeueable(j)
    BY <1>2, <1>9, <2>1 DEF RequestRequeue
  <2>2. row \in JobRow /\ row.state = QUEUED
    BY <1>0 DEF JobRow, JobState
  <2>3. CASE Requeueable(j)
    BY <1>9, <2>2, <2>3, LeaseInvOneJob DEF RequestRequeue, StoppedStates
  <2>4. QED
    BY <2>1, <2>3
<1>10. ASSUME ReapExpired(j) PROVE LeaseInv'
  <2> DEFINE row == [job[j] EXCEPT !.state = RecoveryState(j), !.repair = FALSE]
  <2>1. row \in JobRow /\ row.state = RecoveryState(j)
    BY <1>0, RecoveryStateFacts DEF JobRow, JobState
  <2>2. QED
    BY <1>10, <2>1, RecoveryStateFacts, LeaseInvOneJob DEF ReapExpired
<1>11. QED
  BY <1>1, <1>4, <1>5, <1>6, <1>7, <1>8, <1>9, <1>10
     DEF OperatorCall, RequestControl

LEMMA LeaseInvStep ==
  StoreTypeOK /\ LeaseInv /\ [StoreNext]_storeVars => LeaseInv'
<1> SUFFICES ASSUME StoreTypeOK, LeaseInv, [StoreNext]_storeVars PROVE LeaseInv'
  OBVIOUS
<1>1. ASSUME job' = job,
             \A j \in Jobs : LeasesOf(j)' = {} <=> LeasesOf(j) = {}
      PROVE  LeaseInv'
  BY <1>1 DEF LeaseInv, RunningHasLease, StoppedHoldsNoLease
<1>2. CASE Clock
  <2>1. ASSUME NEW l \in leases, LeaseExpires(l)
        PROVE  \A j \in Jobs : LeasesOf(j)' = {} <=> LeasesOf(j) = {}
    <3> DEFINE m == [l EXCEPT !.live = FALSE]
    <3>1. m.job = l.job
      BY DEF StoreTypeOK, LeaseRow
    <3>2. QED
      BY <2>1, <3>1 DEF LeaseExpires, LiveLeases, LeasesOf
  <2>2. QED
    BY <1>1, <1>2, <2>1 DEF Clock, SetProviderBackoff, BackoffElapses,
       LeaseExpires, LeasesOf
<1>3. CASE UNCHANGED storeVars
  BY <1>1, <1>3 DEF storeVars, LeasesOf
<1>4. ASSUME NEW j \in Jobs, WorkerCall(j) \/ OperatorCall(j) PROVE LeaseInv'
  BY <1>4, WorkerCallLease, OperatorCallLease
<1>5. QED
  BY <1>2, <1>3, <1>4 DEF StoreNext

\* No client call, in any order, leaves a running job without a lease row: it
\* would never be recovered.
THEOREM RunningNeverOrphaned == StoreSpec => []RunningHasLease
<1>1. LeaseInv => RunningHasLease
  BY DEF LeaseInv
<1>2. QED
  BY <1>1, StoreTypeInit, StoreTypeStep, LeaseInvInit, LeaseInvStep, PTL
     DEF StoreSpec

\* Nor does any leave a stopped job with a lease: it would block its repository.
THEOREM StoppedNeverBlocks == StoreSpec => []StoppedHoldsNoLease
<1>1. LeaseInv => StoppedHoldsNoLease
  BY DEF LeaseInv
<1>2. QED
  BY <1>1, StoreTypeInit, StoreTypeStep, LeaseInvInit, LeaseInvStep, PTL
     DEF StoreSpec

-----------------------------------------------------------------------------
(* The global limit.                                                       *)

LimitInv == IsFiniteSet(leases) /\ GlobalLimitHolds

\* Removing or expiring leases can only lower the number of live ones.
LEMMA FewerLive ==
  ASSUME LimitInv, IsFiniteSet(leases'), LiveLeases' \subseteq LiveLeases
  PROVE  LimitInv'
<1>1. IsFiniteSet(LiveLeases)
  BY FS_Subset DEF LimitInv, LiveLeases
<1>2. /\ Cardinality(LiveLeases') <= Cardinality(LiveLeases)
      /\ Cardinality(LiveLeases') \in Nat /\ Cardinality(LiveLeases) \in Nat
  BY <1>1, FS_Subset, FS_CardinalityType
<1>3. QED
  BY <1>2, StoreAssumption DEF LimitInv, GlobalLimitHolds

LEMMA LimitInvRelease ==
  ASSUME LimitInv, NEW j \in Jobs,
         leases' = leases \/ leases' = WithoutLeaseOf(j)
  PROVE  LimitInv'
<1>1. leases' \subseteq leases
  BY WithoutLeaseFacts
<1>2. IsFiniteSet(leases')
  BY <1>1, FS_Subset DEF LimitInv
<1>3. LiveLeases' \subseteq LiveLeases
  BY <1>1 DEF LiveLeases
<1>4. QED
  BY <1>2, <1>3, FewerLive

\* A claim adds one lease, and only below the limit.
LEMMA LimitInvClaim ==
  ASSUME LimitInv, NEW j \in Jobs, NEW o \in Owners, ClaimNext(j, o)
  PROVE  LimitInv'
<1> DEFINE l == [key |-> job[j].route.key, job |-> j, owner |-> o, live |-> TRUE]
<1>1. leases' = leases \cup {l}
  BY DEF ClaimNext
<1>2. LiveLeases' = LiveLeases \cup {l}
  BY <1>1 DEF LiveLeases
<1>3. IsFiniteSet(LiveLeases)
  BY FS_Subset DEF LimitInv, LiveLeases
<1>4. Cardinality(LiveLeases) < GlobalLimit
  BY DEF ClaimNext, ClaimCandidates
<1>5. /\ Cardinality(LiveLeases') <= Cardinality(LiveLeases) + 1
      /\ Cardinality(LiveLeases') \in Nat /\ Cardinality(LiveLeases) \in Nat
  <2>1. Cardinality(LiveLeases) \in Nat
    BY <1>3, FS_CardinalityType
  <2>2. /\ IsFiniteSet(LiveLeases \cup {l})
        /\ Cardinality(LiveLeases \cup {l}) =
             IF l \in LiveLeases THEN Cardinality(LiveLeases)
                                ELSE Cardinality(LiveLeases) + 1
    BY <1>3, FS_AddElement
  <2>3. QED
    BY <1>2, <2>1, <2>2
<1>6. IsFiniteSet(leases')
  BY <1>1, FS_AddElement DEF LimitInv
<1>7. QED
  BY <1>4, <1>5, <1>6, StoreAssumption DEF LimitInv, GlobalLimitHolds

LEMMA LimitInvStep == LimitInv /\ [StoreNext]_storeVars => LimitInv'
<1> SUFFICES ASSUME LimitInv, [StoreNext]_storeVars PROVE LimitInv'
  OBVIOUS
<1>1. CASE leases' = leases
  BY <1>1 DEF LimitInv, GlobalLimitHolds, LiveLeases
<1>2. ASSUME NEW l \in leases, LeaseExpires(l) PROVE LimitInv'
  <2> DEFINE m == [l EXCEPT !.live = FALSE]
  <2>1. leases' = (leases \ {l}) \cup {m}
    BY <1>2 DEF LeaseExpires
  <2>2. IsFiniteSet(leases')
    <3>1. IsFiniteSet(leases \ {l})
      BY FS_Subset DEF LimitInv
    <3>2. QED
      BY <2>1, <3>1, FS_AddElement
  <2>3. l.live
    BY <1>2 DEF LeaseExpires, LiveLeases
  <2>4. m.live => m \in leases
    BY <2>3
  <2>5. LiveLeases' \subseteq LiveLeases
    BY <2>1, <2>4 DEF LiveLeases
  <2>6. QED
    BY <2>2, <2>5, FewerLive
<1>3. ASSUME NEW j \in Jobs, WorkerCall(j) PROVE LimitInv'
  BY <1>1, <1>3, LimitInvRelease, LimitInvClaim
     DEF WorkerCall, BeginAttempt, Transition, RecordPr, RecordReview,
         RecordConversation, RecordPhase
<1>4. ASSUME NEW j \in Jobs, OperatorCall(j) PROVE LimitInv'
  BY <1>1, <1>4, LimitInvRelease
     DEF OperatorCall, EnsureJob, UpdateSnapshotIfUnclaimed, AcceptSnapshot,
         RecordRouting, RequestControl, RequestCancel, RequestPause,
         RequestRequeue, ReapExpired
<1>5. QED
  BY <1>1, <1>2, <1>3, <1>4
     DEF StoreNext, Clock, SetProviderBackoff, BackoffElapses, storeVars

\* The live leases never exceed the configured global concurrency, whichever
\* process claims and whenever leases expire or are released.
THEOREM GlobalLimitSafe == StoreSpec => []GlobalLimitHolds
<1>1. StoreInit => LimitInv
  <2> SUFFICES ASSUME StoreInit PROVE LimitInv
    OBVIOUS
  <2>1. leases = {} /\ LiveLeases = {}
    BY DEF StoreInit, LiveLeases
  <2>2. QED
    BY <2>1, FS_EmptySet, StoreAssumption DEF LimitInv, GlobalLimitHolds
<1>2. LimitInv => GlobalLimitHolds
  BY DEF LimitInv
<1>3. QED
  BY <1>1, <1>2, LimitInvStep, PTL DEF StoreSpec

-----------------------------------------------------------------------------
(* Attempts.  A row that does not exist yet counts none, so creating it     *)
(* cannot lower the counter.                                                *)

AbsentFresh == \A j \in Jobs : job[j].state = Absent => job[j].attempt = 0

LEMMA AbsentFreshInit == StoreInit => AbsentFresh
<1>1. AbsentRow.attempt = 0
  BY DEF AbsentRow
<1>2. ASSUME NEW s \in {QUEUED, FAILED}, NEW n \in LegacyAttempts, NEW p \in BOOLEAN
      PROVE  LegacyRow(s, n, p).state # Absent
  BY DEF LegacyRow, AbsentRow
<1>3. \A r \in LegacyRows : r.state # Absent
  BY <1>2 DEF LegacyRows
<1>4. QED
  BY <1>1, <1>3, NewRowType DEF StoreInit, AbsentFresh

\* A write to one row: the row exists afterwards, and its counter does not
\* drop, or drops as an explicit requeue drops it.
LEMMA OneRowAttempt ==
  ASSUME StoreTypeOK, AbsentFresh, NEW j \in Jobs, NEW row, Put(j, row),
         row.state # Absent,
         \/ row.attempt = job[j].attempt
         \/ row.attempt = job[j].attempt + 1
         \/ row.attempt = 0 /\ row.retry /\ row.conv = None /\ ~row.pr
  PROVE  AbsentFresh' /\ \A k \in Jobs : AttemptKept(k)
<1>1. \A k \in Jobs : job'[k] = IF k = j THEN row ELSE job[k]
  BY DEF Put, StoreTypeOK
<1>2. \A k \in Jobs : job[k].attempt \in Nat
  BY DEF StoreTypeOK, JobRow
<1>3. AbsentFresh'
  BY <1>1 DEF AbsentFresh
<1>4. \A k \in Jobs : AttemptKept(k)
  BY <1>1, <1>2 DEF AttemptKept
<1>5. QED
  BY <1>3, <1>4

LEMMA WorkerCallAttempt ==
  ASSUME StoreTypeOK, AbsentFresh, NEW j \in Jobs, WorkerCall(j)
  PROVE  AbsentFresh' /\ \A k \in Jobs : AttemptKept(k)
<1>0. job[j] \in JobRow
  BY DEF StoreTypeOK
<1>1. ASSUME NEW row, Put(j, row), row.attempt = job[j].attempt, row.state # Absent
      PROVE  AbsentFresh' /\ \A k \in Jobs : AttemptKept(k)
  BY <1>1, OneRowAttempt
<1>2. ASSUME NEW o \in Owners, ClaimNext(j, o)
      PROVE  AbsentFresh' /\ \A k \in Jobs : AttemptKept(k)
  BY <1>0, <1>1, <1>2 DEF ClaimNext, JobRow
<1>3. ASSUME NEW c \in Convs, BeginAttempt(j, c)
      PROVE  AbsentFresh' /\ \A k \in Jobs : AttemptKept(k)
  <2> DEFINE row == [job[j] EXCEPT !.attempt = @ + 1, !.conv = c,
                                   !.retry = FALSE, !.repair = FALSE]
  <2>1. row.attempt = job[j].attempt + 1 /\ row.state = job[j].state
    BY <1>0 DEF JobRow
  <2>2. QED
    BY <1>3, <2>1, OneRowAttempt DEF BeginAttempt
<1>4. ASSUME NEW call \in TransitionCalls, Transition(j, call[1], call[2])
      PROVE  AbsentFresh' /\ \A k \in Jobs : AttemptKept(k)
  <2> DEFINE row == [job[j] EXCEPT !.state = call[1], !.repair = FALSE]
  <2>1. row.attempt = job[j].attempt /\ row.state = call[1]
    BY <1>0 DEF JobRow
  <2>2. call[1] # Absent
    BY TransitionCallFacts DEF JobState
  <2>3. QED
    BY <1>1, <1>4, <2>1, <2>2 DEF Transition
<1>5. CASE RecordPr(j)
  BY <1>0, <1>1, <1>5 DEF RecordPr, Exists, JobRow
<1>6. CASE \E c \in Convs : RecordReview(j, c)
  BY <1>0, <1>1, <1>6 DEF RecordReview, Exists, JobRow
<1>7. CASE \E c \in Convs, b \in BOOLEAN : RecordConversation(j, c, b)
  BY <1>0, <1>1, <1>7 DEF RecordConversation, Exists, JobRow
<1>8. CASE \E b \in BOOLEAN : RecordPhase(j, b)
  BY <1>0, <1>1, <1>8 DEF RecordPhase, Exists, JobRow
<1>9. QED
  BY <1>2, <1>3, <1>4, <1>5, <1>6, <1>7, <1>8 DEF WorkerCall

LEMMA OperatorCallAttempt ==
  ASSUME StoreTypeOK, AbsentFresh, NEW j \in Jobs, OperatorCall(j)
  PROVE  AbsentFresh' /\ \A k \in Jobs : AttemptKept(k)
<1> DEFINE Kept == AbsentFresh' /\ \A k \in Jobs : AttemptKept(k)
<1>0. job[j] \in JobRow
  BY DEF StoreTypeOK
<1>1. ASSUME NEW row, Put(j, row), row.attempt = job[j].attempt, row.state # Absent
      PROVE  Kept
  BY <1>1, OneRowAttempt
<1>2. ASSUME job' = job PROVE Kept
  BY <1>2 DEF AbsentFresh, AttemptKept, StoreTypeOK, JobRow
<1>3. ASSUME NEW s \in Routes, NEW c \in Contents, EnsureJob(j, s, c) PROVE Kept
  <2> DEFINE row == [NewRow EXCEPT !.route = s, !.content = c]
  <2>1. row.attempt = 0 /\ row.state = QUEUED
    BY NewRowType DEF JobRow
  <2>2. job[j].attempt = 0
    BY <1>3 DEF EnsureJob, Exists, AbsentFresh
  <2>3. QED
    BY <1>1, <1>3, <2>1, <2>2 DEF EnsureJob
<1>4. ASSUME NEW s \in Routes, NEW c \in Contents, UpdateSnapshotIfUnclaimed(j, s, c)
      PROVE  Kept
  BY <1>0, <1>1, <1>4 DEF UpdateSnapshotIfUnclaimed, JobRow
<1>5. ASSUME NEW c \in Contents, AcceptSnapshot(j, c) PROVE Kept
  BY <1>0, <1>1, <1>5 DEF AcceptSnapshot, JobRow
<1>6. ASSUME NEW s \in Routes, RecordRouting(j, s) PROVE Kept
  BY <1>0, <1>1, <1>6 DEF RecordRouting, Exists, JobRow
<1>7. CASE RequestCancel(j)
  BY <1>0, <1>1, <1>7 DEF RequestCancel, Exists, JobRow
<1>8. CASE RequestPause(j)
  BY <1>0, <1>1, <1>8 DEF RequestPause, Exists, JobRow
<1>9. CASE RequestRequeue(j)
  <2> DEFINE row == [job[j] EXCEPT !.state = QUEUED, !.retry = TRUE,
                                   !.cancel = FALSE, !.pause = FALSE,
                                   !.repair = FALSE,
                                   !.attempt = IF Polluted(j) THEN 0 ELSE @]
  <2>1. /\ row.state = QUEUED /\ row.retry
        /\ row.conv = job[j].conv /\ row.pr = job[j].pr
        /\ row.attempt = IF Polluted(j) THEN 0 ELSE job[j].attempt
    BY <1>0 DEF JobRow
  <2>2. Polluted(j) => job[j].conv = None /\ ~job[j].pr
    BY DEF Polluted
  <2>3. CASE ~Requeueable(j)
    BY <1>2, <1>9, <2>3 DEF RequestRequeue
  <2>4. CASE Requeueable(j)
    <3>1. Put(j, row)
      BY <1>9, <2>4 DEF RequestRequeue
    <3>2. QED
      BY <3>1, <2>1, <2>2, OneRowAttempt
  <2>5. QED
    BY <2>3, <2>4
<1>10. CASE ReapExpired(j)
  <2> DEFINE row == [job[j] EXCEPT !.state = RecoveryState(j), !.repair = FALSE]
  <2>1. row.attempt = job[j].attempt /\ row.state # Absent
    BY <1>0, RecoveryStateFacts DEF JobRow
  <2>2. QED
    BY <1>1, <1>10, <2>1 DEF ReapExpired
<1>11. QED
  BY <1>3, <1>4, <1>5, <1>6, <1>7, <1>8, <1>9, <1>10
     DEF OperatorCall, RequestControl

\* A job's attempt counter never drops, except to zero on the explicit requeue
\* of a row without a conversation or a pull request (rows polluted by an
\* earlier version): no interleaving of calls gives a job its attempts back.
THEOREM AttemptsNeverLost == StoreSpec => AttemptsKept
<1>1. ASSUME StoreTypeOK, AbsentFresh, [StoreNext]_storeVars
      PROVE  AbsentFresh' /\ [\A j \in Jobs : AttemptKept(j)]_storeVars
  <2>1. CASE job' = job
    BY <1>1, <2>1 DEF AbsentFresh, AttemptKept, StoreTypeOK, JobRow
  <2>2. ASSUME NEW j \in Jobs, WorkerCall(j) \/ OperatorCall(j)
        PROVE  AbsentFresh' /\ \A k \in Jobs : AttemptKept(k)
    BY <1>1, <2>2, WorkerCallAttempt, OperatorCallAttempt
  <2>3. QED
    BY <1>1, <2>1, <2>2 DEF StoreNext, Clock, SetProviderBackoff,
       BackoffElapses, LeaseExpires, storeVars
<1>2. QED
  BY <1>1, StoreTypeInit, StoreTypeStep, AbsentFreshInit, PTL
     DEF StoreSpec, AttemptsKept
=============================================================================
