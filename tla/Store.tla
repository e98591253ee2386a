------------------------------- MODULE Store -------------------------------
(***************************************************************************)
(* The SQLite store (store.py).  One action per method that changes state; *)
(* each method is one BEGIN IMMEDIATE transaction, hence one atomic step.  *)
(*                                                                         *)
(* Rows are abstracted to the columns the program branches on.  Time is    *)
(* abstracted to two facts: whether a lease has expired (live) and which   *)
(* providers are in backoff.  Renewing a live lease changes neither, so    *)
(* renew_lease is the predicate Renewable.                                 *)
(*                                                                         *)
(* StoreNext lets any client make any call at any time: live workers,      *)
(* workers that lost their lease, webhook handlers, timers, a second       *)
(* process, or one that died between two calls.                            *)
(***************************************************************************)
EXTENDS JobStates, Integers, FiniteSets

CONSTANTS
  Jobs,          \* repository/issue pairs: at most one row each
  Keys,          \* concurrency keys
  Providers,     \* provider names
  Owners,        \* Scheduler.owner strings, one per process incarnation
  Routes,        \* what the labels of an issue select (see Route)
  Contents,      \* content hashes of issue titles and bodies
  Convs,         \* provider conversation ids
  None,          \* no conversation
  GlobalLimit,   \* scheduler.global_concurrency
  ProviderLimit, \* scheduler.provider_concurrency
  AttemptCap,    \* bound: no attempt is begun past this count
  LegacyAttempts \* attempt counters found in rows an earlier version wrote

Route == [key : Keys, provider : Providers, review : BOOLEAN]

ASSUME StoreAssumption ==
  /\ IsFiniteSet(Jobs)
  /\ Routes \subseteq Route /\ Routes # {}
  /\ Contents # {}
  /\ None \notin Convs
  /\ GlobalLimit \in Nat
  /\ ProviderLimit \in [Providers -> Nat]
  /\ AttemptCap \in Nat
  /\ LegacyAttempts \subseteq Nat

VARIABLES
  job,      \* table jobs
  leases,   \* table leases
  backoff   \* table provider_backoff: providers whose until_at is ahead

storeVars == <<job, leases, backoff>>

JobRow ==
  [state   : JobState \cup {Absent},
   attempt : Nat,                 \* implementation attempts begun
   retry   : BOOLEAN,             \* retry_requested
   cancel  : BOOLEAN,             \* cancel_requested
   pause   : BOOLEAN,             \* pause_requested
   conv    : Convs \cup {None},   \* conversation_id
   rconv   : Convs \cup {None},   \* review_conversation_id
   repair  : BOOLEAN,             \* phase = "review-repair"
   pr      : BOOLEAN,             \* pr_number is set
   preconv : BOOLEAN,             \* job_events hold a failure before any conversation
   route   : Routes,              \* provider, reviewer and concurrency key
   content : Contents]            \* content_hash of the accepted snapshot

\* key is the primary key, job is UNIQUE.
LeaseRow == [key : Keys, job : Jobs, owner : Owners, live : BOOLEAN]

AbsentRow ==
  [state |-> Absent, attempt |-> 0, retry |-> FALSE, cancel |-> FALSE,
   pause |-> FALSE, conv |-> None, rconv |-> None, repair |-> FALSE,
   pr |-> FALSE, preconv |-> FALSE,
   route |-> CHOOSE r \in Routes : TRUE, content |-> CHOOSE c \in Contents : TRUE]

\* A row as intake inserts it.
NewRow == [AbsentRow EXCEPT !.state = QUEUED]

\* Rows of versions that counted claims as attempts: no conversation, no PR.
LegacyRow(s, n, p) ==
  [AbsentRow EXCEPT !.state = s, !.attempt = n, !.preconv = p]

LegacyRows ==
  {LegacyRow(x[1], x[2], x[3]) :
     x \in {QUEUED, FAILED} \X LegacyAttempts \X BOOLEAN}

StoreInit ==
  /\ job \in [Jobs -> {AbsentRow, NewRow} \cup LegacyRows]
  /\ leases = {}
  /\ backoff = {}

-----------------------------------------------------------------------------
(* Reads. *)

Exists(j) == job[j].state # Absent
LiveLeases == {l \in leases : l.live}
LeasesOf(j) == {l \in leases : l.job = j}
ProviderLeases(p) == {l \in LiveLeases : job[l.job].route.provider = p}
\* Mutant of ExpiredJobs: live leases count as expired.
ExpiredJobsAnyLease == {j \in Jobs : LeasesOf(j) # {}}
ExpiredJobs == {j \in Jobs : \E l \in LeasesOf(j) : ~l.live}

\* renew_lease: matches job, owner and an unexpired row.
Renewable(j, o) == \E l \in LiveLeases : l.job = j /\ l.owner = o

WithoutLeaseOf(j) == {l \in leases : l.job # j}

\* UPDATE jobs SET ... WHERE id = j.
Put(j, row) == job' = [job EXCEPT ![j] = row]

-----------------------------------------------------------------------------
(* Claiming. *)

\* Mutant of Claimable: the NOT EXISTS on the concurrency key is missing.
ClaimableAnyKey(j) ==
  /\ job[j].state = QUEUED
  /\ ~job[j].cancel /\ ~job[j].pause
  /\ job[j].route.provider \notin backoff

Claimable(j) ==
  /\ job[j].state = QUEUED
  /\ ~job[j].cancel /\ ~job[j].pause
  /\ job[j].route.provider \notin backoff
  /\ \A l \in leases : l.key # job[j].route.key

\* Mutant of ClaimCandidates: the global limit is off by one.
ClaimCandidatesOneMore ==
  {j \in Jobs : /\ Cardinality(LiveLeases) <= GlobalLimit
                /\ Claimable(j)}

ClaimCandidates ==
  {j \in Jobs : /\ Cardinality(LiveLeases) < GlobalLimit
                /\ Claimable(j)
                /\ LET p == job[j].route.provider
                   IN  Cardinality(ProviderLeases(p)) < ProviderLimit[p]}

\* ORDER BY retry_requested DESC; the later sort keys are left open.
FirstInOrder(j) == \A k \in ClaimCandidates : job[k].retry => job[j].retry

\* The INSERT fails on job_id UNIQUE when the job still holds a lease under
\* another key; claim_next then raises and changes nothing.
ClaimNext(j, o) ==
  /\ j \in ClaimCandidates /\ FirstInOrder(j)
  /\ LeasesOf(j) = {}
  /\ leases' = leases \cup
       {[key |-> job[j].route.key, job |-> j, owner |-> o, live |-> TRUE]}
  /\ Put(j, [job[j] EXCEPT !.state = RUNNING, !.repair = FALSE])
  /\ UNCHANGED backoff

ClaimRaises ==
  \E j \in ClaimCandidates : FirstInOrder(j) /\ LeasesOf(j) # {}

-----------------------------------------------------------------------------
(* A worker's writes. *)

\* A running job only; the caller handles the StoreError otherwise.
BeginAttempt(j, c) ==
  /\ job[j].state = RUNNING
  /\ job[j].attempt < AttemptCap
  /\ Put(j, [job[j] EXCEPT !.attempt = @ + 1, !.conv = c,
                        !.retry = FALSE, !.repair = FALSE])
  /\ UNCHANGED <<leases, backoff>>

TransitionAllowed(j, to) ==
  /\ Exists(j)
  /\ to = job[j].state \/ to \in ALLOWED_TRANSITIONS[job[j].state]

\* Mutant of Transition: the lease stays behind.
TransitionKeepsLease(j, to, release) ==
  /\ TransitionAllowed(j, to)
  /\ Put(j, [job[j] EXCEPT !.state = to, !.repair = FALSE])
  /\ UNCHANGED <<leases, backoff>>

\* No caller is checked against the lease: the lease goes by job id alone.
Transition(j, to, release) ==
  /\ TransitionAllowed(j, to)
  /\ Put(j, [job[j] EXCEPT !.state = to, !.repair = FALSE])
  /\ leases' = IF release THEN WithoutLeaseOf(j) ELSE leases
  /\ UNCHANGED backoff

\* The (state, release_lease) pairs the program passes to transition.
TransitionCalls ==
  ({QUEUED, NEEDS_GUIDANCE, PR_OPEN, BLOCKED, FAILED, CANCELED, DONE} \X {TRUE})
    \cup {<<PR_OPEN, FALSE>>, <<REVIEWING, FALSE>>}

\* update_job writes whatever the state of the job; one operator per caller.
RecordPr(j) ==
  /\ Exists(j)
  /\ Put(j, [job[j] EXCEPT !.pr = TRUE])
  /\ UNCHANGED <<leases, backoff>>

RecordConversation(j, c, repair) ==
  /\ Exists(j)
  /\ Put(j, [job[j] EXCEPT !.conv = c, !.repair = @ \/ repair])
  /\ UNCHANGED <<leases, backoff>>

RecordReview(j, c) ==
  /\ Exists(j)
  /\ Put(j, [job[j] EXCEPT !.rconv = c])
  /\ UNCHANGED <<leases, backoff>>

RecordPhase(j, clearRetry) ==
  /\ Exists(j)
  /\ Put(j, [job[j] EXCEPT !.repair = FALSE, !.retry = @ /\ ~clearRetry])
  /\ UNCHANGED <<leases, backoff>>

RecordRouting(j, r) ==
  /\ Exists(j)
  /\ Put(j, [job[j] EXCEPT !.route = r])
  /\ UNCHANGED <<leases, backoff>>

-----------------------------------------------------------------------------
(* Intake and operator commands. *)

EnsureJob(j, r, c) ==
  /\ ~Exists(j)
  /\ Put(j, [NewRow EXCEPT !.route = r, !.content = c])
  /\ UNCHANGED <<leases, backoff>>

UpdateSnapshotIfUnclaimed(j, r, c) ==
  /\ job[j].state = QUEUED /\ job[j].attempt = 0
  /\ Put(j, [job[j] EXCEPT !.route = r, !.content = c])
  /\ UNCHANGED <<leases, backoff>>

AcceptSnapshot(j, c) ==
  /\ job[j].state = QUEUED
  /\ Put(j, [job[j] EXCEPT !.content = c])
  /\ UNCHANGED <<leases, backoff>>

\* Mutant of Polluted: conversations and pull requests are not looked at.
PollutedByHistory(j) == job[j].attempt > 0 /\ job[j].preconv

\* A counter polluted by rejected launches is reset by the first requeue.
Polluted(j) ==
  /\ job[j].conv = None /\ ~job[j].pr
  /\ job[j].attempt > 0 /\ job[j].preconv

Requeueable(j) ==
  \/ job[j].state \in {NEEDS_GUIDANCE, BLOCKED, FAILED, CANCELED, PR_OPEN}
  \/ job[j].state = QUEUED /\ Polluted(j)

RequestCancel(j) ==
  /\ Exists(j)
  /\ IF job[j].state \in ACTIVE_STATES
     THEN /\ Put(j, [job[j] EXCEPT !.cancel = TRUE])
          /\ UNCHANGED leases
     ELSE /\ Put(j, [job[j] EXCEPT !.cancel = TRUE, !.state = CANCELED,
                                !.repair = FALSE])
          /\ leases' = WithoutLeaseOf(j)
  /\ UNCHANGED backoff

\* Mutant of RequestPause: pausing gives up the lease of a running job.
RequestPauseDropsLease(j) ==
  /\ Exists(j)
  /\ Put(j, [job[j] EXCEPT !.pause = TRUE])
  /\ leases' = WithoutLeaseOf(j)
  /\ UNCHANGED backoff

RequestPause(j) ==
  /\ Exists(j)
  /\ IF job[j].state # QUEUED
     THEN /\ Put(j, [job[j] EXCEPT !.pause = TRUE])
          /\ UNCHANGED leases
     ELSE /\ Put(j, [job[j] EXCEPT !.pause = TRUE, !.state = NEEDS_GUIDANCE,
                                !.repair = FALSE])
          /\ leases' = WithoutLeaseOf(j)
  /\ UNCHANGED backoff

\* resume and retry: nothing happens unless the job is Requeueable.
RequestRequeue(j) ==
  /\ Exists(j)
  /\ IF Requeueable(j)
     THEN Put(j, [job[j] EXCEPT !.state = QUEUED, !.retry = TRUE,
                                !.cancel = FALSE, !.pause = FALSE,
                                !.repair = FALSE,
                                !.attempt = IF Polluted(j) THEN 0 ELSE @])
     ELSE UNCHANGED job
  /\ UNCHANGED <<leases, backoff>>

Commands == {"pause", "resume", "retry", "cancel"}

RequestControl(j, cmd) ==
  \/ cmd = "cancel" /\ RequestCancel(j)
  \/ cmd = "pause"  /\ RequestPause(j)
  \/ cmd \in {"resume", "retry"} /\ RequestRequeue(j)

-----------------------------------------------------------------------------
(* Recovery, backoff and the passing of time. *)

\* Mutant of RecoveryState: the phase is written into the state column.
RecoveryStatePhase(j) == IF job[j].cancel THEN CANCELED ELSE "lease-expired"

RecoveryState(j) ==
  IF job[j].cancel THEN CANCELED
  ELSE IF job[j].pause THEN NEEDS_GUIDANCE
  ELSE IF job[j].state = REVIEWING THEN PR_OPEN
  ELSE QUEUED

ReapExpired(j) ==
  /\ j \in ExpiredJobs
  /\ Put(j, [job[j] EXCEPT !.state = RecoveryState(j), !.repair = FALSE])
  /\ leases' = WithoutLeaseOf(j)
  /\ UNCHANGED backoff

SetProviderBackoff(p) ==
  /\ backoff' = backoff \cup {p}
  /\ UNCHANGED <<job, leases>>

BackoffElapses(p) ==
  /\ p \in backoff
  /\ backoff' = backoff \ {p}
  /\ UNCHANGED <<job, leases>>

LeaseExpires(l) ==
  /\ l \in LiveLeases
  /\ leases' = (leases \ {l}) \cup {[l EXCEPT !.live = FALSE]}
  /\ UNCHANGED <<job, backoff>>

-----------------------------------------------------------------------------
WorkerCall(j) ==
  \/ \E o \in Owners : ClaimNext(j, o)
  \/ \E c \in Convs : BeginAttempt(j, c)
  \/ \E call \in TransitionCalls : Transition(j, call[1], call[2])
  \/ RecordPr(j)
  \/ \E c \in Convs : RecordReview(j, c)
  \/ \E c \in Convs, b \in BOOLEAN : RecordConversation(j, c, b)
  \/ \E b \in BOOLEAN : RecordPhase(j, b)

OperatorCall(j) ==
  \/ \E r \in Routes, c \in Contents :
        EnsureJob(j, r, c) \/ UpdateSnapshotIfUnclaimed(j, r, c)
  \/ \E c \in Contents : AcceptSnapshot(j, c)
  \/ \E r \in Routes : RecordRouting(j, r)
  \/ \E cmd \in Commands : RequestControl(j, cmd)
  \/ ReapExpired(j)

Clock ==
  \/ \E p \in Providers : SetProviderBackoff(p) \/ BackoffElapses(p)
  \/ \E l \in leases : LeaseExpires(l)

StoreNext == Clock \/ \E j \in Jobs : WorkerCall(j) \/ OperatorCall(j)

StoreSpec == StoreInit /\ [][StoreNext]_storeVars

-----------------------------------------------------------------------------
(* Properties. *)

\* Columns keep their domains.
StoreTypeOK ==
  /\ job \in [Jobs -> JobRow]
  /\ leases \subseteq LeaseRow
  /\ backoff \subseteq Providers

\* The leases table is a lock table: one row per concurrency key (two jobs of
\* a key never hold it together) and one per job.
LeaseTable ==
  \A l, m \in leases : l.key = m.key \/ l.job = m.job => l = m

\* The leases of a store as locks on concurrency keys.
Holds(rows) == {<<l.key, l.job>> : l \in rows}
Locks == INSTANCE LeaseLock WITH holds <- Holds(leases), lapsed <- Holds(leases \ LiveLeases)

\* Whatever clients do, a key passes from job to job only through being free,
\* and an expired lease is never live again: a worker that lost its lease cannot
\* have it back, and recovery frees a key before the next claim.
LeasesAreLocks == Locks!LockSpec

\* A running job always has a lease row, live or expired.  Recovery looks for
\* expired leases only, so a running job without one would be lost for good.
RunningHasLease == \A j \in Jobs : job[j].state = RUNNING => LeasesOf(j) # {}

\* A job that stopped for a human, or ended, holds no concurrency key: it
\* cannot block the other jobs of its repository.
StoppedHoldsNoLease ==
  \A j \in Jobs : job[j].state \in StoppedStates \cup {Absent} => LeasesOf(j) = {}

\* However claims, expiries and recoveries interleave, the live leases never
\* exceed scheduler.global_concurrency.
GlobalLimitHolds == Cardinality(LiveLeases) <= GlobalLimit

\* The attempt counter only grows, except that an explicit requeue of a row
\* polluted by an earlier version restarts it, before any conversation or PR.
AttemptKept(j) ==
  job'[j].attempt < job[j].attempt =>
    /\ job'[j].attempt = 0 /\ job'[j].retry
    /\ job'[j].conv = None /\ ~job'[j].pr

AttemptsKept == [][\A j \in Jobs : AttemptKept(j)]_storeVars
=============================================================================
