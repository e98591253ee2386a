-------------------------- MODULE ServiceTheorems --------------------------
(***************************************************************************)
(* Theorems of the whole service, for any number of processes, workers,    *)
(* threads, jobs and keys, any limits and any failures.  The service       *)
(* implements Store, so what is proved of the store for arbitrary clients  *)
(* holds of the pipeline, of recovery, of operators and of intake.  And    *)
(* nothing is ever shown as published without its pull request.            *)
(***************************************************************************)
EXTENDS Service, LeaseTheorems

USE DEF QUEUED, RUNNING, NEEDS_GUIDANCE, PR_OPEN, REVIEWING, BLOCKED, FAILED,
        CANCELED, DONE, Absent

(* What a worker knows.  The row it saw is gone once its end is planned.   *)
Rowless == {"idle", "stop", "leave", "finish", "orchestratorError"}
HasRun == {"begin", "wait", "record", "result", "validate", "correct",
           "repairRecord", "repairWait"}
Phases ==
  {"idle", "preflight", "lookup", "adopt", "adopted", "health", "setup", "launch", "begin",
   "wait", "record", "result", "validate", "correct", "commit", "lease", "guard", "push",
   "pullRequest", "createPr", "labelPr", "recordPr", "observed", "openPr", "opened",
   "review", "reviewing", "reviewLaunch", "reviewWait", "reviewPost", "repairLaunch",
   "repairRecord", "repairWait", "repairValidate", "repairPush", "reviewAgain",
   "staleError", "providerError", "orchestratorError", "unexpectedError",
   "stop", "leave", "finish"}
Guarded ==
  {"push", "pullRequest", "createPr", "openPr", "reviewing", "reviewPost", "repairLaunch",
   "repairPush", "reviewAgain"}
Stops == {QUEUED, NEEDS_GUIDANCE, PR_OPEN, BLOCKED, FAILED, CANCELED}

RowView ==
  [attempt : Nat, conv : Convs \cup {None}, pr : BOOLEAN, route : Routes,
   content : Contents, owner : Owners \cup {None}]

WorkerRow ==
  [pc : Phases, job : Jobs \cup {None}, seen : RowView \cup {None}, run : Convs \cup {None},
   started : BOOLEAN, existing : BOOLEAN, corrections : 0..MaxCorrections,
   repairs : 0..MaxRepairs, then : Guarded \cup {"idle"}, allow : BOOLEAN, to : Stops \cup {Absent},
   beat : {"on", "off", "flagged"}]

WorkerOK(r) ==
  /\ r \in WorkerRow
  /\ r.pc # "idle" => r.job \in Jobs
  /\ r.pc \notin Rowless => r.seen \in RowView
  /\ r.pc \in HasRun => r.run \in Convs
  /\ r.pc \in {"stop", "leave"} => r.to \in Stops

(* What a control-plane thread knows.                                      *)
Operations ==
  {"idle", "dead", "recover", "giveUp", "reap", "requeue", "merged", "request", "labels",
   "interrupt", "revalidate", "refuse", "accept", "reroute", "intake", "decide", "skip",
   "update", "halt", "lookUp", "create", "adoptPr", "adoptOpen", "orphan"}
HasLive == {"decide", "accept", "refuse", "reroute", "update", "halt", "lookUp", "create"}
HasRead == {"recover", "giveUp", "reap"}

ReadView ==
  [state : JobState \cup {Absent}, conv : Convs \cup {None}, rconv : Convs \cup {None},
   repair : BOOLEAN, pr : BOOLEAN]

ThreadRow ==
  [pc : Operations, job : Jobs \cup {None}, row : ReadView \cup {None},
   cmd : Commands \cup {None}, live : Issue \cup {None},
   then : {"idle", "intake", "interrupt", "revalidate", "adoptPr", "orphan"}]

ThreadOK(r) ==
  /\ r \in ThreadRow
  /\ r.pc \notin {"idle", "dead"} => r.job \in Jobs
  /\ r.pc = "request" => r.cmd \in Commands
  /\ r.pc \in HasLive => r.live \in Issue
  /\ r.pc \in HasRead => r.row \in ReadView

ExternalsOK ==
  /\ active \subseteq [owner : Owners, job : Jobs, run : Convs]
  /\ running \in [Jobs -> SUBSET Convs]
  /\ issue \in [Jobs -> Issue]
  /\ pull \in [Jobs -> {"none", "open", "merged"}]
  /\ branch \in [Jobs -> {"none", "behind", "same"}]
  /\ up \subseteq Owners

LocalsOK ==
  /\ worker \in [Workers -> WorkerRow] /\ \A w \in Workers : WorkerOK(worker[w])
  /\ thread \in [Threads -> ThreadRow] /\ \A t \in Threads : ThreadOK(thread[t])

(* Where the pull request is in the row.                                   *)
Shows == {"adopt", "adopted", "observed", "openPr", "opened", "review", "reviewing",
          "reviewLaunch", "reviewWait", "reviewPost", "repairLaunch", "repairRecord",
          "repairWait", "repairValidate", "repairPush", "reviewAgain"}

WorkerShows(r) ==
  \/ r.pc \in Shows
  \/ r.pc \in {"lease", "guard"} /\ r.then \in Shows
  \/ r.pc \in {"stop", "leave"} /\ r.to = PR_OPEN

ThreadShows(r) ==
  \/ r.pc \in HasRead /\ r.row.pr
  \/ r.pc = "adoptOpen"

HasPr(j) == job[j].pr

PrKnown ==
  /\ \A w \in Workers : WorkerShows(worker[w]) => HasPr(worker[w].job)
  /\ \A t \in Threads : ThreadShows(thread[t]) => HasPr(thread[t].job)

AbsentHasNoPr == \A j \in Jobs : ~Exists(j) => ~HasPr(j)

ServiceInv ==
  /\ StoreTypeOK /\ ExternalsOK /\ LocalsOK
  /\ PrKnown /\ AbsentHasNoPr /\ PublishedHasPr
-----------------------------------------------------------------------------
(* The store calls of the service.                                         *)

\* Every call but transition.
QuietCall(j) ==
  \/ \E o \in Owners : ClaimNext(j, o)
  \/ \E c \in Convs : BeginAttempt(j, c)
  \/ RecordPr(j)
  \/ \E c \in Convs : RecordReview(j, c)
  \/ \E c \in Convs, b \in BOOLEAN : RecordConversation(j, c, b)
  \/ \E b \in BOOLEAN : RecordPhase(j, b)
  \/ OperatorCall(j)

\* transition, as the service calls it.
Moves(j) ==
  \E call \in TransitionCalls :
    /\ Transition(j, call[1], call[2])
    /\ call[1] \in {PR_OPEN, REVIEWING} => HasPr(j)

StoreStep == UNCHANGED storeVars \/ Clock \/ \E j \in Jobs : QuietCall(j) \/ Moves(j)

LEMMA StoreStepIsCall == StoreStep => [StoreNext]_storeVars
<1> SUFFICES ASSUME StoreStep PROVE [StoreNext]_storeVars
  OBVIOUS
<1>1. ASSUME NEW j \in Jobs, QuietCall(j) \/ Moves(j) PROVE WorkerCall(j) \/ OperatorCall(j)
  BY <1>1 DEF QuietCall, Moves, WorkerCall
<1>2. QED
  BY <1>1 DEF StoreStep, StoreNext

\* Recorded pull requests stay, and what is published has one.
PrKept ==
  /\ AbsentHasNoPr' /\ PublishedHasPr'
  /\ \A k \in Jobs : HasPr(k) => HasPr(k)'

LEMMA OneRowPr ==
  ASSUME StoreTypeOK, AbsentHasNoPr, PublishedHasPr, NEW j \in Jobs, NEW row, Put(j, row),
         row.state # Absent, HasPr(j) => row.pr,
         row.state \in {PR_OPEN, REVIEWING} => row.pr
  PROVE  PrKept
<1>1. \A k \in Jobs : job'[k] = IF k = j THEN row ELSE job[k]
  BY DEF Put, StoreTypeOK
<1>2. QED
  BY <1>1 DEF PrKept, AbsentHasNoPr, PublishedHasPr, Exists, HasPr

LEMMA SameRowsPr ==
  ASSUME AbsentHasNoPr, PublishedHasPr, UNCHANGED job
  PROVE  PrKept
  BY DEF PrKept, AbsentHasNoPr, PublishedHasPr, Exists, HasPr

LEMMA QuietCallPr ==
  ASSUME StoreTypeOK, AbsentHasNoPr, PublishedHasPr, NEW j \in Jobs, QuietCall(j)
  PROVE  PrKept
<1> DEFINE r == job[j]
<1>0. /\ r \in JobRow
      /\ r.state \in {PR_OPEN, REVIEWING} => r.pr
      /\ HasPr(j) <=> r.pr
  BY DEF StoreTypeOK, PublishedHasPr, HasPr
<1>1. ASSUME NEW row, Put(j, row), row.state = r.state, r.state # Absent, r.pr => row.pr
      PROVE  PrKept
  BY <1>0, <1>1, OneRowPr
<1>2. ASSUME NEW row, Put(j, row), row.state \in {QUEUED, RUNNING, NEEDS_GUIDANCE, CANCELED},
             r.pr => row.pr
      PROVE  PrKept
  BY <1>0, <1>2, OneRowPr
<1>3. ASSUME NEW o \in Owners, ClaimNext(j, o) PROVE PrKept
  BY <1>0, <1>2, <1>3 DEF ClaimNext, JobRow
<1>4. ASSUME NEW c \in Convs, BeginAttempt(j, c) PROVE PrKept
  <2> DEFINE row == [r EXCEPT !.attempt = @ + 1, !.conv = c, !.retry = FALSE, !.repair = FALSE]
  <2>1. row.state = r.state /\ row.pr = r.pr
    BY <1>0 DEF JobRow
  <2>2. QED
    BY <1>1, <1>4, <2>1 DEF BeginAttempt
<1>5. CASE RecordPr(j)
  BY <1>0, <1>1, <1>5 DEF RecordPr, Exists, JobRow
<1>6. CASE \E c \in Convs : RecordReview(j, c)
  BY <1>0, <1>1, <1>6 DEF RecordReview, Exists, JobRow
<1>7. CASE \E c \in Convs, b \in BOOLEAN : RecordConversation(j, c, b)
  BY <1>0, <1>1, <1>7 DEF RecordConversation, Exists, JobRow
<1>8. CASE \E b \in BOOLEAN : RecordPhase(j, b)
  BY <1>0, <1>1, <1>8 DEF RecordPhase, Exists, JobRow
<1>9. ASSUME NEW s \in Routes, NEW c \in Contents, EnsureJob(j, s, c) PROVE PrKept
  <2> DEFINE row == [NewRow EXCEPT !.route = s, !.content = c]
  <2>1. row.state = QUEUED
    BY NewRowType DEF JobRow
  <2>2. ~r.pr
    BY <1>0, <1>9 DEF EnsureJob, AbsentHasNoPr
  <2>3. QED
    BY <1>2, <1>9, <2>1, <2>2 DEF EnsureJob
<1>10. ASSUME NEW s \in Routes, NEW c \in Contents, UpdateSnapshotIfUnclaimed(j, s, c)
       PROVE  PrKept
  BY <1>0, <1>1, <1>10 DEF UpdateSnapshotIfUnclaimed, JobRow
<1>11. ASSUME NEW c \in Contents, AcceptSnapshot(j, c) PROVE PrKept
  BY <1>0, <1>1, <1>11 DEF AcceptSnapshot, JobRow
<1>12. ASSUME NEW s \in Routes, RecordRouting(j, s) PROVE PrKept
  BY <1>0, <1>1, <1>12 DEF RecordRouting, Exists, JobRow
<1>13. CASE RequestCancel(j)
  BY <1>0, <1>1, <1>2, <1>13 DEF RequestCancel, Exists, JobRow
<1>14. CASE RequestPause(j)
  BY <1>0, <1>1, <1>2, <1>14 DEF RequestPause, Exists, JobRow
<1>15. CASE RequestRequeue(j)
  <2> DEFINE row == [r EXCEPT !.state = QUEUED, !.retry = TRUE, !.cancel = FALSE,
                              !.pause = FALSE, !.repair = FALSE,
                              !.attempt = IF Polluted(j) THEN 0 ELSE @]
  <2>1. row.state = QUEUED /\ row.pr = r.pr
    BY <1>0 DEF JobRow
  <2>2. Put(j, row) \/ UNCHANGED job
    BY <1>15 DEF RequestRequeue
  <2>3. QED
    BY <1>2, <2>1, <2>2, SameRowsPr
<1>16. CASE ReapExpired(j)
  <2> DEFINE row == [r EXCEPT !.state = RecoveryState(j), !.repair = FALSE]
  <2>1. row.state = RecoveryState(j) /\ row.pr = r.pr
    BY <1>0 DEF JobRow
  <2>2. RecoveryState(j) \in {CANCELED, NEEDS_GUIDANCE, QUEUED} \/ r.state = REVIEWING
    BY DEF RecoveryState
  <2>3. Put(j, row)
    BY <1>16 DEF ReapExpired
  <2>4. CASE r.state = REVIEWING
    BY <1>0, <2>1, <2>3, <2>4, RecoveryStateFacts, OneRowPr
  <2>5. QED
    BY <1>2, <2>1, <2>2, <2>3, <2>4
<1>17. QED
  BY <1>3, <1>4, <1>5, <1>6, <1>7, <1>8, <1>9, <1>10, <1>11, <1>12, <1>13, <1>14, <1>15, <1>16
     DEF QuietCall, OperatorCall, RequestControl

LEMMA MovesPr ==
  ASSUME StoreTypeOK, AbsentHasNoPr, PublishedHasPr, NEW j \in Jobs, Moves(j)
  PROVE  PrKept
<1>1. PICK call \in TransitionCalls :
        /\ Transition(j, call[1], call[2])
        /\ call[1] \in {PR_OPEN, REVIEWING} => HasPr(j)
  BY DEF Moves
<1> DEFINE row == [job[j] EXCEPT !.state = call[1], !.repair = FALSE]
<1>2. row.state = call[1] /\ row.pr = HasPr(j) /\ Put(j, row)
  BY <1>1 DEF StoreTypeOK, JobRow, HasPr, Transition
<1>3. call[1] # Absent
  BY TransitionCallFacts DEF JobState
<1>4. QED
  BY <1>1, <1>2, <1>3, OneRowPr

\* What the store calls of the service do to the tables.
LEMMA StoreStepKeeps ==
  ASSUME StoreTypeOK, AbsentHasNoPr, PublishedHasPr, StoreStep
  PROVE  StoreTypeOK' /\ PrKept
<1>1. StoreTypeOK'
  BY StoreTypeStep, StoreStepIsCall
<1>2. ASSUME UNCHANGED storeVars \/ Clock PROVE PrKept
  BY <1>2, SameRowsPr
     DEF storeVars, Clock, SetProviderBackoff, BackoffElapses, LeaseExpires
<1>3. ASSUME NEW j \in Jobs, QuietCall(j) \/ Moves(j) PROVE PrKept
  BY <1>3, QuietCallPr, MovesPr
<1>4. QED
  BY <1>1, <1>2, <1>3 DEF StoreStep
-----------------------------------------------------------------------------
(* The store calls of a worker's steps.                                    *)

\* The steps that call no method of the store that writes.
SilentStep(w) ==
  \/ Preflight(w) \/ Launch(w) \/ SlotLost(w) \/ Wait(w) \/ PollFails(w) \/ Correct(w)
  \/ Commit(w) \/ CheckLease(w) \/ Guard(w) \/ Push(w) \/ CreatePr(w) \/ LabelPr(w)
  \/ Observed(w) \/ Opened(w) \/ Review(w) \/ ReviewWait(w) \/ ReviewPost(w)
  \/ RepairLaunch(w) \/ RepairWait(w) \/ RepairValidate(w) \/ RepairPush(w)
  \/ ReviewAgain(w) \/ CallFails(w) \/ OnStale(w) \/ OnOrchestratorError(w)
  \/ OnUnexpectedError(w) \/ Finish(w)

LEMMA SilentStepStore ==
  ASSUME NEW w \in Workers, SilentStep(w)
  PROVE  UNCHANGED storeVars
<1>1. CASE \/ Preflight(w) \/ Launch(w) \/ SlotLost(w) \/ Wait(w) \/ PollFails(w) \/ Correct(w)
           \/ Commit(w) \/ CheckLease(w) \/ Guard(w) \/ Push(w) \/ CreatePr(w) \/ LabelPr(w)
           \/ Observed(w) \/ Opened(w)
  BY <1>1 DEF Preflight, Launch, SlotLost, Wait, PollFails, Correct, Commit, CheckLease, Guard,
              Push, CreatePr, LabelPr, Observed, Opened, Goto, Stop, Check, Move
<1>2. CASE \/ Review(w) \/ ReviewWait(w) \/ ReviewPost(w) \/ RepairLaunch(w) \/ RepairWait(w)
           \/ RepairValidate(w) \/ RepairPush(w) \/ ReviewAgain(w) \/ CallFails(w)
           \/ OnStale(w) \/ OnOrchestratorError(w) \/ OnUnexpectedError(w) \/ Finish(w)
  BY <1>2 DEF Review, ReviewWait, ReviewPost, RepairLaunch, RepairWait, RepairValidate,
              RepairPush, ReviewAgain, CallFails, OnStale, OnOrchestratorError,
              OnUnexpectedError, Finish, Goto, Stop, Leave, Check, Observe, Move
<1>3. QED
  BY <1>1, <1>2 DEF SilentStep

\* The others.
LEMMA KeepLeaseStore ==
  ASSUME ServiceInv, NEW w \in Workers, worker[w].job \in Jobs, HasPr(worker[w].job),
         NEW to \in {PR_OPEN, REVIEWING}, NEW next, KeepLease(w, to, next)
  PROVE  StoreStep
<1>1. <<to, FALSE>> \in TransitionCalls
  BY DEF TransitionCalls
<1>2. Transition(Mine(w), to, FALSE) => Moves(Mine(w))
  BY <1>1 DEF Moves, Mine
<1>3. QED
  BY <1>2 DEF KeepLease, StoreStep, Goto, Move, Mine

LEMMA WorkerStoreStep ==
  ASSUME ServiceInv, NEW w \in Workers, Step(w)
  PROVE  StoreStep
<1> DEFINE r == worker[w]
           j == Mine(w)
<1>0. /\ WorkerOK(r) /\ j = r.job
      /\ WorkerShows(r) => HasPr(j)
  BY DEF ServiceInv, LocalsOK, PrKnown, Mine
<1>1. ASSUME r.pc # "idle" PROVE j \in Jobs
  BY <1>0, <1>1 DEF WorkerOK
<1>2. ASSUME r.pc \notin Rowless PROVE r.seen.route.provider \in Providers
  BY <1>0, <1>2, StoreAssumption DEF WorkerOK, RowView, Route
<1>3. ASSUME r.pc \in HasRun PROVE r.run \in Convs
  BY <1>0, <1>3 DEF WorkerOK
<1> HIDE DEF r, j
<1>4. CASE SilentStep(w)
  BY <1>4, SilentStepStore DEF StoreStep
<1>5. CASE LookupPr(w)
  BY <1>1, <1>5 DEF LookupPr, At, Goto, Move, StoreStep, QuietCall, r, j
<1>6. CASE Adopt(w) \/ Setup(w) \/ Validate(w) \/ PullRequestPhase(w)
  BY <1>1, <1>6 DEF Adopt, Setup, Validate, PullRequestPhase, At, StoreStep, QuietCall, r, j
<1>7. CASE Adopted(w) \/ OpenPr(w) \/ Reviewing(w)
  BY <1>0, <1>1, <1>7, KeepLeaseStore DEF Adopted, OpenPr, Reviewing, At, WorkerShows, Shows, r, j
<1>8. CASE Health(w) \/ Result(w) \/ OnProviderError(w)
  BY <1>2, <1>8 DEF Health, Result, OnProviderError, At, Stop, Leave, Goto, Move, Rowless,
                    StoreStep, Clock, r
<1>9. CASE Begin(w) \/ Record(w) \/ RepairRecord(w)
  BY <1>1, <1>3, <1>9 DEF Begin, Record, RepairRecord, At, Goto, Move, HasRun, StoreStep,
                          QuietCall, r, j
<1>10. CASE RecordPullRequest(w) \/ ReviewLaunch(w)
  BY <1>1, <1>10, WorkerAssumption
     DEF RecordPullRequest, ReviewLaunch, At, StoreStep, QuietCall, r, j
<1>11. CASE Stopping(w)
  <2>1. r.pc \in {"stop", "leave"}
    BY <1>11 DEF Stopping, At, r
  <2>2. <<r.to, TRUE>> \in TransitionCalls
    BY <1>0, <2>1 DEF WorkerOK, Stops, TransitionCalls, r
  <2>3. r.to \in {PR_OPEN, REVIEWING} => HasPr(j)
    BY <1>0, <2>1 DEF WorkerShows, WorkerOK, Stops, r
  <2>4. Transition(j, r.to, TRUE) => Moves(j)
    BY <2>2, <2>3 DEF Moves
  <2>5. QED
    BY <1>1, <1>11, <2>1, <2>4 DEF Stopping, StoreStep, Goto, Move, r, j
<1>12. QED
  BY <1>4, <1>5, <1>6, <1>7, <1>8, <1>9, <1>10, <1>11 DEF Step, SilentStep
-----------------------------------------------------------------------------
(* What a worker knows after its steps.                                    *)

LEMMA ReturnedType ==
  ASSUME StoreTypeOK', NEW j \in Jobs
  PROVE  Returned(j) \in RowView
<1> DEFINE held == {l \in leases' : l.job = j}
           owner == IF held = {} THEN None ELSE (CHOOSE l \in held : TRUE).owner
<1>1. job'[j] \in JobRow
  BY DEF StoreTypeOK
<1>2. owner \in Owners \cup {None}
  <2>1. CASE held # {}
    <3>1. (CHOOSE l \in held : TRUE) \in held
      BY <2>1
    <3>2. QED
      BY <2>1, <3>1 DEF StoreTypeOK, LeaseRow
  <2>2. QED
    BY <2>1
<1> HIDE DEF owner
<1>3. [attempt |-> job'[j].attempt, conv |-> job'[j].conv, pr |-> job'[j].pr,
       route |-> job'[j].route, content |-> job'[j].content, owner |-> owner] \in RowView
  BY <1>1, <1>2 DEF RowView, JobRow
<1>4. QED
  BY <1>3 DEF Returned, View, owner

LEMMA IdleOK == WorkerOK(Idle) /\ ~WorkerShows(Idle)
  BY WorkerAssumption
     DEF WorkerOK, WorkerRow, WorkerShows, Shows, Idle, Rowless, HasRun, Phases

\* Planning the end of a run.
LEMMA PlannedOK ==
  ASSUME NEW w \in Workers, WorkerOK(worker[w]), worker[w].pc # "idle",
         NEW to \in Stops \cup {Absent},
         NEW pc \in {"stop", "leave", "finish"}, pc # "finish" => to \in Stops
  PROVE  /\ WorkerOK(Planned(w, pc, to))
         /\ WorkerShows(Planned(w, pc, to)) => pc # "finish" /\ to = PR_OPEN
         /\ Planned(w, pc, to).job = Mine(w)
<1> DEFINE r == worker[w]
           n == [Idle EXCEPT !.pc = pc, !.to = to, !.job = r.job, !.beat = r.beat]
<1>1. r.job \in Jobs /\ r.beat \in {"on", "off", "flagged"}
  BY DEF WorkerOK, WorkerRow
<1> HIDE DEF r
<1>2. /\ n \in WorkerRow /\ n.job = r.job /\ n.to = to /\ n.pc = pc
  <2>1. pc \in Phases /\ r.job \in Jobs \cup {None} /\ Idle \in WorkerRow
    BY <1>1, IdleOK DEF Phases, WorkerOK
  <2>2. QED
    BY <1>1, <2>1 DEF WorkerRow
<1>3. n = Planned(w, pc, to)
  BY DEF Planned, Mine, r
<1> HIDE DEF n
<1>4. QED
  BY <1>1, <1>2, <1>3 DEF WorkerOK, WorkerShows, Shows, Rowless, HasRun, Mine, r

\* Going on in the middle of a run.
LEMMA AtOK ==
  ASSUME NEW r, WorkerOK(r), r.pc # "idle", NEW pc \in Phases, pc \notin {"stop", "leave"},
         pc \notin Rowless => r.seen \in RowView,
         pc \in HasRun => r.run \in Convs
  PROVE  LET n == [r EXCEPT !.pc = pc] IN WorkerOK(n) /\ n.job = r.job /\ n.pc = pc /\ n.then = r.then
  BY DEF WorkerOK, WorkerRow

\* _require_live_lease and the guard before the mutation at pc.
LEMMA CheckingOK ==
  ASSUME NEW w \in Workers, WorkerOK(worker[w]), worker[w].pc \notin Rowless,
         NEW pc \in Guarded, NEW allow \in BOOLEAN
  PROVE  LET n == Checking(w, pc, allow)
         IN  WorkerOK(n) /\ n.job = Mine(w) /\ n.pc = "lease" /\ n.then = pc
<1> DEFINE r == worker[w]
           n == [r EXCEPT !.pc = "lease", !.then = pc, !.allow = allow]
<1>1. r \in WorkerRow /\ r.job \in Jobs /\ r.seen \in RowView
  BY DEF WorkerOK, Rowless
<1> HIDE DEF r
<1>2. n \in WorkerRow /\ n.job = r.job /\ n.pc = "lease" /\ n.then = pc /\ n.seen = r.seen
  <2>1. "lease" \in Phases /\ pc \in Guarded \cup {"idle"}
    BY DEF Phases
  <2>2. QED
    BY <1>1, <2>1 DEF WorkerRow
<1>3. n = Checking(w, pc, allow)
  BY DEF Checking, r
<1> HIDE DEF n
<1>4. QED
  BY <1>1, <1>2, <1>3 DEF WorkerOK, HasRun, Mine, r
\* A step that leaves a worker with good values.
Goes(w) ==
  \E n : /\ worker' = [worker EXCEPT ![w] = n]
         /\ WorkerOK(n)
         /\ WorkerShows(n) => job'[n.job].pr

LEMMA GoesOn ==
  ASSUME NEW w \in Workers, WorkerOK(worker[w]), worker[w].pc # "idle",
         NEW pc \in Phases \ {"stop", "leave", "lease", "guard"},
         pc \notin Rowless => worker[w].seen \in RowView,
         pc \in HasRun => worker[w].run \in Convs,
         pc \in Shows => job'[Mine(w)].pr,
         worker' = [worker EXCEPT ![w] = [worker[w] EXCEPT !.pc = pc]]
  PROVE  Goes(w)
<1> DEFINE n == [worker[w] EXCEPT !.pc = pc]
<1>1. WorkerOK(n) /\ n.job = Mine(w) /\ n.pc = pc
  BY AtOK DEF Mine
<1> HIDE DEF n
<1>2. worker' = [worker EXCEPT ![w] = n]
  BY DEF n
<1>3. QED
  BY <1>1, <1>2 DEF Goes, WorkerShows

LEMMA Plans ==
  ASSUME NEW w \in Workers, WorkerOK(worker[w]), worker[w].pc # "idle",
         NEW to \in Stops \cup {Absent}, NEW pc \in {"stop", "leave", "finish"},
         pc # "finish" => to \in Stops,
         pc # "finish" /\ to = PR_OPEN => job'[Mine(w)].pr,
         worker' = [worker EXCEPT ![w] = Planned(w, pc, to)]
  PROVE  Goes(w)
  BY PlannedOK DEF Goes

LEMMA Checks ==
  ASSUME NEW w \in Workers, WorkerOK(worker[w]), worker[w].pc \notin Rowless,
         NEW pc \in Guarded, NEW allow \in BOOLEAN, pc \in Shows => job'[Mine(w)].pr,
         worker' = [worker EXCEPT ![w] = Checking(w, pc, allow)]
  PROVE  Goes(w)
<1>1. LET n == Checking(w, pc, allow)
      IN  WorkerOK(n) /\ n.job = Mine(w) /\ n.pc = "lease" /\ n.then = pc
  BY CheckingOK
<1>2. ~("lease" \in Shows)
  BY DEF Shows
<1>3. QED
  BY <1>1, <1>2 DEF Goes, WorkerShows

\* The general case: the locals that changed have the right kind.
LEMMA Becomes ==
  ASSUME NEW w \in Workers, WorkerOK(worker[w]), worker[w].pc # "idle",
         NEW n \in WorkerRow, n.job = Mine(w), n.seen \in RowView,
         n.pc \notin {"stop", "leave"},
         n.pc \in HasRun => n.run \in Convs,
         WorkerShows(n) => job'[Mine(w)].pr,
         worker' = [worker EXCEPT ![w] = n]
  PROVE  Goes(w)
  BY DEF Goes, WorkerOK, Mine

LEMMA Sees ==
  ASSUME StoreTypeOK', NEW w \in Workers, WorkerOK(worker[w]), worker[w].pc # "idle",
         NEW pc \in Phases \ {"stop", "leave", "lease", "guard"},
         pc \in HasRun => worker[w].run \in Convs,
         pc \in Shows => job'[Mine(w)].pr,
         worker \in [Workers -> WorkerRow],
         Saw(w, pc)
  PROVE  Goes(w)
<1> DEFINE r == worker[w]
           seen == Returned(Mine(w))
           n == [r EXCEPT !.pc = pc, !.seen = seen]
<1>1. r \in WorkerRow /\ r.job \in Jobs /\ Mine(w) = r.job
  BY DEF WorkerOK, Mine
<1>2. seen \in RowView
  BY <1>1, ReturnedType
<1>3. worker' = [worker EXCEPT ![w] = n]
  BY DEF Saw
<1> HIDE DEF r, seen
<1>4. n \in WorkerRow /\ n.job = r.job /\ n.seen = seen /\ n.pc = pc /\ n.run = r.run
  BY <1>1, <1>2 DEF WorkerRow
<1> HIDE DEF n
<1>5. QED
  BY <1>1, <1>2, <1>3, <1>4, Becomes DEF WorkerShows, r
\* A worker in a step of the service, with the tables as the step leaves them.
Stepping(w) == ServiceInv /\ StoreTypeOK' /\ PrKept /\ worker[w].pc # "idle"

LEMMA StepFacts ==
  ASSUME NEW w \in Workers, Stepping(w)
  PROVE  /\ WorkerOK(worker[w]) /\ worker \in [Workers -> WorkerRow]
         /\ worker[w] \in WorkerRow /\ Mine(w) \in Jobs /\ Mine(w) = worker[w].job
         /\ WorkerShows(worker[w]) => job'[Mine(w)].pr
         /\ job[Mine(w)].pr => job'[Mine(w)].pr
<1>1. WorkerOK(worker[w]) /\ worker \in [Workers -> WorkerRow] /\ worker[w] \in WorkerRow
  BY DEF Stepping, ServiceInv, LocalsOK
<1>2. Mine(w) \in Jobs /\ Mine(w) = worker[w].job
  BY <1>1 DEF Stepping, WorkerOK, Mine
<1>3. WorkerShows(worker[w]) => job[Mine(w)].pr
  BY <1>2 DEF Stepping, ServiceInv, PrKnown, HasPr
<1>4. job[Mine(w)].pr => job'[Mine(w)].pr
  BY <1>2 DEF Stepping, PrKept, HasPr
<1>5. QED
  BY <1>1, <1>2, <1>3, <1>4

\* The ways on from a step, as the actions name them.
LEMMA Onward ==
  ASSUME NEW w \in Workers, Stepping(w), worker[w].pc \notin Rowless,
         NEW pc \in Phases \ {"stop", "leave", "lease", "guard"},
         pc \in HasRun => worker[w].pc \in HasRun,
         pc \in Shows => worker[w].pc \in Shows,
         Goto(w, pc)
  PROVE  Goes(w)
<1>1. worker[w].seen \in RowView /\ (worker[w].pc \in HasRun => worker[w].run \in Convs)
  BY StepFacts DEF WorkerOK
<1>2. worker[w].pc \in Shows => job'[Mine(w)].pr
  BY StepFacts DEF WorkerShows
<1>3. QED
  BY <1>1, <1>2, StepFacts, GoesOn DEF Stepping, Goto, Move

LEMMA ToHandler ==
  ASSUME NEW w \in Workers, Stepping(w), Goto(w, "orchestratorError") \/ Goto(w, "finish")
  PROVE  Goes(w)
<1>1. \A pc \in {"orchestratorError", "finish"} :
        /\ pc \in Phases \ {"stop", "leave", "lease", "guard"}
        /\ pc \in Rowless /\ pc \notin HasRun /\ pc \notin Shows
  BY DEF Phases, Rowless, HasRun, Shows
<1>2. QED
  BY <1>1, StepFacts, GoesOn DEF Stepping, Goto, Move

LEMMA ToEnd ==
  ASSUME NEW w \in Workers, Stepping(w), NEW to \in Stops,
         to = PR_OPEN => worker[w].pc \in Shows \/ job'[Mine(w)].pr,
         NEW pc \in {"stop", "leave"},
         worker' = [worker EXCEPT ![w] = Planned(w, pc, to)]
  PROVE  Goes(w)
<1>1. to = PR_OPEN => job'[Mine(w)].pr
  BY StepFacts DEF WorkerShows
<1>2. QED
  BY <1>1, StepFacts, Plans DEF Stepping

LEMMA ToCheck ==
  ASSUME NEW w \in Workers, Stepping(w), worker[w].pc \notin Rowless,
         NEW pc \in Guarded, NEW allow \in BOOLEAN,
         pc \in Shows => worker[w].pc \in Shows,
         Check(w, pc, allow)
  PROVE  Goes(w)
<1>1. worker[w].pc \in Shows => job'[Mine(w)].pr
  BY StepFacts DEF WorkerShows
<1>2. QED
  BY <1>1, StepFacts, Checks DEF Check, Move

LEMMA ToSaw ==
  ASSUME NEW w \in Workers, Stepping(w),
         NEW pc \in Phases \ {"stop", "leave", "lease", "guard"},
         pc \in HasRun => worker[w].pc \in HasRun,
         pc \in Shows => worker[w].pc \in Shows \/ job'[Mine(w)].pr,
         Saw(w, pc)
  PROVE  Goes(w)
<1>1. worker[w].pc \in HasRun => worker[w].run \in Convs
  BY StepFacts DEF WorkerOK
<1>2. worker[w].pc \in Shows => job'[Mine(w)].pr
  BY StepFacts DEF WorkerShows
<1>3. QED
  BY <1>1, <1>2, StepFacts, Sees DEF Stepping

-----------------------------------------------------------------------------
\* The steps that leave more than the phase and the row behind.
Adopting(w, pc) ==
  [worker[w] EXCEPT !.pc = pc, !.existing = TRUE, !.seen = Returned(Mine(w))]
Correcting(w) ==
  [worker[w] EXCEPT !.pc = "correct", !.corrections = worker[w].corrections + 1,
                    !.seen = Returned(Mine(w))]
Launching(w, c) == [worker[w] EXCEPT !.pc = "begin", !.run = c, !.started = TRUE]

LEMMA Adopts ==
  ASSUME NEW w \in Workers, Stepping(w), job'[Mine(w)].pr, NEW pc \in {"adopt", "health"},
         worker' = [worker EXCEPT ![w] = Adopting(w, pc)]
  PROVE  Goes(w)
<1> DEFINE r == worker[w]
           seen == Returned(Mine(w))
           n == [r EXCEPT !.pc = pc, !.existing = TRUE, !.seen = seen]
<1>1. r \in WorkerRow /\ r.job = Mine(w)
  BY StepFacts
<1>2. seen \in RowView
  BY StepFacts, ReturnedType DEF Stepping
<1>3. pc \in Phases /\ pc \notin HasRun /\ pc \notin {"stop", "leave"}
  BY DEF Phases, HasRun
<1>4. worker' = [worker EXCEPT ![w] = n]
  BY DEF Adopting
<1> HIDE DEF r, seen
<1>5. n \in WorkerRow /\ n.job = r.job /\ n.seen = seen /\ n.pc = pc
  BY <1>1, <1>2, <1>3 DEF WorkerRow
<1> HIDE DEF n
<1>6. QED
  BY <1>1, <1>2, <1>3, <1>4, <1>5, StepFacts, Becomes DEF Stepping

LEMMA Corrects ==
  ASSUME NEW w \in Workers, Stepping(w), worker[w].pc \in HasRun,
         worker[w].corrections < MaxCorrections,
         worker' = [worker EXCEPT ![w] = Correcting(w)]
  PROVE  Goes(w)
<1> DEFINE r == worker[w]
           seen == Returned(Mine(w))
           more == r.corrections + 1
           n == [r EXCEPT !.pc = "correct", !.corrections = more, !.seen = seen]
<1>1. r \in WorkerRow /\ r.job = Mine(w) /\ r.run \in Convs
  BY StepFacts DEF WorkerOK
<1>2. seen \in RowView
  BY StepFacts, ReturnedType DEF Stepping
<1>3. "correct" \in Phases
  BY DEF Phases
<1>4. more \in 0..MaxCorrections
  <2>1. r.corrections \in 0..MaxCorrections
    BY <1>1 DEF WorkerRow
  <2>2. QED
    BY <2>1, WorkerAssumption
<1>5. worker' = [worker EXCEPT ![w] = n]
  BY DEF Correcting
<1> HIDE DEF r, seen, more
<1>6. n \in WorkerRow /\ n.job = r.job /\ n.seen = seen /\ n.pc = "correct" /\ n.run = r.run
  BY <1>1, <1>2, <1>3, <1>4 DEF WorkerRow
<1> HIDE DEF n
<1>7. ~WorkerShows(n)
  BY <1>6 DEF WorkerShows, Shows
<1>8. QED
  BY <1>1, <1>2, <1>3, <1>5, <1>6, <1>7, StepFacts, Becomes DEF Stepping

LEMMA Launches ==
  ASSUME NEW w \in Workers, Stepping(w), worker[w].pc \notin Rowless, NEW c \in Convs,
         worker' = [worker EXCEPT ![w] = Launching(w, c)]
  PROVE  Goes(w)
<1> DEFINE r == worker[w]
           n == [r EXCEPT !.pc = "begin", !.run = c, !.started = TRUE]
<1>1. r \in WorkerRow /\ r.job = Mine(w) /\ r.seen \in RowView
  BY StepFacts DEF WorkerOK
<1>2. "begin" \in Phases
  BY DEF Phases
<1>3. worker' = [worker EXCEPT ![w] = n]
  BY DEF Launching
<1> HIDE DEF r
<1>4. n \in WorkerRow /\ n.job = r.job /\ n.seen = r.seen /\ n.pc = "begin" /\ n.run = c
  BY <1>1, <1>2 DEF WorkerRow
<1> HIDE DEF n
<1>5. ~WorkerShows(n)
  BY <1>4 DEF WorkerShows, Shows
<1>6. QED
  BY <1>1, <1>3, <1>4, <1>5, StepFacts, Becomes DEF Stepping

LEMMA PrRecorded ==
  ASSUME StoreTypeOK, NEW j \in Jobs, RecordPr(j)
  PROVE  job'[j].pr
  BY DEF StoreTypeOK, JobRow, RecordPr, Put

LEMMA ImplementationGoes ==
  ASSUME NEW w \in Workers, Stepping(w),
         \/ Preflight(w) \/ LookupPr(w) \/ Adopt(w) \/ Adopted(w) \/ Health(w) \/ Setup(w)
         \/ Launch(w) \/ SlotLost(w) \/ Begin(w) \/ Wait(w) \/ Record(w) \/ PollFails(w)
         \/ Result(w) \/ Validate(w) \/ Correct(w)
  PROVE  Goes(w)
<1> DEFINE r == worker[w]
<1>1. CASE Preflight(w)
  <2>1. Goto(w, "lookup") \/ Stop(w, NEEDS_GUIDANCE)
    BY <1>1 DEF Preflight
  <2>2. r.pc = "preflight"
    BY <1>1 DEF Preflight, At
  <2>3. QED
    BY <2>1, <2>2, Onward, ToEnd DEF Phases, Rowless, HasRun, Shows, Stops, Stop, Move
<1>2. CASE Health(w)
  <2>1. r.pc = "health"
    BY <1>2 DEF Health, At
  <2>2. \/ Goto(w, "setup")
        \/ \E to \in {FAILED, NEEDS_GUIDANCE, QUEUED} :
              worker' = [worker EXCEPT ![w] = Planned(w, "stop", to)]
    BY <1>2 DEF Health, Stop, Move
  <2>3. QED
    BY <2>1, <2>2, Onward, ToEnd DEF Phases, Rowless, HasRun, Shows, Stops
<1>3. CASE LookupPr(w)
  <2>1. r.pc = "lookup"
    BY <1>3 DEF LookupPr, At
  <2>2. CASE pull[Mine(w)] = "open"
    <3>1. job'[Mine(w)].pr
      BY <1>3, <2>2, StepFacts, PrRecorded DEF LookupPr, Stepping, ServiceInv
    <3>2. \/ worker' = [worker EXCEPT ![w] = Adopting(w, "adopt")]
          \/ worker' = [worker EXCEPT ![w] = Adopting(w, "health")]
          \/ worker' = [worker EXCEPT ![w] = Planned(w, "stop", PR_OPEN)]
      BY <1>3, <2>2, StepFacts DEF LookupPr, Adopting
    <3>3. QED
      BY <3>1, <3>2, Adopts, ToEnd DEF Stops
  <2>3. CASE pull[Mine(w)] # "open"
    BY <1>3, <2>1, <2>3, Onward DEF LookupPr, Phases, Rowless, HasRun, Shows
  <2>4. QED
    BY <2>2, <2>3
<1>4. CASE Adopt(w)
  <2>1. r.pc = "adopt" /\ Saw(w, "adopted")
    BY <1>4 DEF Adopt, At
  <2>2. QED
    BY <2>1, ToSaw DEF Phases, HasRun, Shows
<1>5. CASE Adopted(w)
  <2>1. r.pc = "adopted"
    BY <1>5 DEF Adopted, At
  <2>2. Saw(w, "review") \/ Goto(w, "orchestratorError")
    BY <1>5 DEF Adopted, KeepLease
  <2>3. QED
    BY <2>1, <2>2, ToSaw, ToHandler DEF Phases, HasRun, Shows
<1>6. CASE Setup(w)
  <2>1. r.pc = "setup"
    BY <1>6 DEF Setup, At
  <2>2. Saw(w, "launch") \/ worker' = [worker EXCEPT ![w] = Planned(w, "stop", BLOCKED)]
    BY <1>6 DEF Setup
  <2>3. QED
    BY <2>1, <2>2, ToSaw, ToEnd DEF Phases, HasRun, Shows, Stops
<1>7. CASE SlotLost(w) \/ PollFails(w)
  <2>1. r.pc \in {"launch", "correct", "reviewLaunch", "repairLaunch",
                  "wait", "reviewWait", "repairWait"}
    BY <1>7 DEF SlotLost, PollFails, At
  <2>2. Goto(w, "providerError")
    BY <1>7 DEF SlotLost, PollFails
  <2>3. QED
    BY <2>1, <2>2, Onward DEF Phases, Rowless, HasRun, Shows
<1>8. CASE Begin(w)
  <2>1. r.pc = "begin"
    BY <1>8 DEF Begin, At
  <2>2. Saw(w, "wait") \/ Goto(w, "orchestratorError")
    BY <1>8 DEF Begin
  <2>3. QED
    BY <2>1, <2>2, ToSaw, ToHandler DEF Phases, HasRun, Shows
<1>9. CASE Wait(w)
  <2>1. r.pc = "wait"
    BY <1>9 DEF Wait, At
  <2>2. \E pc \in {"record", "result"} : Goto(w, pc)
    BY <1>9 DEF Wait
  <2>3. QED
    BY <2>1, <2>2, Onward DEF Phases, Rowless, HasRun, Shows
<1>10. CASE Record(w)
  <2>1. r.pc = "record" /\ Saw(w, "result")
    BY <1>10 DEF Record, At
  <2>2. QED
    BY <2>1, ToSaw DEF Phases, HasRun, Shows
<1>11. CASE Result(w)
  <2>1. r.pc = "result"
    BY <1>11 DEF Result, At
  <2>2. \/ \E pc \in {"staleError", "validate"} : Goto(w, pc)
        \/ \E to \in {CANCELED, NEEDS_GUIDANCE, BLOCKED, FAILED, QUEUED} :
              worker' = [worker EXCEPT ![w] = Planned(w, "stop", to)]
    BY <1>11 DEF Result, Stop, Move
  <2>3. QED
    BY <2>1, <2>2, Onward, ToEnd DEF Phases, Rowless, HasRun, Shows, Stops
<1>12. CASE Correct(w)
  <2>1. r.pc = "correct" /\ Goto(w, "wait")
    BY <1>12 DEF Correct, At
  <2>2. QED
    BY <2>1, Onward DEF Phases, Rowless, HasRun, Shows
<1>13. CASE Validate(w)
  <2>1. r.pc = "validate"
    BY <1>13 DEF Validate, At
  <2>2. \/ Saw(w, "commit")
        \/ r.corrections < MaxCorrections /\ worker' = [worker EXCEPT ![w] = Correcting(w)]
        \/ worker' = [worker EXCEPT ![w] = Planned(w, "stop", FAILED)]
    BY <1>13, StepFacts DEF Validate, Correcting
  <2>3. QED
    BY <2>1, <2>2, ToSaw, Corrects, ToEnd DEF Phases, HasRun, Shows, Stops
<1>14. CASE Launch(w)
  <2>1. r.pc = "launch"
    BY <1>14, Zenon DEF Launch, At
  <2>2. \E c \in Convs : worker' = [worker EXCEPT ![w] = Launching(w, c)]
    BY <1>14, Zenon DEF Launch, Move, Launching
  <2>3. QED
    BY <2>1, <2>2, Launches DEF Rowless
<1>15. QED
  BY <1>1, <1>2, <1>3, <1>4, <1>5, <1>6, <1>7, <1>8, <1>9, <1>10, <1>11, <1>12, <1>13, <1>14

Passing(w) == [worker[w] EXCEPT !.pc = worker[w].then, !.then = "idle", !.allow = FALSE]
Recording(w) ==
  [worker[w] EXCEPT !.pc = "observed", !.then = "openPr", !.seen = Returned(Mine(w))]
Rechecking(w, pc) == [Checking(w, pc, TRUE) EXCEPT !.seen = Returned(Mine(w))]

LEMMA ToGuard ==
  ASSUME NEW w \in Workers, Stepping(w), worker[w].pc = "lease", Goto(w, "guard")
  PROVE  Goes(w)
<1> DEFINE r == worker[w]
           n == [r EXCEPT !.pc = "guard"]
<1>1. r \in WorkerRow /\ r.job = Mine(w) /\ r.seen \in RowView
  BY StepFacts DEF WorkerOK, Rowless
<1>2. "guard" \in Phases
  BY DEF Phases
<1>3. worker' = [worker EXCEPT ![w] = n]
  BY DEF Goto, Move
<1>4. r.then \in Shows => job'[Mine(w)].pr
  BY StepFacts DEF WorkerShows
<1>5. r.pc = "lease"
  OBVIOUS
<1> HIDE DEF r
<1>6. n \in WorkerRow /\ n.job = r.job /\ n.seen = r.seen /\ n.pc = "guard" /\ n.then = r.then
  BY <1>1, <1>2 DEF WorkerRow
<1> HIDE DEF n
<1>7. WorkerShows(n) => job'[Mine(w)].pr
  BY <1>4, <1>6 DEF WorkerShows, Shows
<1>8. "guard" \notin HasRun
  BY DEF HasRun
<1>9. QED
  BY <1>1, <1>3, <1>6, <1>7, <1>8, StepFacts, Becomes DEF Stepping

LEMMA Passes ==
  ASSUME NEW w \in Workers, Stepping(w), worker[w].pc = "guard",
         worker' = [worker EXCEPT ![w] = Passing(w)]
  PROVE  Goes(w)
<1> DEFINE r == worker[w]
           n == [r EXCEPT !.pc = r.then, !.then = "idle", !.allow = FALSE]
<1>1. r \in WorkerRow /\ r.job = Mine(w) /\ r.seen \in RowView
  BY StepFacts DEF WorkerOK, Rowless
<1>2. /\ r.then \in Phases /\ r.then \notin HasRun
      /\ r.then \notin {"stop", "leave", "lease", "guard"}
      /\ r.then \in Guarded \cup {"idle"}
  BY <1>1 DEF WorkerRow, Guarded, Phases, HasRun
<1>3. worker' = [worker EXCEPT ![w] = n]
  BY DEF Passing
<1>4. r.then \in Shows => job'[Mine(w)].pr
  BY StepFacts DEF WorkerShows
<1> HIDE DEF r
<1>5. n \in WorkerRow /\ n.job = r.job /\ n.seen = r.seen /\ n.pc = r.then
  BY <1>1, <1>2 DEF WorkerRow
<1> HIDE DEF n
<1>6. QED
  BY <1>1, <1>2, <1>3, <1>4, <1>5, StepFacts, Becomes DEF WorkerShows, Stepping

LEMMA Records ==
  ASSUME NEW w \in Workers, Stepping(w), job'[Mine(w)].pr,
         worker' = [worker EXCEPT ![w] = Recording(w)]
  PROVE  Goes(w)
<1> DEFINE r == worker[w]
           seen == Returned(Mine(w))
           n == [r EXCEPT !.pc = "observed", !.then = "openPr", !.seen = seen]
<1>1. r \in WorkerRow /\ r.job = Mine(w)
  BY StepFacts
<1>2. seen \in RowView
  BY StepFacts, ReturnedType DEF Stepping
<1>3. "observed" \in Phases /\ "observed" \notin HasRun /\ "openPr" \in Guarded \cup {"idle"}
  BY DEF Phases, HasRun, Guarded
<1>4. worker' = [worker EXCEPT ![w] = n]
  BY DEF Recording
<1> HIDE DEF r, seen
<1>5. n \in WorkerRow /\ n.job = r.job /\ n.seen = seen /\ n.pc = "observed"
  BY <1>1, <1>2, <1>3 DEF WorkerRow
<1> HIDE DEF n
<1>6. QED
  BY <1>1, <1>2, <1>3, <1>4, <1>5, StepFacts, Becomes DEF Stepping

LEMMA Rechecks ==
  ASSUME NEW w \in Workers, Stepping(w), NEW pc \in Guarded \cup {"idle"},
         pc \in Shows => job'[Mine(w)].pr,
         worker' = [worker EXCEPT ![w] = Rechecking(w, pc)]
  PROVE  Goes(w)
<1> DEFINE r == worker[w]
           seen == Returned(Mine(w))
           n == [r EXCEPT !.pc = "lease", !.then = pc, !.allow = TRUE, !.seen = seen]
<1>1. r \in WorkerRow /\ r.job = Mine(w)
  BY StepFacts
<1>2. seen \in RowView
  BY StepFacts, ReturnedType DEF Stepping
<1>3. "lease" \in Phases /\ "lease" \notin HasRun
  BY DEF Phases, HasRun
<1>4. worker' = [worker EXCEPT ![w] = n]
  BY DEF Rechecking, Checking
<1> HIDE DEF r, seen
<1>5. n \in WorkerRow /\ n.job = r.job /\ n.seen = seen /\ n.pc = "lease" /\ n.then = pc
  BY <1>1, <1>2, <1>3 DEF WorkerRow
<1> HIDE DEF n
<1>6. WorkerShows(n) => job'[Mine(w)].pr
  BY <1>5 DEF WorkerShows, Shows
<1>7. QED
  BY <1>1, <1>2, <1>3, <1>4, <1>5, <1>6, StepFacts, Becomes DEF Stepping

LEMMA PublicationGoes ==
  ASSUME NEW w \in Workers, Stepping(w),
         \/ Commit(w) \/ CheckLease(w) \/ Guard(w) \/ Push(w) \/ PullRequestPhase(w)
         \/ CreatePr(w) \/ LabelPr(w) \/ RecordPullRequest(w) \/ Observed(w) \/ OpenPr(w)
         \/ Opened(w)
  PROVE  Goes(w)
<1> DEFINE r == worker[w]
<1>1. CASE Commit(w)
  <2>1. r.pc = "commit"
    BY <1>1, Zenon DEF Commit, At
  <2>2. \/ \E pc \in {"pullRequest", "push"}, allow \in BOOLEAN : Check(w, pc, allow)
        \/ worker' = [worker EXCEPT ![w] = Planned(w, "stop", FAILED)]
    <3>1. ASSUME NEW b, Check(w, IF b = "same" THEN "pullRequest" ELSE "push",
                             b = "same" \/ r.existing)
          PROVE  \E pc \in {"pullRequest", "push"}, allow \in BOOLEAN : Check(w, pc, allow)
      <4>1. (b = "same" \/ r.existing) \in BOOLEAN
        OBVIOUS
      <4>2. (IF b = "same" THEN "pullRequest" ELSE "push") \in {"pullRequest", "push"}
        OBVIOUS
      <4>3. QED
        BY <3>1, <4>1, <4>2, Zenon
    <3>2. QED
      BY <1>1, <3>1, Zenon DEF Commit, Stop, Move
  <2>3. "pullRequest" \in Guarded /\ "push" \in Guarded
    BY DEF Guarded
  <2>4. "pullRequest" \notin Shows /\ "push" \notin Shows /\ r.pc \notin Rowless
    BY <2>1 DEF Shows, Rowless
  <2>5. QED
    BY <2>2, <2>3, <2>4, ToCheck, ToEnd DEF Stops
<1>2. CASE CheckLease(w)
  <2>1. r.pc = "lease"
    BY <1>2 DEF CheckLease, At
  <2>2. \E pc \in {"orchestratorError", "staleError", "guard"} : Goto(w, pc)
    BY <1>2 DEF CheckLease
  <2>3. CASE Goto(w, "staleError")
    BY <2>1, <2>3, Onward DEF Phases, Rowless, HasRun, Shows
  <2>4. QED
    BY <2>1, <2>2, <2>3, ToHandler, ToGuard
<1>3. CASE Guard(w)
  <2>1. r.pc = "guard"
    BY <1>3 DEF Guard, At
  <2>2. Goto(w, "staleError") \/ worker' = [worker EXCEPT ![w] = Passing(w)]
    BY <1>3, Zenon DEF Guard, Move, Passing
  <2>3. CASE Goto(w, "staleError")
    BY <2>1, <2>3, Onward DEF Phases, Rowless, HasRun, Shows
  <2>4. QED
    BY <2>1, <2>2, <2>3, Passes
<1>4. CASE Push(w)
  <2>1. r.pc = "push" /\ Goto(w, "pullRequest")
    BY <1>4 DEF Push, At
  <2>2. QED
    BY <2>1, Onward DEF Phases, Rowless, HasRun, Shows
<1>5. CASE PullRequestPhase(w)
  <2>1. worker' = [worker EXCEPT ![w] = Rechecking(w, "createPr")]
    BY <1>5, Zenon DEF PullRequestPhase, Rechecking
  <2>2. QED
    BY <2>1, Rechecks DEF Guarded, Shows
<1>6. CASE CreatePr(w) \/ LabelPr(w)
  <2>1. r.pc \in {"createPr", "labelPr"}
    BY <1>6 DEF CreatePr, LabelPr, At
  <2>2. \E pc \in {"recordPr", "labelPr", "staleError"} : Goto(w, pc)
    BY <1>6 DEF CreatePr, LabelPr
  <2>3. QED
    BY <2>1, <2>2, Onward DEF Phases, Rowless, HasRun, Shows
<1>7. CASE RecordPullRequest(w)
  <2>1. job'[Mine(w)].pr
    BY <1>7, StepFacts, PrRecorded DEF RecordPullRequest, Stepping, ServiceInv
  <2>2. worker' = [worker EXCEPT ![w] = Recording(w)]
    BY <1>7, StepFacts DEF RecordPullRequest, Recording
  <2>3. QED
    BY <2>1, <2>2, Records
<1>8. CASE Observed(w)
  <2>1. r.pc = "observed" /\ r.then \in Guarded \cup {"idle"}
    BY <1>8, StepFacts DEF Observed, At, WorkerRow
  <2>2. worker' = [worker EXCEPT ![w] = Rechecking(w, r.then)]
    BY <1>8, Zenon DEF Observed, Rechecking
  <2>3. job'[Mine(w)].pr
    BY <2>1, StepFacts DEF WorkerShows, Shows
  <2>4. QED
    BY <2>1, <2>2, <2>3, Rechecks
<1>9. CASE OpenPr(w)
  <2>1. r.pc = "openPr"
    BY <1>9 DEF OpenPr, At
  <2>2. Saw(w, "opened") \/ Goto(w, "orchestratorError")
    BY <1>9 DEF OpenPr, KeepLease
  <2>3. QED
    BY <2>1, <2>2, ToSaw, ToHandler DEF Phases, HasRun, Shows
<1>10. CASE Opened(w)
  <2>1. r.pc = "opened"
    BY <1>10 DEF Opened, At
  <2>2. Goto(w, "review") \/ worker' = [worker EXCEPT ![w] = Planned(w, "stop", PR_OPEN)]
    BY <1>10 DEF Opened, Stop, Move
  <2>3. QED
    BY <2>1, <2>2, Onward, ToEnd DEF Phases, Rowless, HasRun, Shows, Stops
<1>11. QED
  BY <1>1, <1>2, <1>3, <1>4, <1>5, <1>6, <1>7, <1>8, <1>9, <1>10

Counting(w) ==
  [worker[w] EXCEPT !.pc = "guard", !.then = "repairLaunch", !.allow = TRUE,
                    !.repairs = worker[w].repairs + 1]
Repairing(w, c) == [worker[w] EXCEPT !.pc = "repairRecord", !.run = c]
Observing(w) == [worker[w] EXCEPT !.pc = "observed", !.then = "reviewAgain"]

LEMMA Counts ==
  ASSUME NEW w \in Workers, Stepping(w), worker[w].pc = "reviewPost",
         worker[w].repairs < MaxRepairs,
         worker' = [worker EXCEPT ![w] = Counting(w)]
  PROVE  Goes(w)
<1> DEFINE r == worker[w]
           more == r.repairs + 1
           n == [r EXCEPT !.pc = "guard", !.then = "repairLaunch", !.allow = TRUE,
                          !.repairs = more]
<1>1. r \in WorkerRow /\ r.job = Mine(w) /\ r.seen \in RowView
  BY StepFacts DEF WorkerOK, Rowless
<1>2. "guard" \in Phases /\ "guard" \notin HasRun /\ "repairLaunch" \in Guarded \cup {"idle"}
  BY DEF Phases, HasRun, Guarded
<1>3. worker' = [worker EXCEPT ![w] = n]
  BY DEF Counting
<1>4. job'[Mine(w)].pr
  BY StepFacts DEF WorkerShows, Shows
<1>5. more \in 0..MaxRepairs
  <2>1. r.repairs \in 0..MaxRepairs
    BY <1>1 DEF WorkerRow
  <2>2. QED
    BY <2>1, WorkerAssumption
<1> HIDE DEF r, more
<1>6. n \in WorkerRow /\ n.job = r.job /\ n.seen = r.seen /\ n.pc = "guard"
  BY <1>1, <1>2, <1>5 DEF WorkerRow
<1> HIDE DEF n
<1>7. QED
  BY <1>1, <1>2, <1>3, <1>4, <1>6, StepFacts, Becomes DEF Stepping

LEMMA Repairs ==
  ASSUME NEW w \in Workers, Stepping(w), worker[w].pc = "repairLaunch", NEW c \in Convs,
         worker' = [worker EXCEPT ![w] = Repairing(w, c)]
  PROVE  Goes(w)
<1> DEFINE r == worker[w]
           n == [r EXCEPT !.pc = "repairRecord", !.run = c]
<1>1. r \in WorkerRow /\ r.job = Mine(w) /\ r.seen \in RowView
  BY StepFacts DEF WorkerOK, Rowless
<1>2. "repairRecord" \in Phases
  BY DEF Phases
<1>3. worker' = [worker EXCEPT ![w] = n]
  BY DEF Repairing
<1>4. job'[Mine(w)].pr
  BY StepFacts DEF WorkerShows, Shows
<1> HIDE DEF r
<1>5. n \in WorkerRow /\ n.job = r.job /\ n.seen = r.seen /\ n.pc = "repairRecord" /\ n.run = c
  BY <1>1, <1>2 DEF WorkerRow
<1> HIDE DEF n
<1>6. QED
  BY <1>1, <1>3, <1>4, <1>5, StepFacts, Becomes DEF Stepping

LEMMA Observes ==
  ASSUME NEW w \in Workers, Stepping(w), worker[w].pc \in {"repairValidate", "repairPush"},
         worker' = [worker EXCEPT ![w] = Observing(w)]
  PROVE  Goes(w)
<1> DEFINE r == worker[w]
           n == [r EXCEPT !.pc = "observed", !.then = "reviewAgain"]
<1>1. r \in WorkerRow /\ r.job = Mine(w) /\ r.seen \in RowView
  BY StepFacts DEF WorkerOK, Rowless
<1>2. "observed" \in Phases /\ "observed" \notin HasRun /\ "reviewAgain" \in Guarded \cup {"idle"}
  BY DEF Phases, HasRun, Guarded
<1>3. worker' = [worker EXCEPT ![w] = n]
  BY DEF Observing
<1>4. job'[Mine(w)].pr
  BY StepFacts DEF WorkerShows, Shows
<1> HIDE DEF r
<1>5. n \in WorkerRow /\ n.job = r.job /\ n.seen = r.seen /\ n.pc = "observed"
  BY <1>1, <1>2 DEF WorkerRow
<1> HIDE DEF n
<1>6. QED
  BY <1>1, <1>2, <1>3, <1>4, <1>5, StepFacts, Becomes DEF Stepping

LEMMA ReviewGoes ==
  ASSUME NEW w \in Workers, Stepping(w),
         \/ Review(w) \/ Reviewing(w) \/ ReviewLaunch(w) \/ ReviewWait(w) \/ ReviewPost(w)
         \/ RepairLaunch(w) \/ RepairRecord(w) \/ RepairWait(w) \/ RepairValidate(w)
         \/ RepairPush(w) \/ ReviewAgain(w)
  PROVE  Goes(w)
<1> DEFINE r == worker[w]
           ends == worker' = [worker EXCEPT ![w] = Planned(w, "stop", PR_OPEN)]
<1>0. r.pc \in Shows
  BY Zenon DEF Review, Reviewing, ReviewLaunch, ReviewWait, ReviewPost, RepairLaunch,
         RepairRecord, RepairWait, RepairValidate, RepairPush, ReviewAgain, At, Shows
<1>1. ASSUME ends PROVE Goes(w)
  BY <1>0, <1>1, ToEnd DEF Stops
<1>2. ASSUME NEW pc \in {"reviewing", "reviewPost", "repairPush"}, Check(w, pc, TRUE)
      PROVE  Goes(w)
  <2>1. pc \in Guarded /\ r.pc \notin Rowless
    BY <1>0 DEF Guarded, Shows, Rowless
  <2>2. QED
    BY <1>0, <1>2, <2>1, ToCheck
<1> HIDE DEF ends
<1>3. CASE Review(w) \/ ReviewAgain(w) \/ ReviewWait(w)
  <2>1. \/ \E pc \in {"reviewing", "reviewPost"} : Check(w, pc, TRUE)
        \/ ends
    BY <1>3, Zenon DEF Review, ReviewAgain, ReviewWait, Stop, Move, ends
  <2>2. QED
    BY <1>1, <1>2, <2>1
<1>4. CASE Reviewing(w)
  <2>1. Saw(w, "reviewLaunch") \/ Goto(w, "orchestratorError")
    BY <1>4 DEF Reviewing, KeepLease
  <2>2. QED
    BY <1>0, <2>1, ToSaw, ToHandler DEF Phases, HasRun
<1>5. CASE ReviewLaunch(w)
  <2>1. Saw(w, "reviewWait")
    BY <1>5 DEF ReviewLaunch
  <2>2. QED
    BY <1>0, <2>1, ToSaw DEF Phases, HasRun
<1>6. CASE ReviewPost(w)
  <2>1. r.pc = "reviewPost"
    BY <1>6, Zenon DEF ReviewPost, At
  <2>2. \/ ends
        \/ r.repairs < MaxRepairs /\ worker' = [worker EXCEPT ![w] = Counting(w)]
    <3>1. [Checking(w, "repairLaunch", TRUE) EXCEPT !.pc = "guard", !.repairs = r.repairs + 1]
            = Counting(w)
      BY StepFacts DEF Checking, Counting, WorkerRow
    <3>2. \/ ends
          \/ /\ r.repairs < MaxRepairs
             /\ worker' = [worker EXCEPT ![w] =
                  [Checking(w, "repairLaunch", TRUE) EXCEPT
                     !.pc = "guard", !.repairs = r.repairs + 1]]
      BY <1>6, Zenon DEF ReviewPost, Stop, Move, ends
    <3>3. QED
      BY <3>1, <3>2, Zenon
  <2>3. QED
    BY <1>1, <2>1, <2>2, Counts
<1>7. CASE RepairLaunch(w)
  <2>1. r.pc = "repairLaunch"
    BY <1>7, Zenon DEF RepairLaunch, At
  <2>2. ends \/ \E c \in Convs : worker' = [worker EXCEPT ![w] = Repairing(w, c)]
    BY <1>7, Zenon DEF RepairLaunch, Stop, Move, Repairing, ends
  <2>3. QED
    BY <1>1, <2>1, <2>2, Repairs
<1>8. CASE RepairRecord(w)
  <2>1. r.pc = "repairRecord" /\ Saw(w, "repairWait")
    BY <1>8 DEF RepairRecord, At
  <2>2. QED
    BY <1>0, <2>1, ToSaw DEF Phases, HasRun
<1>9. CASE RepairWait(w)
  <2>1. r.pc = "repairWait"
    BY <1>9 DEF RepairWait, At
  <2>2. Goto(w, "repairValidate") \/ ends
    BY <1>9 DEF RepairWait, Stop, Move, ends
  <2>3. QED
    BY <1>1, <2>1, <2>2, Onward DEF Phases, Rowless, HasRun, Shows
<1>10. CASE RepairValidate(w) \/ RepairPush(w)
  <2>1. r.pc \in {"repairValidate", "repairPush"}
    BY <1>10, Zenon DEF RepairValidate, RepairPush, At
  <2>2. \/ ends
        \/ Check(w, "repairPush", TRUE)
        \/ worker' = [worker EXCEPT ![w] = Observing(w)]
    BY <1>10, Zenon DEF RepairValidate, RepairPush, Observe, Stop, Move, Observing, ends
  <2>3. QED
    BY <1>1, <1>2, <2>1, <2>2, Observes
<1>11. QED
  BY <1>3, <1>4, <1>5, <1>6, <1>7, <1>8, <1>9, <1>10

LEMMA ErrorsGoes ==
  ASSUME NEW w \in Workers, Stepping(w),
         \/ CallFails(w) \/ OnStale(w) \/ OnProviderError(w) \/ OnOrchestratorError(w)
         \/ OnUnexpectedError(w) \/ Stopping(w) \/ Finish(w)
  PROVE  Goes(w)
<1> DEFINE r == worker[w]
           leaves(to) == worker' = [worker EXCEPT ![w] = Planned(w, "leave", to)]
           over == worker' = [worker EXCEPT ![w] = Planned(w, "finish", Absent)]
<1>1. ASSUME NEW to \in Stops, leaves(to), to = PR_OPEN => job[Mine(w)].pr
      PROVE  Goes(w)
  <2>1. to = PR_OPEN => job'[Mine(w)].pr
    BY <1>1, StepFacts
  <2>2. QED
    BY <1>1, <2>1, ToEnd
<1>2. ASSUME over PROVE Goes(w)
  BY <1>2, StepFacts, Plans DEF Stepping, Stops
<1> HIDE DEF leaves, over
<1>3. CASE CallFails(w)
  <2>1. r.pc \in GitHubCalls \cup WorkspaceCalls \cup ProviderCalls
    BY <1>3, Zenon DEF CallFails
  <2>2. r.pc \notin Rowless
    BY <2>1 DEF GitHubCalls, WorkspaceCalls, ProviderCalls, Rowless
  <2>3. \E pc \in {"orchestratorError", "providerError", "unexpectedError"} : Goto(w, pc)
    BY <1>3, Zenon DEF CallFails
  <2>4. CASE \E pc \in {"providerError", "unexpectedError"} : Goto(w, pc)
    BY <2>2, <2>4, Onward DEF Phases, HasRun, Shows
  <2>5. QED
    BY <2>3, <2>4, ToHandler
<1>4. CASE OnStale(w)
  <2>1. \E to \in {PR_OPEN, NEEDS_GUIDANCE} : leaves(to) /\ (to = PR_OPEN => job[Mine(w)].pr)
    BY <1>4 DEF OnStale, Leave, Move, leaves
  <2>2. QED
    BY <1>1, <2>1 DEF Stops
<1>5. CASE OnProviderError(w)
  <2>1. \E to \in Stops : leaves(to) /\ (to = PR_OPEN => job[Mine(w)].pr)
    BY <1>5 DEF OnProviderError, Leave, Move, leaves, Stops, Published
  <2>2. QED
    BY <1>1, <2>1
<1>6. CASE OnOrchestratorError(w) \/ OnUnexpectedError(w)
  <2>1. over \/ \E to \in Stops : leaves(to) /\ (to = PR_OPEN => job[Mine(w)].pr)
    BY <1>6 DEF OnOrchestratorError, OnUnexpectedError, Leave, Move, leaves, over, Stops, Published
  <2>2. QED
    BY <1>1, <1>2, <2>1
<1>7. CASE Stopping(w)
  <2>1. over \/ Goto(w, "orchestratorError") \/ Goto(w, "finish")
    BY <1>7, Zenon DEF Stopping, over
  <2>2. QED
    BY <1>2, <2>1, ToHandler
<1>8. CASE Finish(w)
  <2>1. worker' = [worker EXCEPT ![w] = Idle]
    BY <1>8 DEF Finish, Move
  <2>2. QED
    BY <2>1, IdleOK DEF Goes
<1>9. QED
  BY <1>3, <1>4, <1>5, <1>6, <1>7, <1>8

LEMMA Awake ==
  ASSUME NEW w \in Workers, Step(w)
  PROVE  worker[w].pc # "idle" /\ (worker[w].pc = "finish" => Finish(w))
<1> DEFINE r == worker[w]
<1>1. CASE \/ Preflight(w) \/ LookupPr(w) \/ Adopt(w) \/ Adopted(w) \/ Health(w) \/ Setup(w)
           \/ Launch(w) \/ SlotLost(w) \/ Begin(w) \/ Wait(w) \/ Record(w) \/ PollFails(w)
           \/ Result(w) \/ Validate(w) \/ Correct(w)
  <2>1. r.pc \in {"preflight", "lookup", "adopt", "adopted", "health", "setup", "launch", "begin",
                  "wait", "record", "result", "validate", "correct", "reviewLaunch",
                  "repairLaunch", "reviewWait", "repairWait"}
    BY <1>1, Zenon DEF Preflight, LookupPr, Adopt, Adopted, Health, Setup, Launch, SlotLost,
       Begin, Wait, Record, PollFails, Result, Validate, Correct, At
  <2>2. QED
    BY <2>1
<1>2. CASE \/ Commit(w) \/ CheckLease(w) \/ Guard(w) \/ Push(w) \/ PullRequestPhase(w)
           \/ CreatePr(w) \/ LabelPr(w) \/ RecordPullRequest(w) \/ Observed(w) \/ OpenPr(w)
           \/ Opened(w)
  <2>1. r.pc \in {"commit", "lease", "guard", "push", "pullRequest", "createPr", "labelPr",
                  "recordPr", "observed", "openPr", "opened"}
    BY <1>2, Zenon DEF Commit, CheckLease, Guard, Push, PullRequestPhase, CreatePr, LabelPr,
       RecordPullRequest, Observed, OpenPr, Opened, At
  <2>2. QED
    BY <2>1
<1>3. CASE \/ Review(w) \/ Reviewing(w) \/ ReviewLaunch(w) \/ ReviewWait(w) \/ ReviewPost(w)
           \/ RepairLaunch(w) \/ RepairRecord(w) \/ RepairWait(w) \/ RepairValidate(w)
           \/ RepairPush(w) \/ ReviewAgain(w)
  <2>1. r.pc \in Shows
    BY <1>3, Zenon DEF Review, Reviewing, ReviewLaunch, ReviewWait, ReviewPost, RepairLaunch,
       RepairRecord, RepairWait, RepairValidate, RepairPush, ReviewAgain, At, Shows
  <2>2. QED
    BY <2>1 DEF Shows
<1>4. CASE \/ CallFails(w) \/ OnStale(w) \/ OnProviderError(w) \/ OnOrchestratorError(w)
           \/ OnUnexpectedError(w) \/ Stopping(w)
  <2>1. r.pc \in GitHubCalls \cup WorkspaceCalls \cup ProviderCalls
                   \cup {"staleError", "providerError", "orchestratorError", "unexpectedError",
                         "stop", "leave"}
    BY <1>4, Zenon DEF CallFails, OnStale, OnProviderError, OnOrchestratorError,
       OnUnexpectedError, Stopping, At
  <2>2. QED
    BY <2>1 DEF GitHubCalls, WorkspaceCalls, ProviderCalls
<1>5. CASE Finish(w)
  BY <1>5 DEF Finish, At
<1>6. QED
  BY <1>1, <1>2, <1>3, <1>4, <1>5, Zenon DEF Step

LEMMA StepGoes ==
  ASSUME NEW w \in Workers, ServiceInv, Step(w)
  PROVE  StoreTypeOK' /\ PrKept /\ Goes(w)
<1>1. StoreTypeOK' /\ PrKept
  BY WorkerStoreStep, StoreStepKeeps DEF ServiceInv
<1>2. Stepping(w)
  BY <1>1, Awake DEF Stepping
<1>3. QED
  BY <1>1, <1>2, ImplementationGoes, PublicationGoes, ReviewGoes, ErrorsGoes, Zenon DEF Step
-----------------------------------------------------------------------------
(* What the steps of workers do around the store.                          *)

LEMMA AroundOK ==
  ASSUME ExternalsOK, NEW w \in Workers, Mine(w) \in Jobs, NEW c \in Convs
  PROVE  /\ Awaits(w, c) \/ NoLongerAwaits(w) =>
              active' \subseteq [owner : Owners, job : Jobs, run : Convs]
         /\ Executes(Mine(w), c) => running' \in [Jobs -> SUBSET Convs]
         /\ Returns(w) => running' \in [Jobs -> SUBSET Convs]
         /\ Committed(Mine(w)) => branch' \in [Jobs -> {"none", "behind", "same"}]
<1>1. Others(w) \subseteq active
  BY DEF Others
<1>2. [owner |-> OwnerOf[w], job |-> Mine(w), run |-> c]
        \in [owner : Owners, job : Jobs, run : Convs]
  BY WorkerAssumption
<1>3. QED
  BY <1>1, <1>2 DEF ExternalsOK, Awaits, NoLongerAwaits, Executes, Returns, Committed

LEMMA StepExternals ==
  ASSUME NEW w \in Workers, ServiceInv, Step(w), UNCHANGED up
  PROVE  ExternalsOK'
<1> DEFINE r == worker[w]
<1>1. ExternalsOK /\ Mine(w) \in Jobs /\ WorkerOK(r) /\ ReviewConv \in Convs
  BY Awake, WorkerAssumption DEF ServiceInv, LocalsOK, WorkerOK, Mine
<1>2. r.pc \in HasRun => r.run \in Convs
  BY <1>1 DEF WorkerOK
<1> HIDE DEF r
<1>3. CASE UNCHANGED External
  BY <1>1, <1>3 DEF External, ExternalsOK
<1>4. CASE Launch(w) \/ RepairLaunch(w)
  <2>1. (\E c \in Convs : Executes(Mine(w), c)) \/ UNCHANGED running
    BY <1>4, Zenon DEF Launch, RepairLaunch
  <2>2. UNCHANGED <<active, GitHub>>
    BY <1>4, Zenon DEF Launch, RepairLaunch
  <2>3. QED
    BY <1>1, <2>1, <2>2, AroundOK DEF ExternalsOK, GitHub
<1>5. CASE Begin(w) \/ RepairRecord(w) \/ ReviewLaunch(w)
  <2>1. (\E c \in Convs : Awaits(w, c)) \/ UNCHANGED active
    <3>1. \/ r.pc \in {"begin", "repairRecord"} /\ (Awaits(w, r.run) \/ UNCHANGED active)
          \/ Awaits(w, ReviewConv)
      BY <1>5 DEF Begin, RepairRecord, ReviewLaunch, At, r
    <3>2. QED
      BY <1>1, <1>2, <3>1 DEF HasRun
  <2>2. UNCHANGED <<running, GitHub>>
    BY <1>5 DEF Begin, RepairRecord, ReviewLaunch
  <2>3. QED
    BY <1>1, <2>1, <2>2, AroundOK DEF ExternalsOK, GitHub
<1>6. CASE Wait(w) \/ RepairWait(w)
  <2>1. Returns(w)
    BY <1>6 DEF Wait, RepairWait
  <2>2. UNCHANGED GitHub /\ NoLongerAwaits(w)
    BY <2>1 DEF Returns
  <2>3. QED
    BY <1>1, <2>1, <2>2, AroundOK DEF ExternalsOK, GitHub
<1>7. CASE PollFails(w) \/ ReviewWait(w)
  <2>1. NoLongerAwaits(w) /\ UNCHANGED <<running, GitHub>>
    BY <1>7 DEF PollFails, ReviewWait
  <2>2. QED
    BY <1>1, <2>1, AroundOK DEF ExternalsOK, GitHub
<1>8. CASE Correct(w)
  <2>1. r.pc = "correct" /\ Executes(Mine(w), r.run) /\ Awaits(w, r.run) /\ UNCHANGED GitHub
    BY <1>8 DEF Correct, At, r
  <2>2. r.run \in Convs
    BY <1>2, <2>1 DEF HasRun
  <2>3. QED
    BY <1>1, <2>1, <2>2, AroundOK DEF ExternalsOK, GitHub
<1>9. CASE Commit(w) \/ RepairValidate(w)
  <2>1. (Committed(Mine(w)) \/ UNCHANGED branch) /\ UNCHANGED <<active, running, issue, pull>>
    BY <1>9, Zenon DEF Commit, RepairValidate
  <2>2. QED
    BY <1>1, <2>1, AroundOK DEF ExternalsOK
<1>10. CASE Push(w) \/ RepairPush(w) \/ CreatePr(w)
  BY <1>1, <1>10 DEF Push, RepairPush, CreatePr, ExternalsOK
<1>11. CASE \/ Preflight(w) \/ LookupPr(w) \/ Adopt(w) \/ Adopted(w) \/ Health(w) \/ Setup(w)
            \/ SlotLost(w) \/ Record(w) \/ Result(w) \/ Validate(w)
            \/ CheckLease(w) \/ Guard(w) \/ PullRequestPhase(w) \/ LabelPr(w)
            \/ RecordPullRequest(w) \/ Observed(w) \/ OpenPr(w) \/ Opened(w)
            \/ Review(w) \/ Reviewing(w) \/ ReviewPost(w) \/ ReviewAgain(w)
            \/ CallFails(w) \/ OnStale(w) \/ OnProviderError(w) \/ OnOrchestratorError(w)
            \/ OnUnexpectedError(w) \/ Stopping(w) \/ Finish(w)
  <2>1. UNCHANGED External
    BY <1>11, Zenon DEF Preflight, LookupPr, Adopt, Adopted, Health, Setup, SlotLost, Record,
       Result, Validate, CheckLease, Guard, PullRequestPhase, LabelPr, RecordPullRequest,
       Observed, OpenPr, Opened, KeepLease, Review, Reviewing, ReviewPost, ReviewAgain,
       CallFails, OnStale, OnProviderError, OnOrchestratorError, OnUnexpectedError, Stopping,
       Finish
  <2>2. QED
    BY <1>3, <2>1
<1>12. QED
  BY <1>4, <1>5, <1>6, <1>7, <1>8, <1>9, <1>10, <1>11, Zenon DEF Step

LEMMA OthersKnow ==
  ASSUME ServiceInv, PrKept
  PROVE  /\ \A v \in Workers : WorkerShows(worker[v]) => job'[worker[v].job].pr
         /\ \A t \in Threads : ThreadShows(thread[t]) => job'[thread[t].job].pr
<1>1. ASSUME NEW v \in Workers, WorkerShows(worker[v]) PROVE job'[worker[v].job].pr
  <2>1. worker[v].job \in Jobs
    BY <1>1 DEF ServiceInv, LocalsOK, WorkerOK, WorkerShows, Shows
  <2>2. QED
    BY <1>1, <2>1 DEF ServiceInv, PrKnown, PrKept, HasPr
<1>2. ASSUME NEW t \in Threads, ThreadShows(thread[t]) PROVE job'[thread[t].job].pr
  <2>1. thread[t].job \in Jobs
    BY <1>2 DEF ServiceInv, LocalsOK, ThreadOK, ThreadShows, HasRead
  <2>2. QED
    BY <1>2, <2>1 DEF ServiceInv, PrKnown, PrKept, HasPr
<1>3. QED
  BY <1>1, <1>2

LEMMA GoesKeeps ==
  ASSUME NEW w \in Workers, ServiceInv, PrKept, Goes(w), UNCHANGED thread
  PROVE  LocalsOK' /\ PrKnown'
<1>1. PICK n : /\ worker' = [worker EXCEPT ![w] = n]
               /\ WorkerOK(n)
               /\ WorkerShows(n) => job'[n.job].pr
  BY DEF Goes
<1>2. worker \in [Workers -> WorkerRow] /\ n \in WorkerRow
  BY <1>1 DEF ServiceInv, LocalsOK, WorkerOK
<1>3. \A v \in Workers : worker'[v] = IF v = w THEN n ELSE worker[v]
  BY <1>1, <1>2
<1>4. worker' \in [Workers -> WorkerRow]
  BY <1>1, <1>2
<1>5. \A v \in Workers : WorkerOK(worker'[v])
  BY <1>1, <1>3 DEF ServiceInv, LocalsOK
<1>6. \A v \in Workers : WorkerShows(worker'[v]) => job'[worker'[v].job].pr
  BY <1>1, <1>3, OthersKnow
<1>7. LocalsOK'
  BY <1>4, <1>5 DEF ServiceInv, LocalsOK
<1>8. PrKnown'
  BY <1>6, OthersKnow DEF PrKnown, HasPr
<1>9. QED
  BY <1>7, <1>8

\* Recovered rows, live leases and what is shown: what a step has to establish.
Kept == StoreTypeOK' /\ PrKept

LEMMA ServiceKept ==
  ASSUME Kept, ExternalsOK', LocalsOK', PrKnown'
  PROVE  ServiceInv'
  BY DEF Kept, PrKept, ServiceInv

LEMMA QuietKept == ASSUME ServiceInv, UNCHANGED storeVars PROVE Kept
  BY StoreStepKeeps DEF ServiceInv, Kept, StoreStep

LEMMA RunKeeps ==
  ASSUME NEW w \in Workers, ServiceInv, Run(w)
  PROVE  ServiceInv'
<1>1. Step(w) /\ UNCHANGED <<thread, up>>
  BY DEF Run
<1>2. Kept /\ Goes(w)
  BY <1>1, StepGoes DEF Kept
<1>3. LocalsOK' /\ PrKnown'
  BY <1>1, <1>2, GoesKeeps DEF Kept
<1>4. QED
  BY <1>1, <1>2, <1>3, StepExternals, ServiceKept

LEMMA TickKeeps ==
  ASSUME NEW w \in Workers, NEW j \in Jobs, ServiceInv, Tick(w, j)
  PROVE  StoreStep /\ ServiceInv'
<1> DEFINE seen == Returned(j)
           n == [Idle EXCEPT !.pc = "preflight", !.job = j, !.seen = seen, !.beat = "on"]
<1>1. /\ ClaimNext(j, OwnerOf[w]) /\ worker' = [worker EXCEPT ![w] = n]
      /\ UNCHANGED External /\ UNCHANGED <<thread, up>>
  BY DEF Tick, Claim
<1>2. StoreStep
  BY <1>1, WorkerAssumption DEF StoreStep, QuietCall
<1>3. Kept
  BY <1>2, StoreStepKeeps DEF ServiceInv, Kept
<1>4. seen \in RowView
  BY <1>3, ReturnedType DEF Kept
<1> HIDE DEF seen
<1>5. n \in WorkerRow /\ n.pc = "preflight" /\ n.job = j /\ n.seen = seen
  <2>1. Idle \in WorkerRow /\ "preflight" \in Phases
    BY IdleOK DEF WorkerOK, Phases
  <2>2. QED
    BY <1>4, <2>1 DEF WorkerRow
<1> HIDE DEF n
<1>6. WorkerOK(n) /\ ~WorkerShows(n)
  BY <1>4, <1>5 DEF WorkerOK, WorkerShows, Shows, HasRun
<1>7. LocalsOK' /\ PrKnown'
  BY <1>1, <1>3, <1>6, GoesKeeps DEF Goes, Kept
<1>8. ExternalsOK'
  BY <1>1 DEF ServiceInv, ExternalsOK, External
<1>9. QED
  BY <1>2, <1>3, <1>7, <1>8, ServiceKept

LEMMA BeatKeeps ==
  ASSUME NEW w \in Workers, ServiceInv, Beat(w)
  PROVE  StoreStep /\ ServiceInv'
<1> DEFINE r == worker[w]
<1>1. PICK beat \in {"off", "flagged"} : Move(w, [r EXCEPT !.beat = beat])
  BY DEF Beat, HeartbeatLost, HeartbeatFlags
<1> DEFINE n == [r EXCEPT !.beat = beat]
<1>2. UNCHANGED storeVars /\ worker' = [worker EXCEPT ![w] = n]
  BY <1>1 DEF Move
<1>3. CancelRun(OwnerOf[w], Mine(w), job[Mine(w)]) /\ UNCHANGED <<active, GitHub, thread, up>>
  BY DEF Beat, HeartbeatLost, HeartbeatFlags
<1>4. Kept
  BY <1>2, QuietKept
<1>5. WorkerOK(r) /\ (WorkerShows(r) => job'[r.job].pr)
  BY <1>4, OthersKnow DEF ServiceInv, LocalsOK, Kept
<1> HIDE DEF r
<1>6. n \in WorkerRow /\ n.pc = r.pc /\ n.job = r.job
        /\ n.seen = r.seen /\ n.run = r.run /\ n.to = r.to /\ n.then = r.then
  BY <1>5 DEF WorkerOK, WorkerRow
<1> HIDE DEF n
<1>7. WorkerOK(n) /\ (WorkerShows(n) => job'[n.job].pr)
  BY <1>5, <1>6 DEF WorkerOK, WorkerShows
<1>8. LocalsOK' /\ PrKnown'
  BY <1>2, <1>3, <1>4, <1>7, GoesKeeps DEF Goes, Kept
<1>9. ExternalsOK'
  <2>1. \/ \E target : running' = [running EXCEPT ![Mine(w)] = @ \ {target}]
        \/ UNCHANGED running
    BY <1>3, Zenon DEF CancelRun
  <2>2. running' \in [Jobs -> SUBSET Convs]
    BY <2>1 DEF ServiceInv, ExternalsOK
  <2>3. QED
    BY <1>3, <2>2 DEF ServiceInv, ExternalsOK, GitHub
<1>10. QED
  BY <1>2, <1>4, <1>8, <1>9, ServiceKept DEF StoreStep

LEMMA CrashKeeps ==
  ASSUME NEW o \in Owners, ServiceInv, Crash(o)
  PROVE  StoreStep /\ ServiceInv'
<1>1. Kept /\ StoreStep
  BY QuietKept DEF Crash, StoreStep
<1>2. ExternalsOK'
  BY DEF Crash, ServiceInv, ExternalsOK, GitHub
<1>3. /\ worker' \in [Workers -> WorkerRow]
      /\ \A w \in Workers : worker'[w] = Idle \/ worker'[w] = worker[w]
  <2>1. Idle \in WorkerRow
    BY IdleOK DEF WorkerOK
  <2>2. QED
    BY <2>1 DEF Crash, ServiceInv, LocalsOK
<1> DEFINE dead == [Resting EXCEPT !.pc = "dead"]
<1>4. dead \in ThreadRow /\ ThreadOK(dead) /\ ~ThreadShows(dead)
  BY DEF ThreadRow, ThreadOK, ThreadShows, Resting, Operations, HasLive, HasRead
<1>5. /\ thread' \in [Threads -> ThreadRow]
      /\ \A t \in Threads : thread'[t] = dead \/ thread'[t] = thread[t]
  BY <1>4 DEF Crash, ServiceInv, LocalsOK
<1> HIDE DEF dead
<1>6. LocalsOK'
  <2>1. \A w \in Workers : WorkerOK(worker'[w])
    BY <1>3, IdleOK DEF ServiceInv, LocalsOK
  <2>2. \A t \in Threads : ThreadOK(thread'[t])
    BY <1>4, <1>5 DEF ServiceInv, LocalsOK
  <2>3. QED
    BY <1>3, <1>5, <2>1, <2>2 DEF LocalsOK
<1>7. PrKnown'
  <2>1. \A w \in Workers : WorkerShows(worker'[w]) => job'[worker'[w].job].pr
    BY <1>1, <1>3, IdleOK, OthersKnow DEF Kept
  <2>2. \A t \in Threads : ThreadShows(thread'[t]) => job'[thread'[t].job].pr
    BY <1>1, <1>4, <1>5, OthersKnow DEF Kept
  <2>3. QED
    BY <2>1, <2>2 DEF PrKnown, HasPr
<1>8. QED
  BY <1>1, <1>2, <1>6, <1>7, ServiceKept
-----------------------------------------------------------------------------
(* The control-plane threads.                                              *)

LEMMA ThreadFacts ==
  ASSUME ServiceInv, NEW t \in Threads
  PROVE  /\ ThreadOK(thread[t]) /\ thread \in [Threads -> ThreadRow]
         /\ Its(t) = thread[t].job
         /\ thread[t].pc \notin {"idle", "dead"} => Its(t) \in Jobs
         /\ ThreadShows(thread[t]) => job[Its(t)].pr
  BY DEF ServiceInv, LocalsOK, ThreadOK, PrKnown, HasPr, Its

LEMMA TriesStep ==
  ASSUME NEW t \in Threads, Its(t) \in Jobs,
         NEW to \in {NEEDS_GUIDANCE, PR_OPEN, DONE}, to = PR_OPEN => job[Its(t)].pr,
         Tries(t, to)
  PROVE  StoreStep
<1>1. <<to, TRUE>> \in TransitionCalls
  BY DEF TransitionCalls
<1>2. Transition(Its(t), to, TRUE) => Moves(Its(t))
  BY <1>1 DEF Moves, HasPr
<1>3. QED
  BY <1>2 DEF Tries, StoreStep

LEMMA ControlStoreStep ==
  ASSUME ServiceInv, NEW t \in Threads, Continue(t)
  PROVE  StoreStep
<1> DEFINE r == thread[t]
           j == Its(t)
<1>1. /\ r.pc \notin {"idle", "dead"} => j \in Jobs
      /\ r.pc = "request" => r.cmd \in Commands
      /\ r.pc \in HasLive => r.live.route \in Routes /\ r.live.content \in Contents
  BY ThreadFacts DEF ThreadOK, Issue
<1>2. ThreadShows(r) => job[j].pr
  BY ThreadFacts
<1> HIDE DEF r, j
<1>3. CASE \/ CancelExpired(t) \/ SetLabels(t) \/ Interrupt(t) \/ Revalidate(t) \/ ReadIssue(t)
           \/ Decide(t) \/ Skip(t) \/ LookUp(t)
  BY <1>3, Zenon DEF CancelExpired, SetLabels, Interrupt, Revalidate, ReadIssue, Decide, Skip,
     LookUp, StoreStep
<1>4. CASE GiveUp(t)
  <2>1. r.pc = "giveUp"
    BY <1>4 DEF GiveUp, In, r
  <2>2. \E to \in {NEEDS_GUIDANCE, PR_OPEN} : Tries(t, to) /\ (to = PR_OPEN => r.row.pr)
    BY <1>4 DEF GiveUp, r
  <2>3. r.row.pr => job[j].pr
    BY <1>2, <2>1 DEF ThreadShows, HasRead
  <2>4. QED
    BY <1>1, <2>1, <2>2, <2>3, TriesStep DEF j
<1>5. CASE Reap(t) \/ RequeueReview(t)
  <2>1. r.pc \in {"reap", "requeue"}
    BY <1>5 DEF Reap, RequeueReview, In, r
  <2>2. ReapExpired(j) \/ RequestRequeue(j) \/ UNCHANGED storeVars
    BY <1>5 DEF Reap, RequeueReview, j
  <2>3. RequestRequeue(j) => RequestControl(j, "retry")
    BY DEF RequestControl
  <2>4. "retry" \in Commands
    BY DEF Commands
  <2>5. QED
    BY <1>1, <2>1, <2>2, <2>3, <2>4 DEF StoreStep, QuietCall, OperatorCall
<1>6. CASE CloseMerged(t) \/ NeedsGuidance(t)
  <2>1. r.pc \in {"merged", "orphan"}
    BY <1>6 DEF CloseMerged, NeedsGuidance, In, r
  <2>2. Tries(t, DONE) \/ Tries(t, NEEDS_GUIDANCE)
    BY <1>6 DEF CloseMerged, NeedsGuidance
  <2>3. QED
    BY <1>1, <2>1, <2>2, TriesStep DEF j
<1>7. CASE AdoptOpen(t)
  <2>1. r.pc = "adoptOpen" /\ Tries(t, PR_OPEN)
    BY <1>7 DEF AdoptOpen, In, r
  <2>2. job[j].pr
    BY <1>2, <2>1 DEF ThreadShows
  <2>3. QED
    BY <1>1, <2>1, <2>2, TriesStep DEF j
<1>8. CASE Request(t)
  <2>1. r.pc = "request" /\ (RequestControl(j, r.cmd) \/ UNCHANGED storeVars)
    BY <1>8 DEF Request, In, r, j
  <2>2. QED
    BY <1>1, <2>1 DEF StoreStep, QuietCall, OperatorCall
<1>9. CASE Halt(t)
  <2>1. r.pc = "halt" /\ (RequestControl(j, "pause") \/ RequestControl(j, "cancel"))
    BY <1>9 DEF Halt, In, r, j
  <2>2. "pause" \in Commands /\ "cancel" \in Commands
    BY DEF Commands
  <2>3. QED
    BY <1>1, <2>1, <2>2 DEF StoreStep, QuietCall, OperatorCall
<1>10. CASE Refuse(t)
  <2>1. r.pc = "refuse" /\ (Transition(j, NEEDS_GUIDANCE, TRUE) \/ UNCHANGED storeVars)
    BY <1>10 DEF Refuse, In, r, j
  <2>2. <<NEEDS_GUIDANCE, TRUE>> \in TransitionCalls
    BY DEF TransitionCalls
  <2>3. Transition(j, NEEDS_GUIDANCE, TRUE) => Moves(j)
    BY <2>2 DEF Moves
  <2>4. QED
    BY <1>1, <2>1, <2>3 DEF StoreStep
<1>11. CASE Accept(t) \/ Reroute(t) \/ Update(t) \/ Create(t) \/ AdoptPr(t)
  <2>1. r.pc \in {"accept", "reroute", "update", "create", "adoptPr"}
    BY <1>11 DEF Accept, Reroute, Update, Create, AdoptPr, In, r
  <2>2. \/ UNCHANGED storeVars
        \/ RecordPr(j)
        \/ /\ r.pc \in HasLive
           /\ \/ AcceptSnapshot(j, r.live.content)
              \/ RecordRouting(j, r.live.route)
              \/ UpdateSnapshotIfUnclaimed(j, r.live.route, r.live.content)
              \/ EnsureJob(j, r.live.route, r.live.content)
    BY <1>11 DEF Accept, Reroute, Update, Create, AdoptPr, In, HasLive, r, j
  <2>3. QED
    BY <1>1, <2>1, <2>2 DEF StoreStep, QuietCall, OperatorCall
<1>12. QED
  BY <1>3, <1>4, <1>5, <1>6, <1>7, <1>8, <1>9, <1>10, <1>11, Zenon DEF Continue

\* A step that leaves a thread with good values.
ThreadGoes(t) ==
  \E n : /\ thread' = [thread EXCEPT ![t] = n]
         /\ ThreadOK(n)
         /\ ThreadShows(n) => job'[n.job].pr

LEMMA Rests ==
  ASSUME NEW t \in Threads, Done(t) \/ Raises(t)
  PROVE  ThreadGoes(t)
<1> DEFINE dead == [Resting EXCEPT !.pc = "dead"]
<1>1. ThreadOK(dead) /\ ~ThreadShows(dead)
  BY DEF ThreadRow, ThreadOK, ThreadShows, Resting, Operations, HasLive, HasRead
<1>2. ThreadOK(Resting) /\ ~ThreadShows(Resting)
  BY DEF ThreadRow, ThreadOK, ThreadShows, Resting, Operations, HasLive, HasRead
<1>3. \/ thread' = [thread EXCEPT ![t] = Resting]
      \/ thread' = [thread EXCEPT ![t] = dead]
  BY DEF Done, Raises
<1>4. QED
  BY <1>1, <1>2, <1>3 DEF ThreadGoes

\* A new operation.
LEMMA Opens ==
  ASSUME NEW t \in Threads, NEW n \in ThreadRow, n.job \in Jobs,
         n.pc = "request" => n.cmd \in Commands,
         n.pc \in HasLive => n.live \in Issue,
         n.pc \in HasRead => n.row \in ReadView,
         ThreadShows(n) => job'[n.job].pr,
         thread' = [thread EXCEPT ![t] = n]
  PROVE  ThreadGoes(t)
  BY DEF ThreadGoes, ThreadOK

\* The next phase of an operation.
LEMMA Continues ==
  ASSUME NEW t \in Threads, ServiceInv, PrKept, thread[t].pc \notin {"idle", "dead"},
         NEW pc \in Operations \ {"idle", "request"},
         pc \in HasLive => thread[t].pc \in HasLive,
         pc \in HasRead => thread[t].pc \in HasRead,
         pc = "adoptOpen" => job'[Its(t)].pr,
         thread' = [thread EXCEPT ![t].pc = pc]
  PROVE  ThreadGoes(t)
<1> DEFINE r == thread[t]
           n == [r EXCEPT !.pc = pc]
<1>1. ThreadOK(r) /\ r.job = Its(t) /\ Its(t) \in Jobs
  BY ThreadFacts
<1>2. ThreadShows(r) => job'[Its(t)].pr
  BY <1>1, OthersKnow
<1>3. thread' = [thread EXCEPT ![t] = n]
  OBVIOUS
<1> HIDE DEF r
<1>4. n \in ThreadRow /\ n.pc = pc /\ n.job = r.job /\ n.live = r.live /\ n.row = r.row
  BY <1>1 DEF ThreadOK, ThreadRow
<1> HIDE DEF n
<1>5. ThreadShows(n) => job'[Its(t)].pr
  BY <1>2, <1>4 DEF ThreadShows, r
<1>6. QED
  BY <1>1, <1>3, <1>4, <1>5, Opens DEF ThreadOK, r

LEMMA ReadType ==
  ASSUME StoreTypeOK, NEW j \in Jobs
  PROVE  Read(j) \in ReadView /\ Read(j).pr = job[j].pr
<1>1. job[j] \in JobRow
  BY DEF StoreTypeOK
<1>2. QED
  BY <1>1 DEF Read, ReadView, JobRow

\* The steps that read or plan something on the way.
Reading(t, pc) == [thread[t] EXCEPT !.pc = pc, !.live = issue[Its(t)]]
Deciding(t, pc) == [thread[t] EXCEPT !.pc = pc, !.row = Read(Its(t))]
Planning(t, pc, then) == [thread[t] EXCEPT !.pc = pc, !.then = then]

LEMMA Reads ==
  ASSUME NEW t \in Threads, ServiceInv, thread[t].pc \notin {"idle", "dead"},
         NEW pc \in {"accept", "refuse", "decide"},
         thread' = [thread EXCEPT ![t] = Reading(t, pc)]
  PROVE  ThreadGoes(t)
<1> DEFINE r == thread[t]
           live == issue[Its(t)]
           n == [r EXCEPT !.pc = pc, !.live = live]
<1>1. r \in ThreadRow /\ r.job = Its(t) /\ Its(t) \in Jobs
  BY ThreadFacts DEF ThreadOK
<1>2. live \in Issue
  BY <1>1 DEF ServiceInv, ExternalsOK
<1>3. thread' = [thread EXCEPT ![t] = n]
  BY DEF Reading
<1>4. pc \in Operations /\ pc \notin HasRead /\ pc # "request" /\ pc # "adoptOpen"
  BY DEF Operations, HasRead
<1> HIDE DEF r, live
<1>5. n \in ThreadRow /\ n.pc = pc /\ n.job = r.job /\ n.live = live
  BY <1>1, <1>2, <1>4 DEF ThreadRow
<1> HIDE DEF n
<1>6. /\ n \in ThreadRow /\ n.job \in Jobs /\ n.live \in Issue
      /\ n.pc # "request" /\ n.pc \notin HasRead /\ ~ThreadShows(n)
  BY <1>1, <1>2, <1>4, <1>5 DEF ThreadShows
<1>7. QED
  BY <1>3, <1>6, Opens, Zenon

LEMMA Decides ==
  ASSUME NEW t \in Threads, ServiceInv, thread[t].pc = "decide",
         NEW pc \in {"lookUp", "skip", "update", "halt"},
         thread' = [thread EXCEPT ![t] = Deciding(t, pc)]
  PROVE  ThreadGoes(t)
<1> DEFINE r == thread[t]
           row == Read(Its(t))
           n == [r EXCEPT !.pc = pc, !.row = row]
<1>1. r \in ThreadRow /\ r.job = Its(t) /\ Its(t) \in Jobs /\ r.live \in Issue
  BY ThreadFacts DEF ThreadOK, HasLive
<1>2. row \in ReadView
  BY <1>1, ReadType DEF ServiceInv
<1>3. thread' = [thread EXCEPT ![t] = n]
  BY DEF Deciding
<1>4. pc \in Operations /\ pc \notin HasRead /\ pc # "request" /\ pc # "adoptOpen"
  BY DEF Operations, HasRead
<1> HIDE DEF r, row
<1>5. n \in ThreadRow /\ n.pc = pc /\ n.job = r.job /\ n.live = r.live
  BY <1>1, <1>2, <1>4 DEF ThreadRow
<1> HIDE DEF n
<1>6. /\ n \in ThreadRow /\ n.job \in Jobs /\ n.live \in Issue
      /\ n.pc # "request" /\ n.pc \notin HasRead /\ ~ThreadShows(n)
  BY <1>1, <1>4, <1>5 DEF ThreadShows
<1>7. QED
  BY <1>3, <1>6, Opens, Zenon

LEMMA PlansNext ==
  ASSUME NEW t \in Threads, ServiceInv, thread[t].pc \notin {"idle", "dead"},
         NEW pc \in {"labels", "create"}, pc = "create" => thread[t].live \in Issue,
         NEW then \in {"idle", "intake", "interrupt", "revalidate", "adoptPr", "orphan"},
         thread' = [thread EXCEPT ![t] = Planning(t, pc, then)]
  PROVE  ThreadGoes(t)
<1> DEFINE r == thread[t]
           n == [r EXCEPT !.pc = pc, !.then = then]
<1>1. r \in ThreadRow /\ r.job = Its(t) /\ Its(t) \in Jobs
  BY ThreadFacts DEF ThreadOK
<1>2. thread' = [thread EXCEPT ![t] = n]
  BY DEF Planning
<1>3. /\ pc \in Operations /\ pc \notin HasRead /\ pc # "request" /\ pc # "adoptOpen"
      /\ pc \in HasLive => r.live \in Issue
  BY DEF Operations, HasRead, HasLive
<1> HIDE DEF r
<1>4. n \in ThreadRow /\ n.pc = pc /\ n.job = r.job /\ n.live = r.live
  BY <1>1, <1>3 DEF ThreadRow
<1> HIDE DEF n
<1>5. /\ n \in ThreadRow /\ n.job \in Jobs /\ (n.pc \in HasLive => n.live \in Issue)
      /\ n.pc # "request" /\ n.pc \notin HasRead /\ ~ThreadShows(n)
  BY <1>1, <1>3, <1>4 DEF ThreadShows
<1>6. QED
  BY <1>2, <1>5, Opens, Zenon

LEMMA ControlGoes ==
  ASSUME ServiceInv, PrKept, NEW t \in Threads, Continue(t)
  PROVE  ThreadGoes(t)
<1> DEFINE r == thread[t]
           goes(pc) == thread' = [thread EXCEPT ![t].pc = pc]
           rests == Done(t) \/ Raises(t)
<1>1. ASSUME rests PROVE ThreadGoes(t)
  BY <1>1, Rests
<1>2. /\ r.then \in {"idle", "intake", "interrupt", "revalidate", "adoptPr", "orphan"}
      /\ thread \in [Threads -> ThreadRow]
  BY ThreadFacts DEF ThreadOK, ThreadRow
<1>3. ASSUME NEW pc \in Operations, Then(t, pc) PROVE rests \/ (goes(pc) /\ pc # "idle")
  BY <1>3 DEF Then
<1>4. ASSUME NEW pc \in {"reap", "giveUp"}, r.pc = "recover", goes(pc) PROVE ThreadGoes(t)
  BY <1>4, Continues DEF Operations, HasLive, HasRead
<1>5. ASSUME NEW pc \in {"intake", "interrupt", "revalidate", "adoptPr", "orphan", "requeue"},
             r.pc \notin {"idle", "dead"}, goes(pc)
      PROVE  ThreadGoes(t)
  BY <1>5, Continues DEF Operations, HasLive, HasRead
<1> HIDE DEF goes, rests
<1>6. CASE CancelExpired(t)
  <2>1. r.pc = "recover"
    BY <1>6, Zenon DEF CancelExpired, In
  <2>2. \E pc \in {"reap", "giveUp"} : Then(t, pc)
    BY <1>6, Zenon DEF CancelExpired
  <2>3. QED
    BY <1>1, <1>3, <1>4, <2>1, <2>2 DEF Operations
<1>7. CASE GiveUp(t) \/ CloseMerged(t) \/ AdoptOpen(t) \/ NeedsGuidance(t)
  <2>1. \E to : Tries(t, to)
    BY <1>7, Zenon DEF GiveUp, CloseMerged, AdoptOpen, NeedsGuidance
  <2>2. QED
    BY <1>1, <2>1 DEF Tries, rests
<1>8. CASE Reap(t)
  <2>1. r.pc = "reap" /\ (Then(t, "requeue") \/ Done(t))
    BY <1>8, Zenon DEF Reap, In
  <2>2. QED
    BY <1>1, <1>3, <1>5, <2>1 DEF Operations, rests
<1>9. CASE RequeueReview(t) \/ Interrupt(t) \/ Refuse(t) \/ Reroute(t) \/ Skip(t) \/ Update(t)
  <2>1. Done(t)
    BY <1>9, Zenon DEF RequeueReview, Interrupt, Refuse, Reroute, Skip, Update
  <2>2. QED
    BY <1>1, <2>1 DEF rests
<1>10. CASE Request(t)
  <2>1. r.pc = "request"
    BY <1>10 DEF Request, In
  <2>2. \E then \in {"idle", "intake", "interrupt", "revalidate"} :
          thread' = [thread EXCEPT ![t] = Planning(t, "labels", then)]
    BY <1>2, <1>10 DEF Request, Planning
  <2>3. QED
    BY <2>1, <2>2, PlansNext
<1>11. CASE SetLabels(t)
  <2>1. r.pc = "labels" /\ (Then(t, r.then) \/ Done(t))
    BY <1>11, Zenon DEF SetLabels, In
  <2>2. r.then \in Operations
    BY <1>2 DEF Operations
  <2>3. QED
    BY <1>1, <1>2, <1>3, <1>5, <2>1, <2>2 DEF rests
<1>12. CASE Revalidate(t) \/ ReadIssue(t)
  <2>1. r.pc \in {"revalidate", "intake"}
    BY <1>12 DEF Revalidate, ReadIssue, In
  <2>2. \E pc \in {"accept", "refuse", "decide"} :
          thread' = [thread EXCEPT ![t] = Reading(t, pc)]
    BY <1>2, <1>12 DEF Revalidate, ReadIssue, Reading
  <2>3. QED
    BY <2>1, <2>2, Reads
<1>13. CASE Decide(t)
  <2>1. r.pc = "decide"
    BY <1>13 DEF Decide, In
  <2>2. \E pc \in {"lookUp", "skip", "update", "halt"} :
          thread' = [thread EXCEPT ![t] = Deciding(t, pc)]
    <3>1. Decision(job[Its(t)], r.live) \in {"lookUp", "skip", "update", "halt"}
      BY DEF Decision
    <3>2. thread' = [thread EXCEPT ![t] = Deciding(t, Decision(job[Its(t)], r.live))]
      BY <1>2, <1>13 DEF Decide, Deciding
    <3>3. QED
      BY <3>1, <3>2, Zenon
  <2>3. QED
    BY <2>1, <2>2, Decides
<1>14. CASE Accept(t)
  <2>1. r.pc = "accept" /\ (Then(t, "reroute") \/ Done(t))
    BY <1>14 DEF Accept, In
  <2>2. CASE goes("reroute")
    BY <2>1, <2>2, Continues DEF goes, Operations, HasLive, HasRead
  <2>3. QED
    BY <1>1, <1>3, <2>1, <2>2 DEF Operations, rests
<1>15. CASE Halt(t)
  <2>1. r.pc = "halt" /\ Then(t, "interrupt")
    BY <1>15 DEF Halt, In
  <2>2. QED
    BY <1>1, <1>3, <1>5, <2>1 DEF Operations
<1>16. CASE LookUp(t)
  <2>1. r.pc = "lookUp" /\ r.live \in Issue
    BY <1>16, ThreadFacts DEF LookUp, In, ThreadOK, HasLive
  <2>2. \E then \in {"adoptPr", "orphan", "idle"} :
          thread' = [thread EXCEPT ![t] = Planning(t, "create", then)]
    BY <1>2, <1>16 DEF LookUp, Planning
  <2>3. QED
    BY <2>1, <2>2, PlansNext
<1>17. CASE Create(t)
  <2>1. r.pc = "create" /\ (Then(t, r.then) \/ Then(t, "orphan"))
    BY <1>17, Zenon DEF Create, In
  <2>2. r.then \in Operations /\ "orphan" \in Operations
    BY <1>2 DEF Operations
  <2>3. QED
    BY <1>1, <1>2, <1>3, <1>5, <2>1, <2>2
<1>18. CASE AdoptPr(t)
  <2>1. r.pc = "adoptPr" /\ RecordPr(Its(t)) /\ Then(t, "adoptOpen")
    BY <1>18 DEF AdoptPr, In
  <2>2. job'[Its(t)].pr
    BY <2>1, ThreadFacts, PrRecorded DEF ServiceInv
  <2>3. CASE goes("adoptOpen")
    BY <2>1, <2>2, <2>3, Continues DEF goes, Operations, HasLive, HasRead
  <2>4. QED
    BY <1>1, <1>3, <2>1, <2>3 DEF Operations
<1>19. QED
  BY <1>6, <1>7, <1>8, <1>9, <1>10, <1>11, <1>12, <1>13, <1>14, <1>15, <1>16, <1>17, <1>18, Zenon
     DEF Continue

LEMMA ThreadGoesKeeps ==
  ASSUME NEW t \in Threads, ServiceInv, PrKept, ThreadGoes(t), UNCHANGED worker
  PROVE  LocalsOK' /\ PrKnown'
<1>1. PICK n : /\ thread' = [thread EXCEPT ![t] = n]
               /\ ThreadOK(n)
               /\ ThreadShows(n) => job'[n.job].pr
  BY DEF ThreadGoes
<1>2. thread \in [Threads -> ThreadRow] /\ n \in ThreadRow
  BY <1>1 DEF ServiceInv, LocalsOK, ThreadOK
<1>3. \A u \in Threads : thread'[u] = IF u = t THEN n ELSE thread[u]
  BY <1>1, <1>2
<1>4. thread' \in [Threads -> ThreadRow]
  BY <1>1, <1>2
<1>5. \A u \in Threads : ThreadOK(thread'[u])
  BY <1>1, <1>3 DEF ServiceInv, LocalsOK
<1>6. \A u \in Threads : ThreadShows(thread'[u]) => job'[thread'[u].job].pr
  BY <1>1, <1>3, OthersKnow
<1>7. LocalsOK'
  BY <1>4, <1>5 DEF ServiceInv, LocalsOK
<1>8. PrKnown'
  BY <1>6, OthersKnow DEF PrKnown, HasPr
<1>9. QED
  BY <1>7, <1>8

LEMMA ControlExternals ==
  ASSUME ServiceInv, NEW t \in Threads, Continue(t), UNCHANGED up
  PROVE  UNCHANGED worker /\ ExternalsOK'
<1> DEFINE j == Its(t)
<1>1. ExternalsOK
  BY DEF ServiceInv
<1>2. CASE CancelExpired(t) \/ Interrupt(t)
  <2>1. \/ \E target : running' = [running EXCEPT ![j] = @ \ {target}]
        \/ UNCHANGED running
    BY <1>2, Zenon DEF CancelExpired, Interrupt, CancelRun
  <2>2. UNCHANGED <<worker, active, GitHub>>
    BY <1>2, Zenon DEF CancelExpired, Interrupt
  <2>3. running' \in [Jobs -> SUBSET Convs]
    BY <1>1, <2>1 DEF ExternalsOK
  <2>4. QED
    BY <1>1, <2>2, <2>3 DEF ExternalsOK, GitHub
<1>3. CASE SetLabels(t)
  <2>1. \/ issue' = [issue EXCEPT ![j] = Labelled(issue[j], thread[t].cmd)]
        \/ UNCHANGED issue
    BY <1>3 DEF SetLabels
  <2>2. UNCHANGED <<worker, active, running, pull, branch>>
    BY <1>3 DEF SetLabels
  <2>3. j \in Jobs => Labelled(issue[j], thread[t].cmd) \in Issue
    BY <1>1 DEF ExternalsOK, Labelled, Issue
  <2>4. issue' \in [Jobs -> Issue]
    BY <1>1, <2>1, <2>3 DEF ExternalsOK
  <2>5. QED
    BY <1>1, <2>2, <2>4 DEF ExternalsOK
<1>4. CASE \/ GiveUp(t) \/ Reap(t) \/ RequeueReview(t) \/ CloseMerged(t)
           \/ Request(t) \/ Revalidate(t) \/ Refuse(t) \/ Accept(t) \/ Reroute(t)
           \/ ReadIssue(t) \/ Decide(t) \/ Skip(t) \/ Update(t) \/ Halt(t) \/ LookUp(t)
           \/ Create(t) \/ AdoptPr(t) \/ AdoptOpen(t) \/ NeedsGuidance(t)
  <2>1. UNCHANGED workVars
    BY <1>4, Zenon DEF GiveUp, Reap, RequeueReview, CloseMerged, Request, Revalidate, Refuse,
       Accept, Reroute, ReadIssue, Decide, Skip, Update, Halt, LookUp, Create, AdoptPr,
       AdoptOpen, NeedsGuidance
  <2>2. QED
    BY <1>1, <2>1 DEF workVars, ExternalsOK
<1>5. QED
  BY <1>2, <1>3, <1>4, Zenon DEF Continue

LEMMA ControlKeeps ==
  ASSUME ServiceInv, NEW t \in Threads, Control(t)
  PROVE  StoreStep /\ ServiceInv'
<1>1. Continue(t) /\ UNCHANGED up
  BY DEF Control
<1>2. StoreStep /\ Kept
  BY <1>1, ControlStoreStep, StoreStepKeeps DEF ServiceInv, Kept
<1>3. LocalsOK' /\ PrKnown'
  BY <1>1, <1>2, ControlExternals, ControlGoes, ThreadGoesKeeps DEF Kept
<1>4. QED
  BY <1>1, <1>2, <1>3, ControlExternals, ServiceKept

\* A thread takes up an operation, or its tick raises: it has read, at most.
LEMMA NoticedKeeps ==
  ASSUME ServiceInv, NEW t \in Threads, ThreadGoes(t), UNCHANGED <<storeVars, workVars, up>>
  PROVE  StoreStep /\ ServiceInv'
<1>1. StoreStep /\ Kept
  BY QuietKept DEF StoreStep
<1>2. LocalsOK' /\ PrKnown'
  BY <1>1, ThreadGoesKeeps DEF Kept, workVars
<1>3. ExternalsOK'
  BY DEF ServiceInv, ExternalsOK, workVars
<1>4. QED
  BY <1>1, <1>2, <1>3, ServiceKept

LEMMA OperationsKeep ==
  ASSUME ServiceInv, NEW t \in Threads,
         Recover(t) \/ Reconcile(t) \/ Operate(t) \/ Report(t) \/ Fault(t)
  PROVE  StoreStep /\ ServiceInv'
<1>1. CASE Recover(t)
  <2>1. PICK j \in Jobs : ExpiredFound(t, j)
    BY <1>1 DEF Recover
  <2> DEFINE row == Read(j)
             n == [Resting EXCEPT !.pc = "recover", !.job = j, !.row = row]
  <2>2. UNCHANGED <<storeVars, workVars, up>> /\ thread' = [thread EXCEPT ![t] = n]
    BY <1>1, <2>1, Zenon DEF Recover, ExpiredFound
  <2>3. row \in ReadView /\ row.pr = job[j].pr /\ job'[j].pr = job[j].pr
    BY <2>2, ReadType DEF ServiceInv, storeVars
  <2> HIDE DEF row
  <2>4. /\ n \in ThreadRow /\ n.job = j /\ n.row = row /\ n.pc = "recover"
        /\ n.pc \notin HasLive
    BY <2>3 DEF Resting, ThreadRow, Operations, HasLive
  <2> HIDE DEF n
  <2>5. ThreadShows(n) => job'[n.job].pr
    BY <2>3, <2>4 DEF ThreadShows
  <2>6. ThreadGoes(t)
    BY <2>2, <2>3, <2>4, <2>5, Opens
  <2>7. QED
    BY <2>2, <2>6, NoticedKeeps
<1>2. CASE Reconcile(t)
  <2>1. PICK j \in Jobs : MergedFound(t, j)
    BY <1>2 DEF Reconcile
  <2> DEFINE n == [Resting EXCEPT !.pc = "merged", !.job = j]
  <2>2. UNCHANGED <<storeVars, workVars, up>> /\ thread' = [thread EXCEPT ![t] = n]
    BY <1>2, <2>1, Zenon DEF Reconcile, MergedFound
  <2>3. /\ n \in ThreadRow /\ n.job = j /\ n.pc = "merged"
        /\ n.pc \notin HasLive /\ n.pc \notin HasRead /\ ~ThreadShows(n)
    BY DEF Resting, ThreadRow, Operations, HasLive, HasRead, ThreadShows
  <2> HIDE DEF n
  <2>4. ThreadGoes(t)
    BY <2>2, <2>3, Opens
  <2>5. QED
    BY <2>2, <2>4, NoticedKeeps
<1>3. CASE Operate(t)
  <2>1. PICK j \in Jobs, cmd \in CommandsIn : Command(t, j, cmd)
    BY <1>3 DEF Operate
  <2> DEFINE row == Read(j)
             n == [Resting EXCEPT !.pc = "request", !.job = j, !.cmd = cmd, !.row = row]
  <2>2. UNCHANGED <<storeVars, workVars, up>> /\ thread' = [thread EXCEPT ![t] = n]
    BY <1>3, <2>1, Zenon DEF Operate, Command
  <2>3. row \in ReadView /\ cmd \in Commands
    BY ReadType, ServiceAssumption DEF ServiceInv
  <2> HIDE DEF row
  <2>4. /\ n \in ThreadRow /\ n.job = j /\ n.cmd = cmd /\ n.pc = "request"
        /\ n.pc \notin HasLive /\ n.pc \notin HasRead /\ ~ThreadShows(n)
    BY <2>3 DEF Resting, ThreadRow, Operations, HasLive, HasRead, ThreadShows
  <2> HIDE DEF n
  <2>5. ThreadGoes(t)
    BY <2>2, <2>3, <2>4, Opens
  <2>6. QED
    BY <2>2, <2>5, NoticedKeeps
<1>4. CASE Report(t)
  <2>1. PICK j \in Jobs : IssueReported(t, j)
    BY <1>4 DEF Report
  <2> DEFINE live == issue[j]
             n == [Resting EXCEPT !.pc = "decide", !.job = j, !.live = live]
  <2>2. UNCHANGED <<storeVars, workVars, up>> /\ thread' = [thread EXCEPT ![t] = n]
    BY <1>4, <2>1, Zenon DEF Report, IssueReported
  <2>3. live \in Issue
    BY DEF ServiceInv, ExternalsOK
  <2> HIDE DEF live
  <2>4. /\ n \in ThreadRow /\ n.job = j /\ n.live = live /\ n.pc = "decide"
        /\ n.pc \notin HasRead /\ ~ThreadShows(n)
    BY <2>3 DEF Resting, ThreadRow, Operations, HasRead, ThreadShows
  <2> HIDE DEF n
  <2>5. ThreadGoes(t)
    BY <2>2, <2>3, <2>4, Opens
  <2>6. QED
    BY <2>2, <2>5, NoticedKeeps
<1>5. CASE Fault(t)
  <2>1. ThreadGoes(t) /\ UNCHANGED <<storeVars, workVars, up>>
    BY <1>5, Rests DEF Fault, TickRaises
  <2>2. QED
    BY <2>1, NoticedKeeps
<1>6. QED
  BY <1>1, <1>2, <1>3, <1>4, <1>5
-----------------------------------------------------------------------------
(* Around the service, and the whole.                                      *)

LEMMA StillKnow ==
  ASSUME ServiceInv, PrKept, UNCHANGED <<worker, thread>>
  PROVE  LocalsOK' /\ PrKnown'
  BY OthersKnow DEF ServiceInv, LocalsOK, PrKnown, HasPr

LEMMA AroundKeeps ==
  ASSUME ServiceInv,
         \/ \E j \in Jobs : Agents(j) \/ Humans(j)
         \/ \E l \in leases : Lapse(l)
         \/ \E p \in Providers : Recovered(p)
         \/ UNCHANGED serviceVars
  PROVE  StoreStep /\ ServiceInv'
<1>1. UNCHANGED <<worker, thread>>
  BY DEF Agents, ConversationEnds, Humans, EditIssue, Merge, Lapse, Expires, Recovered,
         serviceVars, workVars
<1>2. StoreStep
  BY DEF Agents, ConversationEnds, Humans, EditIssue, Merge, Lapse, Expires, Recovered,
         serviceVars, StoreStep, Clock
<1>3. Kept
  BY <1>2, StoreStepKeeps DEF ServiceInv, Kept
<1>4. ExternalsOK'
  <2>1. ASSUME NEW j \in Jobs, Agents(j) PROVE ExternalsOK'
    BY <2>1 DEF Agents, ConversationEnds, ServiceInv, ExternalsOK, GitHub
  <2>2. ASSUME NEW j \in Jobs, EditIssue(j) PROVE ExternalsOK'
    <3>1. issue \in [Jobs -> Issue] /\ issue[j] \in Issue
      BY DEF ServiceInv, ExternalsOK
    <3>2. CASE issue' = [issue EXCEPT ![j].open = ~@] \/ issue' = [issue EXCEPT ![j].ready = ~@]
      <4>1. (~issue[j].open) \in BOOLEAN /\ (~issue[j].ready) \in BOOLEAN
        OBVIOUS
      <4>2. \E b \in BOOLEAN : \/ issue' = [issue EXCEPT ![j].open = b]
                              \/ issue' = [issue EXCEPT ![j].ready = b]
        BY <3>2, <4>1, Zenon
      <4>3. issue' \in [Jobs -> Issue]
        BY <3>1, <4>2 DEF Issue
      <4>4. QED
        BY <2>2, <4>3 DEF EditIssue, ServiceInv, ExternalsOK
    <3>3. CASE \E r \in Routes : issue' = [issue EXCEPT ![j].route = r]
      <4>1. issue' \in [Jobs -> Issue]
        BY <3>1, <3>3 DEF Issue
      <4>2. QED
        BY <2>2, <4>1 DEF EditIssue, ServiceInv, ExternalsOK
    <3>4. CASE \E c \in Contents : issue' = [issue EXCEPT ![j].content = c]
      <4>1. issue' \in [Jobs -> Issue]
        BY <3>1, <3>4 DEF Issue
      <4>2. QED
        BY <2>2, <4>1 DEF EditIssue, ServiceInv, ExternalsOK
    <3>5. QED
      BY <2>2, <3>2, <3>3, <3>4, Zenon DEF EditIssue
  <2>3. ASSUME NEW j \in Jobs, Merge(j) PROVE ExternalsOK'
    <3>1. issue \in [Jobs -> Issue] /\ issue[j] \in Issue
      BY DEF ServiceInv, ExternalsOK
    <3>2. issue' \in [Jobs -> Issue]
      BY <2>3, <3>1 DEF Merge, Issue
    <3>3. pull' \in [Jobs -> {"none", "open", "merged"}]
      BY <2>3 DEF Merge, ServiceInv, ExternalsOK
    <3>4. QED
      BY <2>3, <3>2, <3>3 DEF Merge, ServiceInv, ExternalsOK
  <2>4. ASSUME UNCHANGED <<workVars, up>> PROVE ExternalsOK'
    BY <2>4 DEF workVars, ServiceInv, ExternalsOK
  <2>5. QED
    BY <2>1, <2>2, <2>3, <2>4 DEF Humans, Lapse, Expires, Recovered, serviceVars
<1>5. QED
  BY <1>1, <1>2, <1>3, <1>4, StillKnow, ServiceKept DEF Kept

LEMMA ServiceStep ==
  ServiceInv /\ [Next]_serviceVars => [StoreNext]_storeVars /\ ServiceInv'
<1> SUFFICES ASSUME ServiceInv, [Next]_serviceVars PROVE StoreStep /\ ServiceInv'
  BY StoreStepIsCall
<1>1. ASSUME NEW w \in Workers, Run(w) PROVE StoreStep /\ ServiceInv'
  BY <1>1, WorkerStoreStep, RunKeeps DEF Run
<1>2. ASSUME NEW w \in Workers, Beat(w) \/ \E j \in Jobs : Tick(w, j)
      PROVE  StoreStep /\ ServiceInv'
  BY <1>2, BeatKeeps, TickKeeps
<1>3. ASSUME NEW t \in Threads,
             Recover(t) \/ Reconcile(t) \/ Operate(t) \/ Report(t) \/ Control(t) \/ Fault(t)
      PROVE  StoreStep /\ ServiceInv'
  BY <1>3, ControlKeeps, OperationsKeep
<1>4. ASSUME NEW o \in Owners, Crash(o) PROVE StoreStep /\ ServiceInv'
  BY <1>4, CrashKeeps
<1>5. QED
  BY <1>1, <1>2, <1>3, <1>4, AroundKeeps, Zenon DEF Next

LEMMA ServiceInit == Init => StoreInit /\ ServiceInv
<1> SUFFICES ASSUME Init PROVE StoreInit /\ ServiceInv
  OBVIOUS
<1>1. StoreInit /\ StoreTypeOK
  BY StoreTypeInit DEF Init
<1>2. \A j \in Jobs : ~job[j].pr /\ job[j].state \notin {PR_OPEN, REVIEWING}
  <2>1. AbsentRow.state = Absent /\ ~AbsentRow.pr
    BY DEF AbsentRow
  <2>2. NewRow.state = QUEUED /\ ~NewRow.pr
    BY DEF NewRow, AbsentRow
  <2>3. ASSUME NEW s \in {QUEUED, FAILED}, NEW n \in LegacyAttempts, NEW p \in BOOLEAN
        PROVE  LegacyRow(s, n, p).state = s /\ ~LegacyRow(s, n, p).pr
    BY DEF LegacyRow, AbsentRow
  <2>4. \A row \in LegacyRows : row.state \in {QUEUED, FAILED} /\ ~row.pr
    BY <2>3 DEF LegacyRows
  <2>5. \A row \in {AbsentRow, NewRow} \cup LegacyRows :
          ~row.pr /\ row.state \notin {PR_OPEN, REVIEWING}
    BY <2>1, <2>2, <2>4
  <2>6. QED
    BY <1>1, <2>5 DEF StoreInit
<1>3. AbsentHasNoPr /\ PublishedHasPr
  BY <1>2 DEF AbsentHasNoPr, PublishedHasPr, HasPr
<1>4. ExternalsOK
  <2>1. \A j \in Jobs : FreshIssue(j) \in Issue
    BY AbsentRowType DEF FreshIssue, Issue, JobRow
  <2>2. issue \in [Jobs -> Issue]
    BY <2>1 DEF Init
  <2>3. QED
    BY <2>2 DEF Init, ExternalsOK
<1>5. LocalsOK /\ PrKnown
  <2>1. Idle \in WorkerRow /\ \A w \in Workers : worker[w] = Idle
    BY IdleOK DEF Init, WorkerOK
  <2>2. Resting \in ThreadRow /\ ThreadOK(Resting) /\ ~ThreadShows(Resting)
    BY DEF ThreadRow, ThreadOK, ThreadShows, Resting, Operations, HasLive, HasRead
  <2>3. \A t \in Threads : thread[t] = Resting
    BY DEF Init
  <2>4. worker \in [Workers -> WorkerRow] /\ thread \in [Threads -> ThreadRow]
    BY <2>1, <2>2 DEF Init
  <2>5. QED
    BY <2>1, <2>2, <2>3, <2>4, IdleOK DEF LocalsOK, PrKnown
<1>6. QED
  BY <1>1, <1>3, <1>4, <1>5 DEF ServiceInv

\* The service implements Store: every step of a worker, of a heartbeat, of
\* recovery, of an operator, of intake and of the environment is one call the
\* store offers, with arguments it expects, or writes no table at all.  A thread
\* that acts on a row read earlier, or that survives a crash of another, is no
\* exception.
THEOREM ServiceImplementsStore == Spec => ImplementsStore
  BY ServiceInit, ServiceStep, PTL DEF Spec, ImplementsStore, StoreSpec

\* The variables keep their types: no worker goes past max_implementation_corrections
\* or max_review_repairs, and a busy thread always works on a job.
THEOREM ServiceTypeCorrect == Spec => []ServiceTypeOK
<1>1. ServiceInv => ServiceTypeOK
  <2> SUFFICES ASSUME ServiceInv PROVE ServiceTypeOK
    OBVIOUS
  <2>1. ASSUME NEW w \in Workers, Busy(w)
        PROVE  /\ Mine(w) \in Jobs /\ worker[w].corrections <= MaxCorrections
               /\ worker[w].repairs <= MaxRepairs
    <3>1. Mine(w) \in Jobs
      BY <2>1 DEF ServiceInv, LocalsOK, WorkerOK, Busy, At, Mine
    <3>2. worker[w].corrections \in 0..MaxCorrections /\ worker[w].repairs \in 0..MaxRepairs
      BY DEF ServiceInv, LocalsOK, WorkerRow
    <3>3. QED
      BY <3>1, <3>2, WorkerAssumption
  <2>2. \A t \in Threads : thread[t].pc \notin {"idle", "dead"} => Its(t) \in Jobs
    BY ThreadFacts
  <2>3. QED
    BY <2>1, <2>2 DEF ServiceInv, ExternalsOK, ServiceTypeOK
<1>2. QED
  BY <1>1, ServiceInit, ServiceStep, PTL DEF Spec

\* What is shown as published, or under review, has its pull request in the row,
\* whatever workers, recovery, intake and operators do to it, in any order, and
\* whenever a process crashes.
THEOREM PublishedAlwaysHasPr == Spec => []PublishedHasPr
<1>1. ServiceInv => PublishedHasPr
  BY DEF ServiceInv
<1>2. QED
  BY <1>1, ServiceInit, ServiceStep, PTL DEF Spec

\* So what the store guarantees to arbitrary clients, the service guarantees: no
\* running job is orphaned, no stopped job blocks a key, the global limit holds,
\* no job gets its attempts back, and keys pass only through being free.
THEOREM ServiceInheritsStore ==
  Spec => /\ []RunningHasLease /\ []StoppedHoldsNoLease /\ []GlobalLimitHolds
          /\ AttemptsKept /\ LeasesAreLocks
  BY ServiceImplementsStore, RunningNeverOrphaned, StoppedNeverBlocks, GlobalLimitSafe,
     AttemptsNeverLost, LeasesImplementLocks DEF ImplementsStore
=============================================================================
