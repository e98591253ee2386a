----------------------------- MODULE StatusSync -----------------------------
(***************************************************************************)
(* What an issue shows of its job: Coordinator._sync_status, with          *)
(* set_state_labels and update_status_comment (github.py), called by       *)
(* workers, timers, webhook handlers and operators of all processes.       *)
(*                                                                         *)
(* The caller passes the row of its own last write.  The labels show that  *)
(* row's state; the comment is made from the row read again.  All of it    *)
(* runs under an operation lock of the job, or not at all.  A step is one  *)
(* call to GitHub or one transaction.                                      *)
(*                                                                         *)
(* External: the labels and comments of GitHub issues.                     *)
(***************************************************************************)
EXTENDS JobStates, OperationLocks, FiniteSets

CONSTANTS
  Jobs,        \* jobs, one per issue
  Owners,      \* processes
  Threads,     \* threads of all processes
  ProcessOf,   \* the process of a thread; its coordinator owns the locks
  CommentIds,  \* ids of status comments
  None,        \* no id
  Faults       \* which failures happen: see FaultKinds

FaultKinds == {"github", "crash", "delete"}

ASSUME StatusAssumption ==
  /\ ProcessOf \in [Threads -> Owners]
  /\ None \notin Jobs \cup CommentIds
  /\ Faults \subseteq FaultKinds

VARIABLES
  state,     \* the state column of each job
  open,      \* whether each issue is open
  shown,     \* the state labels on each issue
  posted,    \* the bot's status comments on each issue
  statusId,  \* the column status_comment_id
  sync,      \* the local variables of _sync_status in each thread
  up         \* the processes that have not crashed

syncVars == <<state, open, shown, posted, statusId, sync, up, locks>>
github == <<open, shown, posted>>

\* The state labels, named without their prefix.
SYSTEM_STATE_LABELS == {QUEUED, RUNNING, NEEDS_GUIDANCE, PR_OPEN, FAILED, DONE}

\* Mutant of Desired: a label per state.
DesiredByName(s) == s

\* set_state_labels, desired.
Desired(s) ==
  CASE s \in {PR_OPEN, REVIEWING}         -> PR_OPEN
    [] s \in {BLOCKED, FAILED, CANCELED}  -> FAILED
    [] OTHER                              -> s

NotSyncing ==
  [pc |-> "idle", job |-> None, state |-> Absent, labels |-> {}, id |-> None, seen |-> None]

AtSync(t, pc) == sync[t].pc = pc
Synced(t) == sync[t].job
StatusLock(j) == <<"status", j>>

\* What a thread knows when it starts a step without results of earlier ones.
Fresh(t, pc) == [NotSyncing EXCEPT !.pc = pc, !.job = Synced(t)]
SyncGoto(t, pc) == sync' = [sync EXCEPT ![t] = Fresh(t, pc)]

\* _live_issue_guard: a closed issue is touched only to show that its job is done.
MayShow(t, s) == open[Synced(t)] \/ s = DONE

StatusInit ==
  /\ state = [j \in Jobs |-> QUEUED]
  /\ open = [j \in Jobs |-> TRUE]
  /\ shown = [j \in Jobs |-> {}]
  /\ posted = [j \in Jobs |-> {}]
  /\ statusId = [j \in Jobs |-> None]
  /\ sync = [t \in Threads |-> NotSyncing]
  /\ up = Owners
  /\ locks = {}

-----------------------------------------------------------------------------
(* _sync_status. *)

\* A thread writes the row, or has only read it, and calls _sync_status with it;
\* which states follow each other is the business of Store.
CallSync(t) ==
  /\ AtSync(t, "idle")
  /\ \E j \in Jobs, s \in JobState :
       /\ state' = [state EXCEPT ![j] = s]
       /\ sync' = [sync EXCEPT ![t] =
                     [NotSyncing EXCEPT !.pc = "lock", !.job = j, !.state = s]]
  /\ UNCHANGED <<github, statusId, up, locks>>

\* Mutant of SyncLock: the answer of acquire_operation_lock is ignored.
SyncLockUnchecked(t) ==
  /\ AtSync(t, "lock")
  /\ \/ AcquireOperationLock(StatusLock(Synced(t)), ProcessOf[t])
     \/ OperationLockRefused(StatusLock(Synced(t)))
  /\ sync' = [sync EXCEPT ![t].pc = "read"]
  /\ UNCHANGED <<state, github, statusId, up>>

\* Another thread is at it: this update is dropped.
SyncLock(t) ==
  LET n == StatusLock(Synced(t)) IN
  /\ AtSync(t, "lock")
  /\ \/ AcquireOperationLock(n, ProcessOf[t]) /\ sync' = [sync EXCEPT ![t].pc = "read"]
     \/ OperationLockRefused(n) /\ sync' = [sync EXCEPT ![t] = NotSyncing]
  /\ UNCHANGED <<state, github, statusId, up>>

\* set_state_labels reads the live labels ...
ReadLabels(t) ==
  /\ AtSync(t, "read")
  /\ IF MayShow(t, sync[t].state)
     THEN sync' = [sync EXCEPT ![t].pc = "edit", ![t].labels = shown[Synced(t)]]
     ELSE SyncGoto(t, "unlock")
  /\ UNCHANGED <<state, github, statusId, up, locks>>

\* ... and edits what differs, by name: labels are added and removed, not set.
EditLabels(t) ==
  LET want == {Desired(sync[t].state)} had == sync[t].labels IN
  /\ AtSync(t, "edit")
  /\ shown' = [shown EXCEPT ![Synced(t)] = (@ \ (had \ want)) \cup (want \ had)]
  /\ SyncGoto(t, "find")
  /\ UNCHANGED <<state, open, posted, statusId, up, locks>>

\* Mutant of FindComment: only the recorded id is looked at.
FindCommentById(t) ==
  LET j == Synced(t) IN
  /\ AtSync(t, "find")
  /\ sync' = [sync EXCEPT ![t].pc = "post", ![t].state = state[j], ![t].seen = statusId[j],
                          ![t].id = IF statusId[j] \in posted[j] THEN statusId[j] ELSE None]
  /\ UNCHANGED <<state, github, statusId, up, locks>>

\* The row is read again; the comment is the recorded one if the bot still owns
\* it, or any of the bot's comments with the marker.
FindComment(t) ==
  LET j == Synced(t) IN
  /\ AtSync(t, "find")
  /\ IF MayShow(t, state[j])
     THEN \E id \in posted[j] \cup {None} :
            /\ posted[j] # {} => id # None
            /\ statusId[j] \in posted[j] => id = statusId[j]
            /\ sync' = [sync EXCEPT ![t].pc = "post", ![t].state = state[j],
                                    ![t].seen = statusId[j], ![t].id = id]
     ELSE SyncGoto(t, "unlock")
  /\ UNCHANGED <<state, github, statusId, up, locks>>

\* PATCH: the comment may be gone, or the issue closed, by now.
PatchComment(t) ==
  /\ AtSync(t, "post") /\ sync[t].id # None
  /\ IF MayShow(t, sync[t].state) /\ sync[t].id \in posted[Synced(t)]
     THEN sync' = [sync EXCEPT ![t].pc = "store", ![t].state = Absent]
     ELSE SyncGoto(t, "unlock")
  /\ UNCHANGED <<state, github, statusId, up, locks>>

\* POST: the answer with the new id may be lost.
PostComment(t) ==
  LET j == Synced(t) IN
  /\ AtSync(t, "post") /\ sync[t].id = None
  /\ MayShow(t, sync[t].state)
  /\ \E c \in CommentIds \ UNION {posted[k] : k \in Jobs} :
       /\ posted' = [posted EXCEPT ![j] = @ \cup {c}]
       /\ \/ sync' = [sync EXCEPT ![t].pc = "store", ![t].state = Absent, ![t].id = c]
          \/ "github" \in Faults /\ SyncGoto(t, "unlock")
  /\ UNCHANGED <<state, open, shown, statusId, up, locks>>

StoreCommentId(t) ==
  /\ AtSync(t, "store")
  /\ statusId' = IF sync[t].id = sync[t].seen THEN statusId
                 ELSE [statusId EXCEPT ![Synced(t)] = sync[t].id]
  /\ SyncGoto(t, "unlock")
  /\ UNCHANGED <<state, github, up, locks>>

\* Mutant of SyncFails: the exception leaves the lock behind.
SyncFailsLocked(t) ==
  /\ "github" \in Faults
  /\ sync[t].pc \in {"read", "edit", "find", "post"}
  /\ sync' = [sync EXCEPT ![t] = NotSyncing]
  /\ UNCHANGED <<state, github, statusId, up, locks>>

\* A GitHubError or StaleIssueError ends the update; nobody learns of it.
SyncFails(t) ==
  /\ sync[t].pc \in {"read", "edit", "find", "post"}
  /\ "github" \in Faults \/ (AtSync(t, "post") /\ ~MayShow(t, sync[t].state))
  /\ SyncGoto(t, "unlock")
  /\ UNCHANGED <<state, github, statusId, up, locks>>

Unlock(t) ==
  /\ AtSync(t, "unlock")
  /\ ReleaseOperationLock(StatusLock(Synced(t)), ProcessOf[t])
  /\ sync' = [sync EXCEPT ![t] = NotSyncing]
  /\ UNCHANGED <<state, github, statusId, up>>

-----------------------------------------------------------------------------
(* The environment. *)

OpenOrClose(j) ==
  /\ open' = [open EXCEPT ![j] = ~@]
  /\ UNCHANGED <<state, shown, posted, statusId, sync, up, locks>>

DeleteComment(j) ==
  /\ "delete" \in Faults
  /\ \E c \in posted[j] : posted' = [posted EXCEPT ![j] = @ \ {c}]
  /\ UNCHANGED <<state, open, shown, statusId, sync, up, locks>>

\* A process dies for good, its locks stay.  Another one is always there.
Crash(o) ==
  /\ "crash" \in Faults
  /\ o \in up /\ up # {o}
  /\ up' = up \ {o}
  /\ sync' = [t \in Threads |-> IF ProcessOf[t] = o THEN NotSyncing ELSE sync[t]]
  /\ UNCHANGED <<state, github, statusId, locks>>

\* No update takes longer than the 900 seconds of its lock.
Expire ==
  /\ \E l \in locks : l.owner \notin up /\ LockExpires(l)
  /\ UNCHANGED <<state, github, statusId, sync, up>>

SyncStep(t) ==
  \/ SyncLock(t) \/ ReadLabels(t) \/ EditLabels(t) \/ FindComment(t) \/ PatchComment(t)
  \/ PostComment(t) \/ StoreCommentId(t) \/ SyncFails(t) \/ Unlock(t)

StatusNext ==
  \/ \E t \in Threads : ProcessOf[t] \in up /\ (CallSync(t) \/ SyncStep(t))
  \/ \E j \in Jobs : OpenOrClose(j) \/ DeleteComment(j)
  \/ \E o \in Owners : Crash(o)
  \/ Expire

StatusSpec == StatusInit /\ [][StatusNext]_syncVars

\* Threads of live processes take their steps; expired rows expire.
StatusLiveSpec ==
  /\ StatusSpec
  /\ WF_syncVars(Expire)
  /\ \A t \in Threads : WF_syncVars(ProcessOf[t] \in up /\ SyncStep(t))

-----------------------------------------------------------------------------
(* Properties. *)

TablesOK ==
  /\ state \in [Jobs -> JobState]
  /\ open \in [Jobs -> BOOLEAN]
  /\ shown \in [Jobs -> SUBSET SYSTEM_STATE_LABELS]
  /\ posted \in [Jobs -> SUBSET CommentIds]
  /\ statusId \in [Jobs -> CommentIds \cup {None}]

SyncRecord ==
  [pc : {"idle", "lock", "read", "edit", "find", "post", "store", "unlock"},
   job : Jobs \cup {None}, state : JobState \cup {Absent},
   labels : SUBSET SYSTEM_STATE_LABELS,
   id : CommentIds \cup {None}, seen : CommentIds \cup {None}]

\* In a call there is a job, and a state when it is about to be shown.
CallOK(r) ==
  /\ r.pc # "idle" => r.job \in Jobs
  /\ r.pc \in {"lock", "read", "edit"} => r.state \in JobState

SyncOK ==
  /\ sync \in [Threads -> SyncRecord]
  /\ \A t \in Threads : CallOK(sync[t])

LocksOK ==
  /\ locks \subseteq [name : {StatusLock(j) : j \in Jobs}, owner : Owners, live : BOOLEAN]
  /\ up \subseteq Owners

\* Rows, issues, locks and threads keep their domains.
StatusTypeOK == TablesOK /\ SyncOK /\ LocksOK

\* An issue carries at most one status comment, whatever crashes, deletions and
\* lost answers came between posting it and recording its id.
OneStatusComment == \A j \in Jobs : \A c, d \in posted[j] : c = d

\* An issue never shows two states at once, though labels are edited by
\* differences to a list read earlier.
OneStateLabel == \A j \in Jobs : \A x, y \in shown[j] : x = y

\* A lock left behind never keeps an issue from being updated for good.
LockFreed == \A j \in Jobs : Held(StatusLock(j)) ~> ~Held(StatusLock(j))
=============================================================================
