--------------------------- MODULE StatusTheorems ---------------------------
(***************************************************************************)
(* Proofs about StatusSync.  The operation lock is live as long as its     *)
(* holder is, so a job is shown by one thread at a time; what that thread  *)
(* has read is therefore still true when it edits labels or posts.         *)
(***************************************************************************)
EXTENDS StatusSync, TLAPS

InLock(t) == sync[t].pc \in {"read", "edit", "find", "post", "store", "unlock"}

\* The row of the lock that a thread holds.
RowOf(t) == [name |-> StatusLock(Synced(t)), owner |-> ProcessOf[t], live |-> TRUE]

Holding == \A t \in Threads : InLock(t) => ProcessOf[t] \in up /\ RowOf(t) \in locks
Exclusive == \A t, u \in Threads : InLock(t) /\ InLock(u) /\ Synced(t) = Synced(u) => t = u
LabelsKnown == \A t \in Threads : AtSync(t, "edit") => sync[t].labels = shown[Synced(t)]
NoneKnown == \A t \in Threads : AtSync(t, "post") /\ sync[t].id = None => posted[Synced(t)] = {}

StatusInv ==
  /\ StatusTypeOK
  /\ Holding /\ Exclusive
  /\ LabelsKnown /\ OneStateLabel
  /\ NoneKnown /\ OneStatusComment

-----------------------------------------------------------------------------
LEMMA InitHolds == StatusInit => StatusInv
  BY StatusAssumption
     DEF StatusInit, StatusInv, StatusTypeOK, TablesOK, SyncOK, SyncRecord, CallOK, LocksOK, Holding, Exclusive, LabelsKnown, NoneKnown,
         OneStateLabel, OneStatusComment, NotSyncing, InLock, AtSync, JobState,
         SYSTEM_STATE_LABELS

LEMMA DesiredIsLabel == \A s \in JobState : Desired(s) \in SYSTEM_STATE_LABELS
  BY DEF Desired, SYSTEM_STATE_LABELS, JobState

LEMMA PutSync ==
  ASSUME SyncOK, NEW t \in Threads, NEW v \in SyncRecord, CallOK(v),
         sync' = [sync EXCEPT ![t] = v]
  PROVE  SyncOK'
  BY DEF SyncOK

\* What a thread keeps from one step to the next is of the right kind.
LEMMA StepRecords ==
  ASSUME SyncOK, TablesOK, NEW t \in Threads, sync[t].pc # "idle"
  PROVE  /\ NotSyncing \in SyncRecord /\ CallOK(NotSyncing)
         /\ \A pc \in {"find", "unlock"} : Fresh(t, pc) \in SyncRecord /\ CallOK(Fresh(t, pc))
         /\ sync[t] \in SyncRecord /\ Synced(t) \in Jobs
  BY DEF SyncOK, SyncRecord, CallOK, NotSyncing, Fresh, Synced

\* The steps of _sync_status keep the variables of the threads in order.
LEMMA SyncTypeStep ==
  ASSUME SyncOK, TablesOK, NEW t \in Threads, SyncStep(t)
  PROVE  SyncOK'
<1> USE StatusAssumption
<1>1. sync[t].pc # "idle"
  BY DEF SyncStep, SyncLock, ReadLabels, EditLabels, FindComment, PatchComment, PostComment,
         StoreCommentId, SyncFails, Unlock, AtSync
<1> DEFINE r == sync[t]
<1>2. /\ NotSyncing \in SyncRecord /\ CallOK(NotSyncing)
      /\ \A pc \in {"find", "unlock"} : Fresh(t, pc) \in SyncRecord /\ CallOK(Fresh(t, pc))
      /\ r \in SyncRecord /\ Synced(t) \in Jobs
  BY <1>1, StepRecords
<1>3. CASE SyncLock(t)
  <2>1. [r EXCEPT !.pc = "read"] \in SyncRecord /\ (AtSync(t, "lock") => CallOK([r EXCEPT !.pc = "read"]))
    BY <1>2 DEF SyncRecord, CallOK, AtSync, SyncOK
  <2> QED
    BY <1>2, <1>3, <2>1, PutSync DEF SyncLock
<1>4. CASE ReadLabels(t)
  <2> DEFINE v == [r EXCEPT !.pc = "edit", !.labels = shown[Synced(t)]]
  <2>1. v \in SyncRecord /\ (AtSync(t, "read") => CallOK(v))
    BY <1>2 DEF SyncRecord, CallOK, AtSync, SyncOK, TablesOK
  <2>2. sync' = [sync EXCEPT ![t] = v] \/ sync' = [sync EXCEPT ![t] = Fresh(t, "unlock")]
    BY <1>4 DEF ReadLabels, SyncGoto
  <2> QED
    BY <1>2, <1>4, <2>1, <2>2, PutSync DEF ReadLabels
<1>5. CASE EditLabels(t)
  BY <1>2, <1>5, PutSync DEF EditLabels, SyncGoto
<1>6. CASE FindComment(t)
  <2>1. ASSUME NEW id \in posted[Synced(t)] \cup {None}
        PROVE  LET v == [r EXCEPT !.pc = "post", !.state = state[Synced(t)],
                                  !.seen = statusId[Synced(t)], !.id = id]
               IN  v \in SyncRecord /\ CallOK(v)
    BY <1>2 DEF SyncRecord, CallOK, TablesOK, Synced
  <2>2. \/ sync' = [sync EXCEPT ![t] = Fresh(t, "unlock")]
        \/ \E id \in posted[Synced(t)] \cup {None} :
             sync' = [sync EXCEPT ![t] = [r EXCEPT !.pc = "post", !.state = state[Synced(t)],
                                          !.seen = statusId[Synced(t)], !.id = id]]
    BY <1>6 DEF FindComment, SyncGoto
  <2> QED
    BY <1>2, <2>1, <2>2, PutSync
<1>7. CASE PatchComment(t) \/ PostComment(t)
  <2>1. ASSUME NEW c \in CommentIds \cup {None}
        PROVE  LET v == [r EXCEPT !.pc = "store", !.state = Absent, !.id = c]
               IN  v \in SyncRecord /\ CallOK(v)
    BY <1>2 DEF SyncRecord, CallOK, Synced
  <2>2. \/ sync' = [sync EXCEPT ![t] = Fresh(t, "unlock")]
        \/ \E c \in CommentIds \cup {None} :
             sync' = [sync EXCEPT ![t] = [r EXCEPT !.pc = "store", !.state = Absent, !.id = c]]
    <3>1. r.id \in CommentIds \cup {None} /\ r = [r EXCEPT !.id = r.id]
      BY <1>2 DEF SyncRecord
    <3>2. [r EXCEPT !.pc = "store", !.state = Absent] = [r EXCEPT !.pc = "store", !.state = Absent, !.id = r.id]
      BY <1>2 DEF SyncRecord
    <3>3. CASE PatchComment(t)
      <4>1. \/ sync' = [sync EXCEPT ![t] = Fresh(t, "unlock")]
            \/ sync' = [sync EXCEPT ![t] = [r EXCEPT !.pc = "store", !.state = Absent]]
        BY <3>3 DEF PatchComment, SyncGoto
      <4> HIDE DEF r
      <4> QED
        BY <3>1, <3>2, <4>1
    <3>4. CASE PostComment(t)
      BY <3>4 DEF PostComment, SyncGoto
    <3> QED
      BY <1>7, <3>3, <3>4
  <2> QED
    BY <1>2, <2>1, <2>2, PutSync
<1>8. CASE StoreCommentId(t) \/ SyncFails(t)
  BY <1>2, <1>8, PutSync DEF StoreCommentId, SyncFails, SyncGoto
<1>9. CASE Unlock(t)
  BY <1>2, <1>9, PutSync DEF Unlock
<1> QED
  BY <1>3, <1>4, <1>5, <1>6, <1>7, <1>8, <1>9 DEF SyncStep

LEMMA SyncTables ==
  ASSUME SyncOK, TablesOK, NEW t \in Threads, SyncStep(t)
  PROVE  TablesOK'
<1> USE StatusAssumption DEF TablesOK
<1>1. sync[t].pc # "idle"
  BY DEF SyncStep, SyncLock, ReadLabels, EditLabels, FindComment, PatchComment, PostComment,
         StoreCommentId, SyncFails, Unlock, AtSync
<1>2. sync[t] \in SyncRecord /\ Synced(t) \in Jobs
  BY <1>1, StepRecords
<1>3. CASE EditLabels(t)
  <2>1. Desired(sync[t].state) \in SYSTEM_STATE_LABELS
    BY <1>3, DesiredIsLabel DEF EditLabels, AtSync, SyncOK, CallOK
  <2> QED
    BY <1>2, <1>3, <2>1 DEF EditLabels
<1>4. CASE PostComment(t)
  BY <1>2, <1>4 DEF PostComment
<1>5. CASE StoreCommentId(t)
  BY <1>2, <1>5 DEF StoreCommentId, SyncRecord, github
<1> QED
  BY <1>3, <1>4, <1>5
     DEF SyncStep, SyncLock, ReadLabels, FindComment, PatchComment, SyncFails, Unlock, github

LEMMA SyncLocks ==
  ASSUME SyncOK, TablesOK, LocksOK, NEW t \in Threads, SyncStep(t)
  PROVE  LocksOK'
<1> USE StatusAssumption DEF LocksOK
<1>1. CASE SyncLock(t)
  <2>1. Synced(t) \in Jobs
    BY <1>1, StepRecords DEF SyncLock, AtSync
  <2> DEFINE Rows == [name : {StatusLock(j) : j \in Jobs}, owner : Owners, live : BOOLEAN]
  <2>2. [name |-> StatusLock(Synced(t)), owner |-> ProcessOf[t], live |-> TRUE] \in Rows
    BY <2>1
  <2> HIDE DEF Rows
  <2> QED
    BY <1>1, <2>2 DEF SyncLock, AcquireOperationLock, OperationLockRefused, Unexpired, Rows
<1>2. CASE Unlock(t)
  BY <1>2 DEF Unlock, ReleaseOperationLock
<1> QED
  BY <1>1, <1>2
     DEF SyncStep, ReadLabels, EditLabels, FindComment, PatchComment, PostComment,
         StoreCommentId, SyncFails, github

LEMMA TypeStep ==
  ASSUME StatusTypeOK, [StatusNext]_syncVars
  PROVE  StatusTypeOK'
<1> USE StatusAssumption
<1>1. CASE UNCHANGED syncVars
  BY <1>1 DEF syncVars, StatusTypeOK, TablesOK, SyncOK, LocksOK
<1>2. ASSUME NEW t \in Threads, CallSync(t) PROVE StatusTypeOK'
  <2>1. PICK j \in Jobs, s \in JobState :
          /\ state' = [state EXCEPT ![j] = s]
          /\ sync' = [sync EXCEPT ![t] = [NotSyncing EXCEPT !.pc = "lock", !.job = j, !.state = s]]
    BY <1>2 DEF CallSync
  <2>2. LET v == [NotSyncing EXCEPT !.pc = "lock", !.job = j, !.state = s]
        IN  v \in SyncRecord /\ CallOK(v)
    BY DEF NotSyncing, SyncRecord, CallOK
  <2>3. SyncOK'
    BY <2>1, <2>2, PutSync DEF StatusTypeOK
  <2> QED
    BY <1>2, <2>1, <2>3 DEF CallSync, StatusTypeOK, TablesOK, LocksOK, github
<1>3. ASSUME NEW t \in Threads, SyncStep(t) PROVE StatusTypeOK'
  BY <1>3, SyncTypeStep, SyncTables, SyncLocks DEF StatusTypeOK
<1>4. ASSUME NEW j \in Jobs, OpenOrClose(j) \/ DeleteComment(j) PROVE StatusTypeOK'
  <2>1. TablesOK'
    BY <1>4 DEF OpenOrClose, DeleteComment, StatusTypeOK, TablesOK
  <2> QED
    BY <1>4, <2>1 DEF OpenOrClose, DeleteComment, StatusTypeOK, SyncOK, LocksOK
<1>5. ASSUME NEW o \in Owners, Crash(o) PROVE StatusTypeOK'
  <2>1. NotSyncing \in SyncRecord /\ CallOK(NotSyncing)
    BY DEF NotSyncing, SyncRecord, CallOK
  <2>2. SyncOK'
    BY <1>5, <2>1 DEF Crash, SyncOK, StatusTypeOK
  <2> QED
    BY <1>5, <2>2 DEF Crash, StatusTypeOK, TablesOK, LocksOK, github
<1>6. CASE Expire
  BY <1>6 DEF Expire, LockExpires, StatusTypeOK, TablesOK, SyncOK, LocksOK, github
<1> QED
  BY <1>1, <1>2, <1>3, <1>4, <1>5, <1>6 DEF StatusNext

-----------------------------------------------------------------------------
\* A thread that goes on under its lock keeps it.
LEMMA StaysInLock ==
  ASSUME Holding, Exclusive, NEW t \in Threads, InLock(t), UNCHANGED <<locks, up>>,
         \A u \in Threads : u # t => sync'[u] = sync[u], sync'[t].job = Synced(t)
  PROVE  Holding' /\ Exclusive'
  BY DEF Holding, Exclusive, InLock, RowOf, Synced, StatusLock

\* So does everyone when a thread outside of its lock stays outside.
LEMMA StaysOutside ==
  ASSUME Holding, Exclusive, NEW t \in Threads, UNCHANGED up,
         \A u \in Threads : u # t => sync'[u] = sync[u], sync'[t].pc \in {"idle", "lock"},
         \A l \in locks : l.live => l \in locks'
  PROVE  Holding' /\ Exclusive'
  BY DEF Holding, Exclusive, InLock, RowOf, Synced, StatusLock

\* A job is shown by at most one thread, whose lock is live.
LEMMA HoldStep ==
  ASSUME StatusTypeOK, Holding, Exclusive, [StatusNext]_syncVars
  PROVE  Holding' /\ Exclusive'
<1> USE StatusAssumption
<1>1. CASE UNCHANGED syncVars
  BY <1>1 DEF syncVars, Holding, Exclusive, InLock, RowOf, Synced
<1>2. ASSUME NEW t \in Threads, CallSync(t) PROVE Holding' /\ Exclusive'
  <2>1. PICK j \in Jobs, s \in JobState :
          sync' = [sync EXCEPT ![t] = [NotSyncing EXCEPT !.pc = "lock", !.job = j, !.state = s]]
    BY <1>2 DEF CallSync
  <2>2. sync'[t].pc = "lock" /\ \A u \in Threads : u # t => sync'[u] = sync[u]
    BY <2>1 DEF NotSyncing, StatusTypeOK, SyncOK
  <2>3. UNCHANGED <<locks, up>>
    BY <1>2 DEF CallSync
  <2> QED
    BY <2>2, <2>3, StaysOutside
<1>3. ASSUME NEW t \in Threads, SyncLock(t), ProcessOf[t] \in up PROVE Holding' /\ Exclusive'
  <2>1. CASE OperationLockRefused(StatusLock(Synced(t))) /\ sync' = [sync EXCEPT ![t] = NotSyncing]
    <3>1. sync'[t].pc = "idle" /\ \A u \in Threads : u # t => sync'[u] = sync[u]
      BY <2>1 DEF NotSyncing, StatusTypeOK, SyncOK
    <3>2. UNCHANGED up /\ \A l \in locks : l.live => l \in locks'
      BY <1>3, <2>1 DEF SyncLock, OperationLockRefused, Unexpired
    <3> QED
      BY <3>1, <3>2, StaysOutside
  <2>2. CASE /\ AcquireOperationLock(StatusLock(Synced(t)), ProcessOf[t])
             /\ sync' = [sync EXCEPT ![t].pc = "read"]
    <3>1. \A u \in Threads : InLock(u) => Synced(u) # Synced(t)
      BY <2>2 DEF AcquireOperationLock, Held, Holding, RowOf
    <3>2. /\ RowOf(t) \in locks' /\ Unexpired \subseteq locks'
      BY <2>2 DEF AcquireOperationLock, RowOf
    <3>3. \A u \in Threads : Synced(u)' = Synced(u) /\ (InLock(u)' => u = t \/ InLock(u))
      BY <2>2 DEF StatusTypeOK, SyncOK, SyncRecord, Synced, InLock
    <3>4. \A u \in Threads : RowOf(u)' = RowOf(u)
      BY <3>3 DEF RowOf
    <3>5. Holding'
      BY <1>3, <3>2, <3>3, <3>4 DEF Holding, SyncLock, Unexpired, RowOf
    <3>6. Exclusive'
      BY <3>1, <3>3 DEF Exclusive
    <3> QED
      BY <3>5, <3>6
  <2> QED
    BY <1>3, <2>1, <2>2 DEF SyncLock
<1>4. ASSUME NEW t \in Threads, ReadLabels(t) \/ EditLabels(t) \/ FindComment(t) \/ PatchComment(t)
                \/ PostComment(t) \/ StoreCommentId(t) \/ SyncFails(t)
      PROVE  Holding' /\ Exclusive'
  <2>1. InLock(t) /\ UNCHANGED <<locks, up>>
    BY <1>4 DEF ReadLabels, EditLabels, FindComment, PatchComment, PostComment, StoreCommentId,
                SyncFails, InLock, AtSync, github
  <2>2. \A u \in Threads : u # t => sync'[u] = sync[u]
    BY <1>4 DEF StatusTypeOK, SyncOK, ReadLabels, EditLabels, FindComment, PatchComment,
                PostComment, StoreCommentId, SyncFails, SyncGoto
  <2>3. sync'[t].job = Synced(t)
    <3>1. Fresh(t, "find").job = Synced(t) /\ Fresh(t, "unlock").job = Synced(t)
      BY DEF Fresh, NotSyncing
    <3>2. sync \in [Threads -> SyncRecord]
      BY DEF StatusTypeOK, SyncOK
    <3>3. CASE ReadLabels(t) \/ EditLabels(t)
      BY <3>1, <3>2, <3>3 DEF SyncRecord, ReadLabels, EditLabels, SyncGoto, Synced
    <3>4. CASE FindComment(t)
      BY <3>1, <3>2, <3>4 DEF SyncRecord, FindComment, SyncGoto, Synced
    <3>5. CASE PatchComment(t) \/ PostComment(t)
      BY <3>1, <3>2, <3>5 DEF SyncRecord, PatchComment, PostComment, SyncGoto, Synced
    <3>6. CASE StoreCommentId(t) \/ SyncFails(t)
      BY <3>1, <3>2, <3>6 DEF SyncRecord, StoreCommentId, SyncFails, SyncGoto, Synced
    <3> QED
      BY <1>4, <3>3, <3>4, <3>5, <3>6
  <2> QED
    BY <2>1, <2>2, <2>3, StaysInLock
<1>5. ASSUME NEW t \in Threads, Unlock(t) PROVE Holding' /\ Exclusive'
  <2>1. InLock(t)
    BY <1>5 DEF Unlock, InLock, AtSync
  <2>2. \A u \in Threads : u # t => sync'[u] = sync[u]
    BY <1>5 DEF StatusTypeOK, SyncOK, Unlock
  <2>3. ~InLock(t)'
    BY <1>5 DEF StatusTypeOK, SyncOK, Unlock, InLock, NotSyncing
  <2>4. ASSUME NEW u \in Threads, u # t, InLock(u) PROVE RowOf(u) \in locks'
    BY <1>5, <2>1, <2>4
       DEF Unlock, ReleaseOperationLock, Holding, Exclusive, RowOf, StatusLock
  <2> QED
    BY <1>5, <2>2, <2>3, <2>4 DEF Unlock, Holding, Exclusive, InLock, RowOf, Synced
<1>6. ASSUME NEW j \in Jobs, OpenOrClose(j) \/ DeleteComment(j) PROVE Holding' /\ Exclusive'
  BY <1>6 DEF OpenOrClose, DeleteComment, Holding, Exclusive, InLock, RowOf, Synced
<1>7. ASSUME NEW o \in Owners, Crash(o) PROVE Holding' /\ Exclusive'
  <2>1. \A u \in Threads : InLock(u)' => ProcessOf[u] # o /\ sync'[u] = sync[u]
    BY <1>7 DEF Crash, InLock, NotSyncing
  <2> QED
    BY <1>7, <2>1 DEF Crash, Holding, Exclusive, InLock, RowOf, Synced
<1>8. CASE Expire
  <2>1. ASSUME NEW u \in Threads, InLock(u) PROVE RowOf(u) \in locks'
    BY <1>8, <2>1 DEF Expire, LockExpires, Holding, RowOf
  <2> QED
    BY <1>8, <2>1 DEF Expire, Holding, Exclusive, InLock, RowOf, Synced
<1> QED
  BY <1>1, <1>2, <1>3, <1>4, <1>5, <1>6, <1>7, <1>8 DEF StatusNext, SyncStep

-----------------------------------------------------------------------------
\* Labels are edited by the one thread that read them under the lock.
LEMMA LabelStep ==
  ASSUME StatusTypeOK, Exclusive, LabelsKnown, OneStateLabel, [StatusNext]_syncVars
  PROVE  LabelsKnown' /\ OneStateLabel'
<1> USE StatusAssumption
<1>1. CASE UNCHANGED syncVars
  BY <1>1 DEF syncVars, LabelsKnown, OneStateLabel, AtSync, Synced
<1>2. ASSUME NEW t \in Threads, EditLabels(t) PROVE LabelsKnown' /\ OneStateLabel'
  <2> DEFINE want == {Desired(sync[t].state)} j == Synced(t)
  <2>1. j \in Jobs
    BY <1>2, StepRecords DEF EditLabels, AtSync, StatusTypeOK
  <2>2. sync[t].labels = shown[j]
    BY <1>2 DEF EditLabels, LabelsKnown
  <2>3. shown' = [shown EXCEPT ![j] = want]
    BY <1>2, <2>1, <2>2 DEF EditLabels, StatusTypeOK, TablesOK
  <2>4. OneStateLabel'
    BY <2>1, <2>3 DEF OneStateLabel, StatusTypeOK, TablesOK
  <2>5. \A u \in Threads : u # t => sync'[u] = sync[u]
    BY <1>2 DEF EditLabels, SyncGoto, StatusTypeOK, SyncOK
  <2>6. sync'[t].pc = "find"
    BY <1>2 DEF EditLabels, SyncGoto, Fresh, NotSyncing, StatusTypeOK, SyncOK
  <2>7. \A u \in Threads : u # t /\ AtSync(u, "edit") => Synced(u) # j
    BY <1>2 DEF Exclusive, InLock, AtSync, EditLabels
  <2> QED
    BY <2>1, <2>3, <2>4, <2>5, <2>6, <2>7 DEF LabelsKnown, AtSync, Synced, StatusTypeOK, TablesOK
<1>3. ASSUME NEW t \in Threads, ReadLabels(t) PROVE LabelsKnown' /\ OneStateLabel'
  <2>1. \A u \in Threads : u # t => sync'[u] = sync[u]
    BY <1>3 DEF ReadLabels, SyncGoto, StatusTypeOK, SyncOK
  <2>2. sync'[t].pc = "edit" => sync'[t].labels = shown[Synced(t)] /\ sync'[t].job = Synced(t)
    <3>1. sync \in [Threads -> SyncRecord]
      BY DEF StatusTypeOK, SyncOK
    <3>2. Fresh(t, "unlock").pc = "unlock"
      BY DEF Fresh, NotSyncing
    <3> QED
      BY <1>3, <3>1, <3>2 DEF ReadLabels, SyncGoto, SyncRecord, Synced
  <2> QED
    BY <1>3, <2>1, <2>2 DEF ReadLabels, LabelsKnown, OneStateLabel, AtSync, Synced, github
<1>4. ASSUME NEW t \in Threads,
             CallSync(t) \/ SyncLock(t) \/ FindComment(t) \/ PatchComment(t) \/ PostComment(t)
               \/ StoreCommentId(t) \/ SyncFails(t) \/ Unlock(t)
      PROVE  LabelsKnown' /\ OneStateLabel'
  <2>1. UNCHANGED shown
    BY <1>4 DEF CallSync, SyncLock, FindComment, PatchComment, PostComment, StoreCommentId,
                SyncFails, Unlock, github
  <2>2. \A u \in Threads : u # t => sync'[u] = sync[u]
    BY <1>4 DEF CallSync, SyncLock, FindComment, PatchComment, PostComment, StoreCommentId,
                SyncFails, Unlock, SyncGoto, StatusTypeOK, SyncOK
  <2>3. sync'[t].pc # "edit"
    <3>1. Fresh(t, "unlock").pc = "unlock" /\ NotSyncing.pc = "idle"
      BY DEF Fresh, NotSyncing
    <3>2. sync \in [Threads -> SyncRecord]
      BY DEF StatusTypeOK, SyncOK
    <3>3. CASE CallSync(t)
      BY <3>2, <3>3 DEF CallSync, NotSyncing
    <3>4. CASE SyncLock(t)
      BY <3>1, <3>2, <3>4 DEF SyncLock, SyncRecord
    <3>5. CASE FindComment(t) \/ Unlock(t)
      BY <3>1, <3>2, <3>5 DEF FindComment, Unlock, SyncGoto, SyncRecord
    <3>6. CASE PatchComment(t) \/ PostComment(t)
      BY <3>1, <3>2, <3>6 DEF PatchComment, PostComment, SyncGoto, SyncRecord
    <3>7. CASE StoreCommentId(t) \/ SyncFails(t)
      BY <3>1, <3>2, <3>7 DEF StoreCommentId, SyncFails, SyncGoto
    <3> QED
      BY <1>4, <3>3, <3>4, <3>5, <3>6, <3>7
  <2> QED
    BY <2>1, <2>2, <2>3 DEF LabelsKnown, OneStateLabel, AtSync, Synced
<1>5. ASSUME NEW j \in Jobs, OpenOrClose(j) \/ DeleteComment(j) PROVE LabelsKnown' /\ OneStateLabel'
  BY <1>5 DEF OpenOrClose, DeleteComment, LabelsKnown, OneStateLabel, AtSync, Synced
<1>6. ASSUME NEW o \in Owners, Crash(o) PROVE LabelsKnown' /\ OneStateLabel'
  <2>1. \A u \in Threads : sync'[u] = sync[u] \/ sync'[u].pc = "idle"
    BY <1>6 DEF Crash, NotSyncing
  <2> QED
    BY <1>6, <2>1 DEF Crash, LabelsKnown, OneStateLabel, AtSync, Synced, github
<1>7. CASE Expire
  BY <1>7 DEF Expire, LabelsKnown, OneStateLabel, AtSync, Synced, github
<1> QED
  BY <1>1, <1>2, <1>3, <1>4, <1>5, <1>6, <1>7 DEF StatusNext, SyncStep

\* A comment is posted by the one thread that found none under the lock.
LEMMA CommentStep ==
  ASSUME StatusTypeOK, Exclusive, NoneKnown, OneStatusComment, [StatusNext]_syncVars
  PROVE  NoneKnown' /\ OneStatusComment'
<1> USE StatusAssumption
<1>1. CASE UNCHANGED syncVars
  BY <1>1 DEF syncVars, NoneKnown, OneStatusComment, AtSync, Synced
<1>2. ASSUME NEW t \in Threads, PostComment(t) PROVE NoneKnown' /\ OneStatusComment'
  <2> DEFINE j == Synced(t)
  <2>1. j \in Jobs
    BY <1>2, StepRecords DEF PostComment, AtSync, StatusTypeOK
  <2>2. PICK c \in CommentIds : posted' = [posted EXCEPT ![j] = @ \cup {c}]
    BY <1>2 DEF PostComment
  <2>3. posted[j] = {}
    BY <1>2 DEF PostComment, NoneKnown
  <2>4. OneStatusComment'
    BY <2>1, <2>2, <2>3 DEF OneStatusComment, StatusTypeOK, TablesOK
  <2>5. \A u \in Threads : u # t => sync'[u] = sync[u]
    BY <1>2 DEF PostComment, SyncGoto, StatusTypeOK, SyncOK
  <2>6. sync'[t].pc # "post"
    <3>1. Fresh(t, "unlock").pc = "unlock" /\ sync \in [Threads -> SyncRecord]
      BY DEF Fresh, NotSyncing, StatusTypeOK, SyncOK
    <3> QED
      BY <1>2, <3>1 DEF PostComment, SyncGoto, SyncRecord
  <2>7. \A u \in Threads : u # t /\ AtSync(u, "post") => Synced(u) # j
    BY <1>2 DEF Exclusive, InLock, AtSync, PostComment
  <2> QED
    BY <2>1, <2>2, <2>4, <2>5, <2>6, <2>7 DEF NoneKnown, AtSync, Synced, StatusTypeOK, TablesOK
<1>3. ASSUME NEW t \in Threads, FindComment(t) PROVE NoneKnown' /\ OneStatusComment'
  <2>1. \A u \in Threads : u # t => sync'[u] = sync[u]
    BY <1>3 DEF FindComment, SyncGoto, StatusTypeOK, SyncOK
  <2>2. /\ sync'[t].job = Synced(t)
        /\ sync'[t].pc = "post" /\ sync'[t].id = None => posted[Synced(t)] = {}
    <3>1. /\ Fresh(t, "unlock").pc = "unlock" /\ Fresh(t, "unlock").job = Synced(t)
          /\ sync \in [Threads -> SyncRecord]
      BY DEF Fresh, NotSyncing, StatusTypeOK, SyncOK
    <3> QED
      BY <1>3, <3>1 DEF FindComment, SyncGoto, SyncRecord, Synced
  <2> QED
    BY <1>3, <2>1, <2>2 DEF FindComment, NoneKnown, OneStatusComment, AtSync, Synced, github
<1>4. ASSUME NEW t \in Threads,
             CallSync(t) \/ SyncLock(t) \/ ReadLabels(t) \/ EditLabels(t) \/ PatchComment(t)
               \/ StoreCommentId(t) \/ SyncFails(t) \/ Unlock(t)
      PROVE  NoneKnown' /\ OneStatusComment'
  <2>1. UNCHANGED posted
    BY <1>4 DEF CallSync, SyncLock, ReadLabels, EditLabels, PatchComment, StoreCommentId,
                SyncFails, Unlock, github
  <2>2. \A u \in Threads : u # t => sync'[u] = sync[u]
    BY <1>4 DEF CallSync, SyncLock, ReadLabels, EditLabels, PatchComment, StoreCommentId,
                SyncFails, Unlock, SyncGoto, StatusTypeOK, SyncOK
  <2>3. sync'[t].pc # "post"
    <3>1. /\ Fresh(t, "unlock").pc = "unlock" /\ Fresh(t, "find").pc = "find"
          /\ NotSyncing.pc = "idle"
      BY DEF Fresh, NotSyncing
    <3>2. sync \in [Threads -> SyncRecord]
      BY DEF StatusTypeOK, SyncOK
    <3>3. CASE CallSync(t)
      BY <3>2, <3>3 DEF CallSync, NotSyncing
    <3>4. CASE SyncLock(t)
      BY <3>1, <3>2, <3>4 DEF SyncLock, SyncRecord
    <3>5. CASE ReadLabels(t) \/ EditLabels(t) \/ Unlock(t)
      BY <3>1, <3>2, <3>5 DEF ReadLabels, EditLabels, Unlock, SyncGoto, SyncRecord
    <3>6. CASE PatchComment(t)
      BY <3>1, <3>2, <3>6 DEF PatchComment, SyncGoto, SyncRecord
    <3>7. CASE StoreCommentId(t) \/ SyncFails(t)
      BY <3>1, <3>2, <3>7 DEF StoreCommentId, SyncFails, SyncGoto
    <3> QED
      BY <1>4, <3>3, <3>4, <3>5, <3>6, <3>7
  <2> QED
    BY <2>1, <2>2, <2>3 DEF NoneKnown, OneStatusComment, AtSync, Synced
<1>5. ASSUME NEW j \in Jobs, OpenOrClose(j) \/ DeleteComment(j) PROVE NoneKnown' /\ OneStatusComment'
  <2>1. \A k \in Jobs : posted'[k] \subseteq posted[k]
    BY <1>5 DEF OpenOrClose, DeleteComment, StatusTypeOK, TablesOK
  <2>2. UNCHANGED sync
    BY <1>5 DEF OpenOrClose, DeleteComment
  <2>3. \A u \in Threads : AtSync(u, "post") => Synced(u) \in Jobs
    BY DEF StatusTypeOK, SyncOK, CallOK, AtSync, Synced
  <2> QED
    BY <2>1, <2>2, <2>3 DEF NoneKnown, OneStatusComment, AtSync, Synced
<1>6. ASSUME NEW o \in Owners, Crash(o) PROVE NoneKnown' /\ OneStatusComment'
  <2>1. \A u \in Threads : sync'[u] = sync[u] \/ sync'[u].pc = "idle"
    BY <1>6 DEF Crash, NotSyncing
  <2> QED
    BY <1>6, <2>1 DEF Crash, NoneKnown, OneStatusComment, AtSync, Synced, github
<1>7. CASE Expire
  BY <1>7 DEF Expire, NoneKnown, OneStatusComment, AtSync, Synced, github
<1> QED
  BY <1>1, <1>2, <1>3, <1>4, <1>5, <1>6, <1>7 DEF StatusNext, SyncStep

-----------------------------------------------------------------------------
LEMMA InvStep == StatusInv /\ [StatusNext]_syncVars => StatusInv'
  BY TypeStep, HoldStep, LabelStep, CommentStep DEF StatusInv

LEMMA StatusSafe == StatusSpec => []StatusInv
  BY InitHolds, InvStep, PTL DEF StatusSpec

\* Rows, issues, locks and threads keep their domains, for any jobs, threads and
\* processes: the columns and variables _sync_status reads and writes.
THEOREM StatusTypeCorrect == StatusSpec => []StatusTypeOK
<1>1. StatusInv => StatusTypeOK
  BY DEF StatusInv
<1> QED
  BY <1>1, StatusSafe, PTL

\* update_status_comment never posts a second status comment, for any number of
\* processes and threads that update the issue at once, crash or lose answers.
THEOREM StatusCommentUnique == StatusSpec => []OneStatusComment
<1>1. StatusInv => OneStatusComment
  BY DEF StatusInv
<1> QED
  BY <1>1, StatusSafe, PTL

\* set_state_labels never leaves two state labels on an issue, though it edits
\* the difference to labels read earlier.
THEOREM StateLabelUnique == StatusSpec => []OneStateLabel
<1>1. StatusInv => OneStateLabel
  BY DEF StatusInv
<1> QED
  BY <1>1, StatusSafe, PTL
=============================================================================
