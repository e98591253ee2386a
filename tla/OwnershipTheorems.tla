------------------------- MODULE OwnershipTheorems -------------------------
(***************************************************************************)
(* Who holds a job, and which conversation still writes for it, for any    *)
(* number of processes, workers, jobs and keys.  Most results are about a  *)
(* calm service (see Calm): each of its conditions is one without which    *)
(* TLC finds some of them broken.  Within them a worker keeps its lease    *)
(* from the claim to the transition that releases it, unless the job is    *)
(* canceled or merged under it, and then its later writes come to nothing. *)
(***************************************************************************)
EXTENDS ServiceTheorems

USE DEF QUEUED, RUNNING, NEEDS_GUIDANCE, PR_OPEN, REVIEWING, BLOCKED, FAILED,
        CANCELED, DONE, Absent

(* Conditions on the constants.                                            *)

\* Nobody reports issues while the service runs; or one control-plane thread
\* does everything, every provider can run, and there is nothing on GitHub
\* that intake would have to adopt or refuse after it inserted a claimable row.
QuietIntake ==
  Reports =>
    /\ \A t, u \in Threads : t = u
    /\ Found = {"nothing"}
    /\ "provider" \notin Faults

\* No process crashes; or there are two, with one control-plane thread each,
\* so that after a crash the thread that recovers is the only one left.
RecoveryAlone ==
  "crash" \in Faults =>
    \A t, u \in Threads :
      t # u => ProcessOf[t] # ProcessOf[u] /\ Owners = {ProcessOf[t], ProcessOf[u]}

\* Besides, no process outlives its leases in a stall, and operators pause and
\* cancel.  Everything else may fail, and humans may edit and merge.
Calm ==
  /\ "stall" \notin Faults
  /\ CommandsIn \subseteq {"pause", "cancel"}
  /\ QuietIntake
  /\ RecoveryAlone

\* Three more, for single results.
LegacyBounded == \A n \in LegacyAttempts : n <= MaxAttempts
Polled == "poll" \notin Faults
Unmerged == "merge" \notin Edits
Undisturbed == Polled /\ Unmerged /\ "crash" \notin Faults
-----------------------------------------------------------------------------
(* What a worker may find.                                                 *)

Publishing == {"push", "pullRequest", "createPr", "openPr"}
AfterReview == {"reviewPost", "repairLaunch", "repairPush", "reviewAgain"}
Looks == {"lease", "guard", "observed"}

Early(r) ==
  \/ r.pc \in {"preflight", "lookup", "adopt", "adopted", "health", "setup", "launch", "begin",
               "wait", "record", "result", "validate", "correct", "commit", "labelPr",
               "recordPr"} \cup Publishing
  \/ r.pc \in Looks /\ r.then \in Publishing
Between(r) ==
  \/ r.pc \in {"opened", "review", "reviewing"}
  \/ r.pc \in Looks /\ r.then = "reviewing"
Late(r) ==
  \/ r.pc \in {"reviewLaunch", "reviewWait", "repairRecord", "repairWait",
               "repairValidate"} \cup AfterReview
  \/ r.pc \in Looks /\ r.then \in AfterReview

Held == {RUNNING, PR_OPEN, REVIEWING}
Over == {CANCELED, DONE}
Ended == IF Unmerged THEN {} ELSE Over

\* The states in which a worker with the locals r may find its job.
Expects(r, s) ==
  /\ s \in Held \cup Over
  /\ r.pc \in Looks => r.then \in Guarded
  /\ Early(r) => s = RUNNING
  /\ Between(r) => s # RUNNING
  /\ Late(r) => s \in {REVIEWING} \cup Ended
  /\ r.pc = "providerError" => s \in {RUNNING, REVIEWING} \cup Ended
  /\ r.pc = "stop" => r.to = PR_OPEN \/ s = RUNNING
  /\ r.pc = "leave" => \/ r.to = PR_OPEN
                       \/ r.to = QUEUED /\ s \in {RUNNING} \cup Ended
                       \/ r.to \in {NEEDS_GUIDANCE, FAILED} /\ s \in {RUNNING} \cup Over

Claimed == {"preflight", "lookup", "health"}
Admitted == {"setup", "launch", "begin"}
Running == {"wait", "record", "result", "validate", "correct"}
Accepted == Claimed \cup Admitted \cup Running \cup {"commit"}
Writing == {"begin", "wait", "repairRecord", "repairWait"}

\* The conversations cs of its job that write are none but its own.
Still(row, cs) == (Polled => row.conv \notin cs) /\ (Undisturbed => cs = {})

LocalOK(r, row, cs) ==
  /\ Expects(r, row.state)
  /\ r.pc \in Claimed => row.attempt <= r.seen.attempt
  /\ r.pc \in Admitted => row.attempt < MaxAttempts
  /\ r.pc \in Accepted => row.content = r.seen.content
  /\ Polled /\ r.pc \in Running \cup {"repairWait"} => row.conv = r.run
  /\ Polled /\ r.pc = "repairRecord" => row.conv \notin cs
  /\ Polled /\ r.pc = "repairWait" /\ row.state = REVIEWING => row.repair
  /\ r.pc \notin Writing => Still(row, cs)
  /\ Undisturbed /\ r.pc \in Writing => cs \subseteq {r.run}
-----------------------------------------------------------------------------
(* The invariant.                                                          *)

\* A worker from its claim to the transition that ends its run.
Holder(w) == worker[w].pc \notin {"idle", "finish"}

\* It knows what it may find, and it has a live lease unless the job is over.
HolderOK(w) ==
  Holder(w) =>
    /\ LocalOK(worker[w], job[Mine(w)], running[Mine(w)])
    /\ job[Mine(w)].state \notin Over =>
         Renewable(Mine(w), OwnerOf[w]) /\ worker[w].beat # "off"

Apart == \A v, w \in Workers : Holder(v) /\ Holder(w) /\ Mine(v) = Mine(w) => v = w

JobOK(j) ==
  /\ job[j].state = QUEUED => LeasesOf(j) = {}
  /\ job[j].state = REVIEWING => LeasesOf(j) # {}
  /\ LegacyBounded => job[j].attempt <= MaxAttempts
  /\ Polled /\ job[j].state = QUEUED => job[j].conv \notin running[j]
  /\ Polled /\ job[j].state = REVIEWING /\ ~job[j].repair => job[j].conv \notin running[j]
  /\ Undisturbed /\ running[j] # {} =>
       \E w \in Workers : Mine(w) = j /\ worker[w].pc \in Writing
  /\ Unmerged => pull[j] # "merged"
  /\ Found = {"nothing"} /\ ~Exists(j) => pull[j] = "none" /\ branch[j] = "none"

\* Leases of living processes have a holder; the others expire.
LeaseOK(l) ==
  /\ ~l.live => l.owner \notin up
  /\ l.owner \in up => \E w \in Workers : Holder(w) /\ Mine(w) = l.job /\ OwnerOf[w] = l.owner
  /\ l.key = job[l.job].route.key

Recovering == {"recover", "giveUp", "reap", "requeue"}
Taking == {"decide", "skip", "update", "halt", "lookUp", "create"}
Idling == {"idle", "dead", "merged", "request", "labels", "interrupt"}

\* What a control-plane thread does: recovery has the job to itself.
ThreadCalm(t) ==
  LET r == thread[t] j == thread[t].job IN
  /\ r.pc \in Idling \cup Recovering \cup Taking
  /\ ProcessOf[t] \notin up => r.pc = "dead"
  /\ r.pc \in {"request", "labels"} => r.cmd \in {"pause", "cancel"}
  /\ r.pc = "labels" => r.then \in {"idle", "interrupt"}
  /\ r.pc = "merged" => ~Unmerged
  /\ r.pc \in Taking => Reports
  /\ r.pc \in {"lookUp", "create"} => ~Exists(j)
  /\ r.pc = "create" => r.then = "idle"
  /\ r.pc \in Recovering => \A u \in Threads : u # t => thread[u].pc = "dead"
  /\ r.pc \in {"recover", "giveUp", "reap"} => j \in ExpiredJobs
  /\ r.pc = "recover" => r.row = Read(j)
  /\ r.pc = "requeue" => job[j].state = PR_OPEN /\ LeasesOf(j) = {}
  /\ Polled /\ r.pc \in {"reap", "requeue"} => job[j].conv \notin running[j]

NoneCrashed == "crash" \notin Faults => up = Owners

OwnershipInv ==
  /\ NoneCrashed
  /\ \A w \in Workers : HolderOK(w)
  /\ Apart
  /\ \A j \in Jobs : JobOK(j)
  /\ \A l \in leases : LeaseOK(l)
  /\ \A t \in Threads : ThreadCalm(t)

\* All of it but for the control-plane threads.
Core ==
  /\ NoneCrashed
  /\ \A w \in Workers : HolderOK(w)
  /\ Apart
  /\ \A j \in Jobs : JobOK(j)
  /\ \A l \in leases : LeaseOK(l)

Owned == ServiceInv /\ LeaseInv /\ LeaseTable /\ OwnershipInv
-----------------------------------------------------------------------------
(* What a step of a worker does to its locals and to its row.              *)

USE DEF Publishing, AfterReview, Looks, Claimed, Admitted, Running, Accepted, Writing

Moved(w, pc, seen, run, then, to) ==
  LET n == worker'[w] IN
  /\ n.pc = pc /\ n.job = Mine(w) /\ n.seen = seen /\ n.run = run
  /\ n.then = then /\ n.to = to /\ n.beat = worker[w].beat

LEMMA GotoMoves ==
  ASSUME NEW w \in Workers, ServiceInv, NEW pc \in Phases,
         worker' = [worker EXCEPT ![w] = [worker[w] EXCEPT !.pc = pc]]
  PROVE  Moved(w, pc, worker[w].seen, worker[w].run, worker[w].then, worker[w].to)
<1> DEFINE r == worker[w]
           n == [r EXCEPT !.pc = pc]
<1>1. r \in WorkerRow /\ worker \in [Workers -> WorkerRow] /\ Mine(w) = r.job
  BY DEF ServiceInv, LocalsOK, Mine
<1>2. worker'[w] = n
  BY <1>1
<1> HIDE DEF r
<1>3. /\ n.pc = pc /\ n.job = r.job /\ n.seen = r.seen /\ n.run = r.run
      /\ n.then = r.then /\ n.to = r.to /\ n.beat = r.beat
  BY <1>1 DEF WorkerRow
<1> HIDE DEF n
<1>4. QED
  BY <1>1, <1>2, <1>3 DEF Moved, r

LEMMA SawMoves ==
  ASSUME NEW w \in Workers, ServiceInv, NEW pc \in Phases, Saw(w, pc)
  PROVE  Moved(w, pc, Returned(Mine(w)), worker[w].run, worker[w].then, worker[w].to)
<1> DEFINE r == worker[w]
           seen == Returned(Mine(w))
           n == [r EXCEPT !.pc = pc, !.seen = seen]
<1>1. r \in WorkerRow /\ worker \in [Workers -> WorkerRow] /\ Mine(w) = r.job
  BY DEF ServiceInv, LocalsOK, Mine
<1>2. worker'[w] = n
  BY <1>1 DEF Saw
<1> HIDE DEF r, seen
<1>3. /\ n.pc = pc /\ n.job = r.job /\ n.seen = seen /\ n.run = r.run
      /\ n.then = r.then /\ n.to = r.to /\ n.beat = r.beat
  BY <1>1 DEF WorkerRow
<1> HIDE DEF n
<1>4. QED
  BY <1>1, <1>2, <1>3 DEF Moved, r, seen

LEMMA PlannedMoves ==
  ASSUME NEW w \in Workers, ServiceInv, NEW pc, NEW to,
         worker' = [worker EXCEPT ![w] = Planned(w, pc, to)]
  PROVE  Moved(w, pc, None, None, "idle", to)
<1> DEFINE n == Planned(w, pc, to)
<1>1. worker'[w] = n
  BY DEF ServiceInv, LocalsOK
<1>2. /\ n.pc = pc /\ n.job = Mine(w) /\ n.seen = None /\ n.run = None
      /\ n.then = "idle" /\ n.to = to /\ n.beat = worker[w].beat
  BY DEF Planned, Idle
<1> HIDE DEF n
<1>3. QED
  BY <1>1, <1>2 DEF Moved

LEMMA OtherMoves ==
  ASSUME NEW w \in Workers, ServiceInv
  PROVE  LET r == worker[w] sees == Returned(Mine(w)) IN
         /\ \A pc, allow : worker' = [worker EXCEPT ![w] = Checking(w, pc, allow)] =>
              Moved(w, "lease", r.seen, r.run, pc, r.to)
         /\ \A pc : worker' = [worker EXCEPT ![w] = Rechecking(w, pc)] =>
              Moved(w, "lease", sees, r.run, pc, r.to)
         /\ \A pc : worker' = [worker EXCEPT ![w] = Adopting(w, pc)] =>
              Moved(w, pc, sees, r.run, r.then, r.to)
         /\ worker' = [worker EXCEPT ![w] = Correcting(w)] =>
              Moved(w, "correct", sees, r.run, r.then, r.to)
         /\ \A c : worker' = [worker EXCEPT ![w] = Launching(w, c)] =>
              Moved(w, "begin", r.seen, c, r.then, r.to)
         /\ worker' = [worker EXCEPT ![w] = Passing(w)] =>
              Moved(w, r.then, r.seen, r.run, "idle", r.to)
         /\ worker' = [worker EXCEPT ![w] = Recording(w)] =>
              Moved(w, "observed", sees, r.run, "openPr", r.to)
         /\ worker' = [worker EXCEPT ![w] = Counting(w)] =>
              Moved(w, "guard", r.seen, r.run, "repairLaunch", r.to)
         /\ \A c : worker' = [worker EXCEPT ![w] = Repairing(w, c)] =>
              Moved(w, "repairRecord", r.seen, c, r.then, r.to)
         /\ worker' = [worker EXCEPT ![w] = Observing(w)] =>
              Moved(w, "observed", r.seen, r.run, "reviewAgain", r.to)
<1> DEFINE r == worker[w]
           sees == Returned(Mine(w))
<1>1. r \in WorkerRow /\ worker \in [Workers -> WorkerRow] /\ Mine(w) = r.job
  BY DEF ServiceInv, LocalsOK, Mine
<1>2. \A n : worker' = [worker EXCEPT ![w] = n] => worker'[w] = n
  BY <1>1
<1> HIDE DEF sees
<1>3. ASSUME NEW pc, NEW allow, worker'[w] = Checking(w, pc, allow)
      PROVE  Moved(w, "lease", r.seen, r.run, pc, r.to)
  BY <1>1, <1>3 DEF Moved, Checking, WorkerRow
<1>4. ASSUME NEW pc, worker'[w] = Rechecking(w, pc)
      PROVE  Moved(w, "lease", sees, r.run, pc, r.to)
  BY <1>1, <1>4 DEF Moved, Rechecking, Checking, WorkerRow, sees
<1>5. ASSUME NEW pc, worker'[w] = Adopting(w, pc)
      PROVE  Moved(w, pc, sees, r.run, r.then, r.to)
  BY <1>1, <1>5 DEF Moved, Adopting, WorkerRow, sees
<1>6. ASSUME worker'[w] = Correcting(w)
      PROVE  Moved(w, "correct", sees, r.run, r.then, r.to)
  BY <1>1, <1>6 DEF Moved, Correcting, WorkerRow, sees
<1>7. ASSUME NEW c, worker'[w] = Launching(w, c)
      PROVE  Moved(w, "begin", r.seen, c, r.then, r.to)
  BY <1>1, <1>7 DEF Moved, Launching, WorkerRow
<1>8. ASSUME worker'[w] = Passing(w)
      PROVE  Moved(w, r.then, r.seen, r.run, "idle", r.to)
  BY <1>1, <1>8 DEF Moved, Passing, WorkerRow
<1>9. ASSUME worker'[w] = Recording(w)
      PROVE  Moved(w, "observed", sees, r.run, "openPr", r.to)
  BY <1>1, <1>9 DEF Moved, Recording, WorkerRow, sees
<1>10. ASSUME worker'[w] = Counting(w)
       PROVE  Moved(w, "guard", r.seen, r.run, "repairLaunch", r.to)
  BY <1>1, <1>10 DEF Moved, Counting, WorkerRow
<1>11. ASSUME NEW c, worker'[w] = Repairing(w, c)
       PROVE  Moved(w, "repairRecord", r.seen, c, r.then, r.to)
  BY <1>1, <1>11 DEF Moved, Repairing, WorkerRow
<1>12. ASSUME worker'[w] = Observing(w)
       PROVE  Moved(w, "observed", r.seen, r.run, "reviewAgain", r.to)
  BY <1>1, <1>12 DEF Moved, Observing, WorkerRow
<1>13. QED
  BY <1>2, <1>3, <1>4, <1>5, <1>6, <1>7, <1>8, <1>9, <1>10, <1>11, <1>12, Zenon DEF sees

LEMMA ReturnedFacts ==
  ASSUME NEW j
  PROVE  Returned(j).attempt = job'[j].attempt /\ Returned(j).content = job'[j].content
<1> DEFINE owner == IF {l \in leases' : l.job = j} = {} THEN None
                    ELSE (CHOOSE l \in {l \in leases' : l.job = j} : TRUE).owner
<1>1. Returned(j) = [attempt |-> job'[j].attempt, conv |-> job'[j].conv, pr |-> job'[j].pr,
                     route |-> job'[j].route, content |-> job'[j].content, owner |-> owner]
  BY DEF Returned, View
<1> HIDE DEF owner
<1>2. QED
  BY <1>1

\* The row keeps the columns ownership is about, and the lease stays.
RowKept(j) ==
  /\ leases' = leases
  /\ job'[j].state = job[j].state /\ job'[j].attempt = job[j].attempt
  /\ job'[j].conv = job[j].conv /\ job'[j].route = job[j].route
  /\ job'[j].content = job[j].content

\* The calls of which that is true.
Notes(j) ==
  \/ UNCHANGED storeVars \/ RecordPr(j) \/ (\E c : RecordReview(j, c))
  \/ (\E b : RecordPhase(j, b)) \/ (\E p : SetProviderBackoff(p))

LEMMA RowFacts ==
  ASSUME StoreTypeOK, NEW j \in Jobs, Notes(j)
  PROVE  RowKept(j)
<1> DEFINE row == job[j]
<1>1. row \in JobRow /\ job \in [Jobs -> JobRow]
  BY DEF StoreTypeOK
<1>2. CASE UNCHANGED storeVars \/ (\E p : SetProviderBackoff(p))
  BY <1>2 DEF RowKept, storeVars, SetProviderBackoff
<1>3. CASE RecordPr(j)
  <2>1. leases' = leases /\ job'[j] = [row EXCEPT !.pr = TRUE]
    BY <1>1, <1>3 DEF RecordPr, Put
  <2>2. QED
    BY <1>1, <2>1 DEF RowKept, JobRow
<1>4. ASSUME NEW c, RecordReview(j, c) PROVE RowKept(j)
  <2>1. leases' = leases /\ job'[j] = [row EXCEPT !.rconv = c]
    BY <1>1, <1>4 DEF RecordReview, Put
  <2>2. QED
    BY <1>1, <2>1 DEF RowKept, JobRow
<1>5. ASSUME NEW b, RecordPhase(j, b) PROVE RowKept(j)
  <2>1. ASSUME NEW again, job'[j] = [row EXCEPT !.repair = FALSE, !.retry = again],
               leases' = leases
        PROVE  RowKept(j)
    BY <1>1, <2>1 DEF RowKept, JobRow
  <2>2. leases' = leases /\ job'[j] = [row EXCEPT !.repair = FALSE, !.retry = @ /\ ~b]
    BY <1>1, <1>5 DEF RecordPhase, Put
  <2>3. QED
    BY <2>1, <2>2, Zenon
<1>6. QED
  BY <1>2, <1>3, <1>4, <1>5 DEF Notes

\* A worker in the middle of its run goes on, and keeps the lease.
Works(w) ==
  LET j == Mine(w) n == worker'[w] IN
  /\ n.pc \notin {"idle", "finish"} /\ n.job = j /\ n.beat = worker[w].beat
  /\ LocalOK(n, job'[j], running'[j])
  /\ leases' = leases
  /\ job'[j].state \in Over <=> job[j].state \in Over
  /\ job'[j].route = job[j].route
  /\ job'[j].attempt = job[j].attempt \/ job'[j].attempt <= MaxAttempts

\* Or it comes to its end, and gives the lease up, or had lost the job.
Quits(w) ==
  LET j == Mine(w) n == worker'[w] IN
  /\ n.pc = "finish" /\ n.job = j
  /\ worker[w].pc \notin Writing /\ running'[j] = running[j]
  /\ job'[j].route = job[j].route /\ job'[j].attempt = job[j].attempt
  /\ job'[j].conv = job[j].conv
  /\ \/ leases' = WithoutLeaseOf(j) /\ job'[j].state \notin {REVIEWING, Absent}
     \/ leases' = leases /\ job[j].state \in Over /\ job'[j].state = job[j].state

Acting(w) == Owned /\ Holder(w)
Calmly(w) == RowKept(Mine(w)) /\ running'[Mine(w)] = running[Mine(w)]

LEMMA HolderFacts ==
  ASSUME NEW w \in Workers, Acting(w)
  PROVE  LET r == worker[w] j == Mine(w) IN
         /\ ServiceInv /\ j \in Jobs /\ j = r.job /\ r \in WorkerRow /\ WorkerOK(r)
         /\ LocalOK(r, job[j], running[j]) /\ Expects(r, job[j].state)
         /\ job[j] \in JobRow /\ running[j] \subseteq Convs
         /\ job[j].state \in {PR_OPEN, REVIEWING} => job[j].pr
<1> DEFINE r == worker[w]
           j == Mine(w)
<1>1. ServiceInv /\ j = r.job /\ r \in WorkerRow /\ WorkerOK(r)
  BY DEF Acting, Owned, ServiceInv, LocalsOK, Mine
<1>2. j \in Jobs
  BY <1>1 DEF Acting, Holder, WorkerOK
<1>3. LocalOK(r, job[j], running[j])
  BY DEF Acting, Owned, OwnershipInv, HolderOK
<1>4. job[j] \in JobRow /\ running[j] \subseteq Convs
  BY <1>1, <1>2 DEF ServiceInv, StoreTypeOK, ExternalsOK
<1>5. job[j].state \in {PR_OPEN, REVIEWING} => job[j].pr
  BY <1>1, <1>2 DEF ServiceInv, PublishedHasPr
<1>6. QED
  BY <1>1, <1>2, <1>3, <1>4, <1>5 DEF LocalOK

\* Elsewhere, a worker relies on the state of its job and on quiet only.
Relying == Accepted \cup {"repairRecord", "repairWait", "idle", "finish"}

USE DEF Relying

LEMMA PlainWorks ==
  ASSUME NEW w \in Workers, Acting(w), Calmly(w), worker[w].pc \notin Writing,
         NEW pc, pc \notin Relying, NEW seen, NEW run, NEW then, NEW to,
         Moved(w, pc, seen, run, then, to),
         Expects(worker'[w], job[Mine(w)].state)
  PROVE  Works(w)
<1>1. LocalOK(worker[w], job[Mine(w)], running[Mine(w)])
  BY HolderFacts
<1>2. LocalOK(worker'[w], job'[Mine(w)], running'[Mine(w)])
  BY <1>1 DEF LocalOK, Still, Moved, Calmly, RowKept
<1>3. QED
  BY <1>2 DEF Works, Moved, Calmly, RowKept

LEMMA NotesCalmly ==
  ASSUME NEW w \in Workers, Acting(w), Notes(Mine(w)), UNCHANGED running
  PROVE  Calmly(w)
  BY HolderFacts, RowFacts DEF Calmly, ServiceInv

\* The ways a run goes wrong or comes to an end.
LEMMA EndPhases ==
  ASSUME NEW r, r.pc \in {"stop", "leave", "providerError"} \cup Handlers
  PROVE  ~Early(r) /\ ~Between(r) /\ ~Late(r) /\ r.pc \notin Looks /\ r.pc \notin Relying
  BY DEF Handlers, Early, Between, Late

LEMMA StopWorks ==
  ASSUME NEW w \in Workers, Acting(w), Calmly(w), worker[w].pc \notin Writing, NEW to,
         worker' = [worker EXCEPT ![w] = Planned(w, "stop", to)],
         to = PR_OPEN \/ Early(worker[w])
  PROVE  Works(w)
<1> DEFINE n == worker'[w]
<1>0. Moved(w, "stop", None, None, "idle", to)
  BY HolderFacts, PlannedMoves
<1>1. n.pc = "stop" /\ n.to = to
  BY <1>0 DEF Moved
<1>2. ~Early(n) /\ ~Between(n) /\ ~Late(n) /\ n.pc \notin Looks /\ n.pc \notin Relying
  BY <1>1, EndPhases
<1> HIDE DEF n
<1>3. Expects(n, job[Mine(w)].state)
  BY <1>1, <1>2, HolderFacts DEF Expects
<1>4. QED
  BY <1>0, <1>1, <1>2, <1>3, PlainWorks DEF n

LEMMA LeaveWorks ==
  ASSUME NEW w \in Workers, Acting(w), Calmly(w), worker[w].pc \notin Writing,
         NEW to \in {PR_OPEN, QUEUED, NEEDS_GUIDANCE, FAILED},
         to = QUEUED => job[Mine(w)].state \in {RUNNING} \cup Ended,
         to \in {NEEDS_GUIDANCE, FAILED} => job[Mine(w)].state \in {RUNNING} \cup Over,
         worker' = [worker EXCEPT ![w] = Planned(w, "leave", to)]
  PROVE  Works(w)
<1> DEFINE n == worker'[w]
<1>0. Moved(w, "leave", None, None, "idle", to)
  BY HolderFacts, PlannedMoves
<1>1. n.pc = "leave" /\ n.to = to
  BY <1>0 DEF Moved
<1>2. ~Early(n) /\ ~Between(n) /\ ~Late(n) /\ n.pc \notin Looks /\ n.pc \notin Relying
  BY <1>1, EndPhases
<1> HIDE DEF n
<1>3. Expects(n, job[Mine(w)].state)
  BY <1>1, <1>2, HolderFacts DEF Expects
<1>4. QED
  BY <1>0, <1>1, <1>2, <1>3, PlainWorks DEF n

LEMMA ErrorWorks ==
  ASSUME NEW w \in Workers, Acting(w), Calmly(w), worker[w].pc \notin Writing,
         NEW pc \in {"staleError", "orchestratorError", "unexpectedError", "providerError"},
         pc = "providerError" => worker[w].pc \in ProviderCalls,
         Goto(w, pc)
  PROVE  Works(w)
<1> DEFINE n == worker'[w]
<1>0. Moved(w, pc, worker[w].seen, worker[w].run, worker[w].then, worker[w].to)
  BY HolderFacts, GotoMoves DEF Goto, Move, Phases
<1>1. n.pc = pc
  BY <1>0 DEF Moved
<1>2. ~Early(n) /\ ~Between(n) /\ ~Late(n) /\ n.pc \notin Looks /\ n.pc \notin Relying
  BY <1>1, EndPhases DEF Handlers
<1>3. worker[w].pc \notin ProviderCalls \/ Early(worker[w]) \/ Late(worker[w])
  BY DEF ProviderCalls, Early, Late
<1> HIDE DEF n
<1>4. Expects(n, job[Mine(w)].state)
  BY <1>1, <1>2, <1>3, HolderFacts DEF Expects
<1>5. QED
  BY <1>0, <1>1, <1>2, <1>4, PlainWorks DEF n

\* A phase reached on the main path.
LEMMA CalmWorks ==
  ASSUME NEW w \in Workers, Acting(w), Calmly(w),
         NEW pc, pc \notin {"idle", "finish"}, NEW seen, NEW run, NEW then, NEW to,
         Moved(w, pc, seen, run, then, to),
         LocalOK(worker'[w], job'[Mine(w)], running'[Mine(w)])
  PROVE  Works(w)
  BY DEF Works, Moved, Calmly, RowKept

LEMMA PreflightWorks ==
  ASSUME NEW w \in Workers, Acting(w), Preflight(w)
  PROVE  Works(w)
<1> DEFINE r == worker[w] n == worker'[w] j == Mine(w)
<1>1. r.pc = "preflight" /\ UNCHANGED running
  BY DEF Preflight, At, External
<1>2. Goto(w, "lookup") \/ Stop(w, NEEDS_GUIDANCE)
  BY DEF Preflight
<1>3. Calmly(w)
  BY <1>1, <1>2, NotesCalmly DEF Goto, Stop, Move, Notes
<1>4. CASE Stop(w, NEEDS_GUIDANCE)
  BY <1>1, <1>3, <1>4, StopWorks DEF Stop, Move, Early
<1>5. CASE Goto(w, "lookup")
  <2>1. Moved(w, "lookup", r.seen, r.run, r.then, r.to)
    BY <1>5, HolderFacts, GotoMoves DEF Goto, Move, Phases
  <2>2. LocalOK(n, job'[j], running'[j])
    BY <1>1, <1>3, <2>1, HolderFacts
       DEF Moved, Calmly, RowKept, LocalOK, Expects, Early, Between, Late, Still
  <2>3. QED
    BY <1>3, <2>1, <2>2, CalmWorks
<1>6. QED
  BY <1>2, <1>4, <1>5

\* A transition that keeps the lease; what is over stays over.
LEMMA OverStays ==
  ASSUME NEW j, job[j].state \in Over, NEW to, to # QUEUED, TransitionAllowed(j, to)
  PROVE  to = job[j].state
  BY DEF Over, TransitionAllowed, ALLOWED_TRANSITIONS, JobState

LEMMA KeepLeaseWorks ==
  ASSUME NEW w \in Workers, Acting(w), worker[w].pc \notin Writing, UNCHANGED running,
         NEW to, NEW next \in {"review", "opened", "reviewLaunch"},
         to = IF next = "reviewLaunch" THEN REVIEWING ELSE PR_OPEN,
         KeepLease(w, to, next)
  PROVE  Works(w)
<1> DEFINE r == worker[w] n == worker'[w] j == Mine(w)
<1>1. j \in Jobs /\ ServiceInv /\ job[j] \in JobRow /\ job \in [Jobs -> JobRow]
  BY HolderFacts DEF ServiceInv, StoreTypeOK
<1>2. CASE Goto(w, "orchestratorError")
  BY <1>2, NotesCalmly, ErrorWorks DEF Goto, Move, Notes
<1>3. CASE Transition(j, to, FALSE) /\ Saw(w, next)
  <2>1. job[j].state \notin Over
    BY <1>1, <1>3, OverStays DEF Transition, Over
  <2>2. /\ job'[j].state = to /\ job'[j].conv = job[j].conv /\ job'[j].route = job[j].route
        /\ job'[j].attempt = job[j].attempt /\ leases' = leases
    BY <1>1, <1>3 DEF Transition, Put, JobRow
  <2>3. Moved(w, next, Returned(j), r.run, r.then, r.to)
    BY <1>1, <1>3, SawMoves DEF Phases
  <2>4. LocalOK(r, job[j], running[j])
    BY HolderFacts
  <2>5. n.pc = next
    BY <2>3 DEF Moved
  <2>6. /\ next \notin Relying /\ ~Early(n) /\ next \notin Looks
        /\ Between(n) => to # RUNNING
        /\ Late(n) => to = REVIEWING
    BY <2>5 DEF Early, Between, Late
  <2>7. Expects(n, to)
    BY <2>5, <2>6 DEF Expects, Held
  <2>8. LocalOK(n, job'[j], running'[j])
    BY <2>2, <2>4, <2>5, <2>6, <2>7 DEF LocalOK, Still
  <2>9. QED
    BY <2>1, <2>2, <2>3, <2>8 DEF Works, Moved, Over
<1>4. QED
  BY <1>2, <1>3 DEF KeepLease

LEMMA LookupWorks ==
  ASSUME NEW w \in Workers, Acting(w), LookupPr(w) \/ Adopt(w) \/ Adopted(w)
  PROVE  Works(w)
<1> DEFINE r == worker[w] n == worker'[w] j == Mine(w)
<1>1. r.pc \in {"lookup", "adopt", "adopted"} /\ UNCHANGED running
  BY Zenon DEF LookupPr, Adopt, Adopted, At, External, KeepLease
<1>2. CASE LookupPr(w)
  <2>1. Calmly(w) /\ r.pc = "lookup"
    BY <1>1, <1>2, NotesCalmly DEF LookupPr, Goto, Move, Notes, At
  <2>2. \/ worker' = [worker EXCEPT ![w] = Adopting(w, "adopt")]
        \/ worker' = [worker EXCEPT ![w] = Adopting(w, "health")]
        \/ worker' = [worker EXCEPT ![w] = Planned(w, "stop", PR_OPEN)]
        \/ Goto(w, "health")
    BY <1>2, HolderFacts DEF LookupPr, Adopting, ServiceInv, LocalsOK
  <2>3. CASE worker' = [worker EXCEPT ![w] = Planned(w, "stop", PR_OPEN)]
    BY <2>1, <2>3, StopWorks
  <2>4. \A pc : worker' = [worker EXCEPT ![w] = Adopting(w, pc)] =>
                   Moved(w, pc, Returned(j), r.run, r.then, r.to)
    BY HolderFacts, OtherMoves, Zenon
  <2>5. ASSUME NEW pc \in {"adopt", "health"}, NEW seen, Moved(w, pc, seen, r.run, r.then, r.to),
               seen = Returned(j) \/ seen = r.seen
        PROVE  Works(w)
    <3>1. LocalOK(n, job'[j], running'[j])
      BY <2>1, <2>5, HolderFacts, ReturnedFacts
         DEF Moved, Calmly, RowKept, LocalOK, Expects, Early, Between, Late, Still, JobRow
    <3>2. QED
      BY <2>1, <2>5, <3>1, CalmWorks
  <2>6. CASE Goto(w, "health")
    BY <2>5, <2>6, HolderFacts, GotoMoves DEF Goto, Move, Phases
  <2>7. QED
    BY <2>2, <2>3, <2>4, <2>5, <2>6
<1>3. CASE Adopt(w)
  <2>1. Calmly(w) /\ r.pc = "adopt" /\ Saw(w, "adopted")
    BY <1>1, <1>3, NotesCalmly DEF Adopt, Notes, At
  <2>2. Moved(w, "adopted", Returned(j), r.run, r.then, r.to)
    BY <2>1, HolderFacts, SawMoves DEF Phases
  <2>3. LocalOK(n, job'[j], running'[j])
    BY <2>1, <2>2, HolderFacts
       DEF Moved, Calmly, RowKept, LocalOK, Expects, Early, Between, Late, Still
  <2>4. QED
    BY <2>1, <2>2, <2>3, CalmWorks
<1>4. CASE Adopted(w)
  BY <1>1, <1>4, KeepLeaseWorks DEF Adopted, At
<1>5. QED
  BY <1>2, <1>3, <1>4

LEMMA SetupWorks ==
  ASSUME NEW w \in Workers, Acting(w), Health(w) \/ Setup(w)
  PROVE  Works(w)
<1> DEFINE r == worker[w] n == worker'[w] j == Mine(w)
<1>1. CASE Health(w)
  <2>1. r.pc = "health" /\ Calmly(w)
    BY <1>1, NotesCalmly DEF Health, Stop, Goto, Move, Notes, At, External
  <2>2. \/ Goto(w, "setup") /\ r.seen.attempt < MaxAttempts
        \/ \E to : worker' = [worker EXCEPT ![w] = Planned(w, "stop", to)]
    <3>1. r.seen \in RowView
      BY <2>1, HolderFacts DEF WorkerOK, Rowless
    <3>2. r.seen.attempt < MaxAttempts \/ r.seen.attempt >= MaxAttempts
      BY <3>1, WorkerAssumption DEF RowView
    <3>3. QED
      BY <1>1, <3>2 DEF Health, Stop, Move
  <2>3. CASE Goto(w, "setup") /\ r.seen.attempt < MaxAttempts
    <3>1. Moved(w, "setup", r.seen, r.run, r.then, r.to)
      BY <2>3, HolderFacts, GotoMoves DEF Goto, Move, Phases
    <3>2. r.seen \in RowView
      BY <2>1, HolderFacts DEF WorkerOK, Rowless
    <3>3. job[j].attempt < MaxAttempts
      BY <2>1, <2>3, <3>2, HolderFacts, WorkerAssumption DEF LocalOK, JobRow, RowView
    <3>4. LocalOK(n, job'[j], running'[j])
      BY <2>1, <3>1, <3>3, HolderFacts
         DEF Moved, Calmly, RowKept, LocalOK, Expects, Early, Between, Late, Still
    <3>5. QED
      BY <2>1, <3>1, <3>4, CalmWorks
  <2>4. QED
    BY <2>1, <2>2, <2>3, StopWorks DEF Early
<1>2. CASE Setup(w)
  <2>1. r.pc = "setup" /\ Calmly(w)
    BY <1>2, NotesCalmly DEF Setup, Notes, At, External
  <2>2. CASE Saw(w, "launch")
    <3>1. Moved(w, "launch", Returned(j), r.run, r.then, r.to)
      BY <2>2, HolderFacts, SawMoves DEF Phases
    <3>2. LocalOK(n, job'[j], running'[j])
      BY <2>1, <3>1, HolderFacts, ReturnedFacts
         DEF Moved, Calmly, RowKept, LocalOK, Expects, Early, Between, Late, Still
    <3>3. QED
      BY <2>1, <3>1, <3>2, CalmWorks
  <2>3. QED
    BY <1>2, <2>1, <2>2, StopWorks DEF Setup, Early
<1>3. QED
  BY <1>1, <1>2

\* What every step of the implementation turn leaves alone.
LEMMA TurnWorks ==
  ASSUME NEW w \in Workers, Acting(w),
         NEW pc, pc \notin {"idle", "finish"}, NEW seen, NEW run, NEW then, NEW to,
         Moved(w, pc, seen, run, then, to), leases' = leases,
         job'[Mine(w)].state = job[Mine(w)].state, job'[Mine(w)].route = job[Mine(w)].route,
         job'[Mine(w)].attempt = job[Mine(w)].attempt \/ job'[Mine(w)].attempt <= MaxAttempts,
         LocalOK(worker'[w], job'[Mine(w)], running'[Mine(w)])
  PROVE  Works(w)
  BY DEF Works, Moved

LEMMA LaunchWorks ==
  ASSUME NEW w \in Workers, Acting(w), Launch(w)
  PROVE  Works(w)
<1> DEFINE r == worker[w] n == worker'[w] j == Mine(w)
<1>1. PICK c \in Convs : worker' = [worker EXCEPT ![w] = Launching(w, c)] /\ Executes(j, c)
  BY Zenon DEF Launch, Move, Launching
<1>2. r.pc = "launch" /\ UNCHANGED storeVars
  BY SilentStepStore, Zenon DEF Launch, At, SilentStep
<1>3. Moved(w, "begin", r.seen, c, r.then, r.to)
  BY <1>1, HolderFacts, OtherMoves, Zenon
<1>4. running'[j] = running[j] \cup {c}
  BY <1>1, HolderFacts DEF Executes, ServiceInv, ExternalsOK
<1>5. LocalOK(n, job'[j], running'[j])
  BY <1>2, <1>3, <1>4, HolderFacts
     DEF Moved, storeVars, LocalOK, Expects, Early, Between, Late, Still
<1>6. QED
  BY <1>2, <1>3, <1>5, TurnWorks DEF storeVars

LEMMA BeginWorks ==
  ASSUME NEW w \in Workers, Acting(w), Begin(w)
  PROVE  Works(w)
<1> DEFINE r == worker[w] n == worker'[w] j == Mine(w)
<1>1. r.pc = "begin" /\ UNCHANGED running
  BY DEF Begin, At
<1>2. job[j].state = RUNNING
  BY <1>1, HolderFacts DEF Expects, Early
<1>3. BeginAttempt(j, r.run) /\ Saw(w, "wait")
  BY <1>2 DEF Begin
<1>4. /\ job'[j].state = job[j].state /\ job'[j].route = job[j].route
      /\ job'[j].attempt = job[j].attempt + 1 /\ job'[j].conv = r.run
      /\ job'[j].content = job[j].content /\ leases' = leases
  BY <1>3, HolderFacts DEF BeginAttempt, Put, JobRow, ServiceInv, StoreTypeOK
<1>5. Moved(w, "wait", Returned(j), r.run, r.then, r.to)
  BY <1>3, HolderFacts, SawMoves DEF Phases
<1>6. job'[j].attempt <= MaxAttempts
  BY <1>1, <1>4, HolderFacts, WorkerAssumption DEF LocalOK, JobRow
<1>7. LocalOK(n, job'[j], running'[j])
  BY <1>1, <1>4, <1>5, HolderFacts, ReturnedFacts
     DEF Moved, LocalOK, Expects, Early, Between, Late, Still
<1>8. QED
  BY <1>4, <1>5, <1>6, <1>7, TurnWorks

\* wait returns: the conversation is no longer among those that run.
LEMMA ReturnsFacts ==
  ASSUME NEW w \in Workers, Acting(w), Returns(w)
  PROVE  /\ running'[Mine(w)] \subseteq running[Mine(w)]
         /\ worker[w].run \notin running'[Mine(w)]
  BY HolderFacts DEF Returns, ServiceInv, ExternalsOK

LEMMA WaitWorks ==
  ASSUME NEW w \in Workers, Acting(w), Wait(w) \/ RepairWait(w)
  PROVE  Works(w)
<1> DEFINE r == worker[w] n == worker'[w] j == Mine(w)
<1>1. Returns(w) /\ UNCHANGED storeVars
  BY DEF Wait, RepairWait, Goto, Stop, Move
<1>2. running'[j] \subseteq running[j] /\ r.run \notin running'[j]
  BY <1>1, ReturnsFacts
<1>3. CASE Wait(w)
  <2>1. r.pc = "wait" /\ \E pc \in {"record", "result"} : Goto(w, pc)
    BY <1>3 DEF Wait, At
  <2>2. PICK pc \in {"record", "result"} : Goto(w, pc)
    BY <2>1
  <2>3. Moved(w, pc, r.seen, r.run, r.then, r.to)
    BY <2>2, HolderFacts, GotoMoves DEF Goto, Move, Phases
  <2>4. LocalOK(n, job'[j], running'[j])
    BY <1>1, <1>2, <2>1, <2>3, HolderFacts
       DEF Moved, storeVars, LocalOK, Expects, Early, Between, Late, Still
  <2>5. QED
    BY <1>1, <2>3, <2>4, TurnWorks DEF storeVars
<1>4. CASE RepairWait(w)
  <2>1. r.pc = "repairWait"
    BY <1>4 DEF RepairWait, At
  <2>2. CASE Goto(w, "repairValidate")
    <3>1. Moved(w, "repairValidate", r.seen, r.run, r.then, r.to)
      BY <2>2, HolderFacts, GotoMoves DEF Goto, Move, Phases
    <3>2. LocalOK(n, job'[j], running'[j])
      BY <1>1, <1>2, <2>1, <3>1, HolderFacts
         DEF Moved, storeVars, LocalOK, Expects, Early, Between, Late, Still
    <3>3. QED
      BY <1>1, <3>1, <3>2, TurnWorks DEF storeVars
  <2>3. CASE Stop(w, PR_OPEN)
    <3>1. Moved(w, "stop", None, None, "idle", PR_OPEN)
      BY <2>3, HolderFacts, PlannedMoves DEF Stop, Move
    <3>2. LocalOK(n, job'[j], running'[j])
      BY <1>1, <1>2, <2>1, <3>1, HolderFacts
         DEF Moved, storeVars, LocalOK, Expects, Early, Between, Late, Still
    <3>3. QED
      BY <1>1, <3>1, <3>2, TurnWorks DEF storeVars
  <2>4. QED
    BY <1>4, <2>2, <2>3 DEF RepairWait
<1>5. QED
  BY <1>3, <1>4

LEMMA RecordWorks ==
  ASSUME NEW w \in Workers, Acting(w), Record(w) \/ RepairRecord(w)
  PROVE  Works(w)
<1> DEFINE r == worker[w] n == worker'[w] j == Mine(w)
<1>1. r.pc \in {"record", "repairRecord"} /\ UNCHANGED running
  BY DEF Record, RepairRecord, At, External
<1>2. PICK b \in BOOLEAN : RecordConversation(j, r.run, b) /\ (r.pc = "repairRecord" => b)
  BY DEF Record, RepairRecord, At
<1>3. /\ job'[j].state = job[j].state /\ job'[j].route = job[j].route
      /\ job'[j].attempt = job[j].attempt /\ job'[j].conv = r.run
      /\ job'[j].content = job[j].content /\ leases' = leases
      /\ b => job'[j].repair
  <2>1. ASSUME NEW repair, job'[j] = [job[j] EXCEPT !.conv = r.run, !.repair = repair]
        PROVE  /\ job'[j].state = job[j].state /\ job'[j].route = job[j].route
               /\ job'[j].attempt = job[j].attempt /\ job'[j].conv = r.run
               /\ job'[j].content = job[j].content /\ job'[j].repair = repair
    BY <2>1, HolderFacts DEF JobRow
  <2>2. job'[j] = [job[j] EXCEPT !.conv = r.run, !.repair = @ \/ b] /\ leases' = leases
    BY <1>2, HolderFacts DEF RecordConversation, Put, ServiceInv, StoreTypeOK
  <2>3. QED
    BY <2>1, <2>2, Zenon
<1>4. CASE Record(w)
  <2>1. r.pc = "record"
    BY <1>4 DEF Record, At
  <2>2. Moved(w, "result", Returned(j), r.run, r.then, r.to)
    BY <1>4, HolderFacts, SawMoves DEF Record, Phases
  <2>3. LocalOK(n, job'[j], running'[j])
    BY <1>1, <1>3, <2>1, <2>2, HolderFacts, ReturnedFacts
       DEF Moved, LocalOK, Expects, Early, Between, Late, Still
  <2>4. QED
    BY <1>3, <2>2, <2>3, TurnWorks
<1>5. CASE RepairRecord(w)
  <2>1. r.pc = "repairRecord"
    BY <1>5 DEF RepairRecord, At
  <2>2. Moved(w, "repairWait", Returned(j), r.run, r.then, r.to)
    BY <1>5, HolderFacts, SawMoves DEF RepairRecord, Phases
  <2>3. LocalOK(n, job'[j], running'[j])
    BY <1>1, <1>2, <1>3, <2>1, <2>2, HolderFacts
       DEF Moved, LocalOK, Expects, Early, Between, Late, Still
  <2>4. QED
    BY <1>3, <2>2, <2>3, TurnWorks
<1>6. QED
  BY <1>4, <1>5

LEMMA LostWorks ==
  ASSUME NEW w \in Workers, Acting(w), SlotLost(w) \/ PollFails(w)
  PROVE  Works(w)
<1> DEFINE r == worker[w] n == worker'[w] j == Mine(w)
<1>1. Goto(w, "providerError") /\ UNCHANGED running
  BY DEF SlotLost, PollFails, External
<1>2. CASE SlotLost(w)
  <2>1. r.pc \in ProviderCalls
    BY <1>2 DEF SlotLost, At, ProviderCalls
  <2>2. QED
    BY <1>1, <2>1, NotesCalmly, ErrorWorks DEF Goto, Move, Notes, ProviderCalls
<1>3. CASE PollFails(w)
  <2>1. r.pc \in {"wait", "reviewWait", "repairWait"} /\ ~Polled
    BY <1>3 DEF PollFails, At, Polled
  <2>2. Moved(w, "providerError", r.seen, r.run, r.then, r.to) /\ UNCHANGED storeVars
    BY <1>1, HolderFacts, GotoMoves DEF Goto, Move, Phases
  <2>3. LocalOK(n, job'[j], running'[j])
    BY <1>1, <2>1, <2>2, HolderFacts
       DEF Moved, storeVars, LocalOK, Expects, Early, Between, Late, Still, Undisturbed
  <2>4. QED
    BY <2>2, <2>3, TurnWorks DEF storeVars
<1>4. QED
  BY <1>2, <1>3

LEMMA ResultWorks ==
  ASSUME NEW w \in Workers, Acting(w), Result(w)
  PROVE  Works(w)
<1> DEFINE r == worker[w] n == worker'[w] j == Mine(w)
<1>1. r.pc = "result" /\ UNCHANGED running
  BY DEF Result, At, External
<1>2. \/ Goto(w, "staleError") \/ Goto(w, "validate") \/ \E to : Stop(w, to)
      \/ /\ SetProviderBackoff(r.seen.route.provider)
         /\ worker' = [worker EXCEPT ![w] = Planned(w, "stop", QUEUED)]
  BY Zenon DEF Result
<1>3. Calmly(w)
  BY <1>1, <1>2, NotesCalmly DEF Goto, Stop, Move, Notes
<1>4. CASE Goto(w, "staleError")
  BY <1>1, <1>3, <1>4, ErrorWorks
<1>5. CASE Goto(w, "validate")
  <2>1. Moved(w, "validate", r.seen, r.run, r.then, r.to)
    BY <1>5, HolderFacts, GotoMoves DEF Goto, Move, Phases
  <2>2. LocalOK(n, job'[j], running'[j])
    BY <1>1, <1>3, <2>1, HolderFacts
       DEF Moved, Calmly, RowKept, LocalOK, Expects, Early, Between, Late, Still
  <2>3. QED
    BY <1>3, <2>1, <2>2, CalmWorks
<1>6. ASSUME NEW to, worker' = [worker EXCEPT ![w] = Planned(w, "stop", to)] PROVE Works(w)
  BY <1>1, <1>3, <1>6, StopWorks DEF Early
<1>7. QED
  BY <1>2, <1>4, <1>5, <1>6 DEF Stop, Move

LEMMA ValidateWorks ==
  ASSUME NEW w \in Workers, Acting(w), Validate(w)
  PROVE  Works(w)
<1> DEFINE r == worker[w] n == worker'[w] j == Mine(w)
<1>1. r.pc = "validate" /\ UNCHANGED running /\ RecordPhase(j, FALSE)
  BY DEF Validate, At, External
<1>2. Calmly(w)
  BY <1>1, NotesCalmly DEF Notes
<1>3. \/ Saw(w, "commit") \/ worker' = [worker EXCEPT ![w] = Correcting(w)]
      \/ worker' = [worker EXCEPT ![w] = Planned(w, "stop", FAILED)]
  BY HolderFacts DEF Validate, Correcting, ServiceInv, LocalsOK
<1>4. CASE worker' = [worker EXCEPT ![w] = Planned(w, "stop", FAILED)]
  BY <1>1, <1>2, <1>4, StopWorks DEF Early
<1>5. ASSUME NEW pc \in {"commit", "correct"}, Moved(w, pc, Returned(j), r.run, r.then, r.to)
      PROVE  Works(w)
  <2>1. LocalOK(n, job'[j], running'[j])
    BY <1>1, <1>2, <1>5, HolderFacts, ReturnedFacts
       DEF Moved, Calmly, RowKept, LocalOK, Expects, Early, Between, Late, Still
  <2>2. QED
    BY <1>2, <1>5, <2>1, CalmWorks
<1>6. CASE Saw(w, "commit")
  BY <1>5, <1>6, HolderFacts, SawMoves DEF Phases
<1>7. CASE worker' = [worker EXCEPT ![w] = Correcting(w)]
  BY <1>5, <1>7, HolderFacts, OtherMoves, Zenon
<1>8. QED
  BY <1>3, <1>4, <1>6, <1>7

LEMMA CorrectWorks ==
  ASSUME NEW w \in Workers, Acting(w), Correct(w)
  PROVE  Works(w)
<1> DEFINE r == worker[w] n == worker'[w] j == Mine(w)
<1>1. r.pc = "correct" /\ Goto(w, "wait") /\ Executes(j, r.run) /\ UNCHANGED storeVars
  BY DEF Correct, At, Goto, Move
<1>2. Moved(w, "wait", r.seen, r.run, r.then, r.to)
  BY <1>1, HolderFacts, GotoMoves DEF Goto, Move, Phases
<1>3. running'[j] = running[j] \cup {r.run}
  BY <1>1, HolderFacts DEF Executes, ServiceInv, ExternalsOK
<1>4. LocalOK(n, job'[j], running'[j])
  BY <1>1, <1>2, <1>3, HolderFacts
     DEF Moved, storeVars, LocalOK, Expects, Early, Between, Late, Still
<1>5. QED
  BY <1>1, <1>2, <1>4, TurnWorks DEF storeVars

\* The later phases rely on the state of the job only.
LEMMA PathWorks ==
  ASSUME NEW w \in Workers, Acting(w), Notes(Mine(w)), UNCHANGED running,
         worker[w].pc \notin Writing,
         NEW pc, pc \notin Relying \cup {"stop", "leave", "providerError"},
         NEW seen, NEW then, Moved(w, pc, seen, worker[w].run, then, worker[w].to),
         pc \in Looks => then \in Guarded,
         Early(worker'[w]) => Early(worker[w]),
         Between(worker'[w]) => Between(worker[w]) \/ Late(worker[w]),
         Late(worker'[w]) => Late(worker[w])
  PROVE  Works(w)
<1> DEFINE r == worker[w] n == worker'[w] s == job[Mine(w)].state
<1>1. n.pc = pc /\ n.then = then
  BY DEF Moved
<1>2. RUNNING \notin {REVIEWING} \cup Ended
  BY DEF Ended, Over
<1>3. Expects(n, s)
  BY <1>1, <1>2, HolderFacts DEF Expects
<1>4. QED
  BY <1>3, NotesCalmly, PlainWorks

LEMMA CommitWorks ==
  ASSUME NEW w \in Workers, Acting(w), Commit(w)
  PROVE  Works(w)
<1> DEFINE r == worker[w] n == worker'[w] j == Mine(w)
<1>1. r.pc = "commit" /\ UNCHANGED running
  BY Zenon DEF Commit, At
<1>2. Stop(w, FAILED) \/ \E pc \in {"push", "pullRequest"} : \E b : Check(w, pc, b)
  BY DEF Commit
<1>3. CASE Stop(w, FAILED)
  BY <1>1, <1>3, NotesCalmly, StopWorks DEF Stop, Move, Early, Notes
<1>4. ASSUME NEW pc \in {"push", "pullRequest"}, NEW b, Check(w, pc, b) PROVE Works(w)
  <2>1. Moved(w, "lease", r.seen, r.run, pc, r.to) /\ UNCHANGED storeVars
    BY <1>4, HolderFacts, OtherMoves, Zenon DEF Check, Move
  <2>2. n.pc = "lease" /\ n.then = pc
    BY <2>1 DEF Moved
  <2>3. Early(r) /\ ~Between(n) /\ ~Late(n)
    BY <1>1, <2>2 DEF Early, Between, Late
  <2>4. QED
    BY <1>1, <2>1, <2>3, PathWorks DEF Notes, Guarded
<1>5. QED
  BY <1>2, <1>3, <1>4

LEMMA LooksWorks ==
  ASSUME NEW w \in Workers, Acting(w), CheckLease(w) \/ Guard(w) \/ Observed(w)
  PROVE  Works(w)
<1> DEFINE r == worker[w] n == worker'[w] j == Mine(w)
<1>1. r.pc \in Looks /\ UNCHANGED running /\ UNCHANGED storeVars
  BY DEF CheckLease, Guard, Observed, At, External, Goto, Move
<1>2. r.then \in Guarded
  BY <1>1, HolderFacts DEF Expects
<1>3. \/ Goto(w, "orchestratorError") \/ Goto(w, "staleError")
      \/ Goto(w, "guard")
      \/ worker' = [worker EXCEPT ![w] = Passing(w)]
      \/ worker' = [worker EXCEPT ![w] = Rechecking(w, r.then)]
  BY Zenon DEF CheckLease, Guard, Observed, Passing, Rechecking, Move
<1>4. CASE Goto(w, "orchestratorError") \/ Goto(w, "staleError")
  BY <1>1, <1>4, NotesCalmly, ErrorWorks DEF Notes
<1>5. ASSUME NEW pc \in {"guard", "lease"}, NEW seen,
             Moved(w, pc, seen, r.run, r.then, r.to)
      PROVE  Works(w)
  <2>1. n.pc = pc /\ n.then = r.then
    BY <1>5 DEF Moved
  <2>2. /\ Early(n) => Early(r)
        /\ Between(n) => Between(r)
        /\ Late(n) => Late(r)
    BY <1>1, <2>1 DEF Early, Between, Late
  <2>3. QED
    BY <1>1, <1>2, <1>5, <2>2, PathWorks DEF Notes
<1>6. CASE Goto(w, "guard")
  BY <1>5, <1>6, HolderFacts, GotoMoves DEF Goto, Move, Phases
<1>7. CASE worker' = [worker EXCEPT ![w] = Rechecking(w, r.then)]
  BY <1>5, <1>7, HolderFacts, OtherMoves, Zenon
<1>8. CASE worker' = [worker EXCEPT ![w] = Passing(w)]
  <2>1. Moved(w, r.then, r.seen, r.run, "idle", r.to)
    BY <1>8, HolderFacts, OtherMoves, Zenon
  <2>2. n.pc = r.then
    BY <2>1 DEF Moved
  <2>3. r.then \notin Relying \cup {"stop", "leave", "providerError"} \cup Looks
    BY <1>2 DEF Guarded
  <2>4. /\ Early(n) => Early(r)
        /\ Between(n) => Between(r)
        /\ Late(n) => Late(r)
    BY <1>1, <1>2, <2>2 DEF Early, Between, Late, Guarded
  <2>5. QED
    BY <1>1, <2>1, <2>3, <2>4, PathWorks DEF Notes
<1>9. QED
  BY <1>3, <1>4, <1>6, <1>7, <1>8

LEMMA PublishWorks ==
  ASSUME NEW w \in Workers, Acting(w),
         Push(w) \/ PullRequestPhase(w) \/ CreatePr(w) \/ LabelPr(w) \/ RecordPullRequest(w)
  PROVE  Works(w)
<1> DEFINE r == worker[w] n == worker'[w] j == Mine(w)
<1>1. /\ r.pc \in {"push", "pullRequest", "createPr", "labelPr", "recordPr"}
      /\ UNCHANGED running /\ Notes(j)
  BY Zenon DEF Push, PullRequestPhase, CreatePr, LabelPr, RecordPullRequest, At, External,
               Goto, Move, Notes
<1>2. \/ \E pc \in {"pullRequest", "recordPr", "labelPr", "staleError"} : Goto(w, pc)
      \/ worker' = [worker EXCEPT ![w] = Rechecking(w, "createPr")]
      \/ worker' = [worker EXCEPT ![w] = Recording(w)]
  <2>1. CASE Push(w) \/ CreatePr(w) \/ LabelPr(w)
    BY <2>1 DEF Push, CreatePr, LabelPr
  <2>2. CASE PullRequestPhase(w)
    BY <2>2, Zenon DEF PullRequestPhase, Rechecking
  <2>3. CASE RecordPullRequest(w)
    BY <2>3, HolderFacts DEF RecordPullRequest, Recording, ServiceInv, LocalsOK
  <2>4. QED
    BY <2>1, <2>2, <2>3
<1>3. Early(r)
  BY <1>1 DEF Early
<1>4. ASSUME NEW pc, pc \notin Relying \cup {"stop", "leave", "providerError"}, NEW seen,
             NEW then, Moved(w, pc, seen, r.run, then, r.to),
             pc \in Looks => then \in Publishing \cup {"openPr"},
             pc \in {"pullRequest", "recordPr", "labelPr", "staleError"} \cup Looks
      PROVE  Works(w)
  <2>1. n.pc = pc /\ n.then = then
    BY <1>4 DEF Moved
  <2>2. ~Between(n) /\ ~Late(n)
    BY <1>4, <2>1 DEF Between, Late
  <2>3. QED
    BY <1>1, <1>3, <1>4, <2>2, PathWorks DEF Guarded
<1>5. ASSUME NEW pc \in {"pullRequest", "recordPr", "labelPr", "staleError"}, Goto(w, pc)
      PROVE  Works(w)
  <2>1. Moved(w, pc, r.seen, r.run, r.then, r.to)
    BY <1>5, HolderFacts, GotoMoves DEF Goto, Move, Phases
  <2>2. QED
    BY <1>4, <2>1
<1>6. CASE worker' = [worker EXCEPT ![w] = Rechecking(w, "createPr")]
  <2>1. Moved(w, "lease", Returned(j), r.run, "createPr", r.to)
    BY <1>6, HolderFacts, OtherMoves, Zenon
  <2>2. QED
    BY <1>4, <2>1
<1>7. CASE worker' = [worker EXCEPT ![w] = Recording(w)]
  <2>1. Moved(w, "observed", Returned(j), r.run, "openPr", r.to)
    BY <1>7, HolderFacts, OtherMoves, Zenon
  <2>2. QED
    BY <1>4, <2>1
<1>8. QED
  BY <1>2, <1>5, <1>6, <1>7

LEMMA ReviewWorks ==
  ASSUME NEW w \in Workers, Acting(w),
         \/ OpenPr(w) \/ Opened(w) \/ Review(w) \/ Reviewing(w) \/ ReviewLaunch(w)
         \/ ReviewWait(w) \/ ReviewPost(w)
  PROVE  Works(w)
<1> DEFINE r == worker[w] n == worker'[w] j == Mine(w)
<1>1. CASE OpenPr(w) \/ Reviewing(w)
  BY <1>1, KeepLeaseWorks DEF OpenPr, Reviewing, At, KeepLease, External
<1>2. ASSUME ~(OpenPr(w) \/ Reviewing(w)) PROVE Works(w)
  <2>1. /\ r.pc \in {"opened", "review", "reviewLaunch", "reviewWait", "reviewPost"}
        /\ UNCHANGED running /\ Notes(j)
    BY <1>2, Zenon DEF Opened, Review, ReviewLaunch, ReviewWait, ReviewPost, At, External,
                       Check, Goto, Stop, Move, Notes
  <2>2. \/ r.pc = "opened" /\ Goto(w, "review")
        \/ Stop(w, PR_OPEN)
        \/ r.pc = "review" /\ Check(w, "reviewing", TRUE)
        \/ r.pc = "reviewLaunch" /\ Saw(w, "reviewWait")
        \/ r.pc = "reviewWait" /\ Check(w, "reviewPost", TRUE)
        \/ r.pc = "reviewPost" /\ worker' = [worker EXCEPT ![w] = Counting(w)]
    <3>1. CASE Opened(w) \/ Review(w) \/ ReviewLaunch(w) \/ ReviewWait(w)
      BY <3>1 DEF Opened, Review, ReviewLaunch, ReviewWait, At
    <3>2. CASE ReviewPost(w)
      <4>1. [Checking(w, "repairLaunch", TRUE) EXCEPT !.pc = "guard", !.repairs = r.repairs + 1]
              = Counting(w)
        BY HolderFacts DEF Checking, Counting, WorkerRow
      <4>2. QED
        BY <3>2, <4>1, Zenon DEF ReviewPost, At, Move
    <3>3. QED
      BY <1>2, <3>1, <3>2
  <2>3. CASE Stop(w, PR_OPEN)
    BY <2>1, <2>3, NotesCalmly, StopWorks DEF Stop, Move
  <2>4. ASSUME NEW pc \in {"review", "lease", "guard", "reviewWait"}, NEW seen, NEW then,
               Moved(w, pc, seen, r.run, then, r.to),
               pc = "review" => Between(r),
               pc = "reviewWait" => Late(r),
               pc \in Looks => \/ then = "reviewing" /\ Between(r)
                               \/ then \in AfterReview \cap Guarded /\ Late(r)
        PROVE  Works(w)
    <3>1. n.pc = pc /\ n.then = then
      BY <2>4 DEF Moved
    <3>2. /\ ~Early(n)
          /\ Between(n) => Between(r)
          /\ Late(n) => Late(r)
      BY <2>4, <3>1 DEF Early, Between, Late
    <3>3. QED
      BY <2>1, <2>4, <3>2, PathWorks DEF Guarded
  <2>5. /\ r.pc \in {"opened", "review"} => Between(r)
        /\ r.pc \in {"reviewLaunch", "reviewWait", "reviewPost"} => Late(r)
    BY DEF Between, Late
  <2>6. CASE r.pc = "opened" /\ Goto(w, "review")
    <3>1. Moved(w, "review", r.seen, r.run, r.then, r.to)
      BY <2>6, HolderFacts, GotoMoves DEF Goto, Move, Phases
    <3>2. QED
      BY <2>4, <2>5, <2>6, <3>1
  <2>7. CASE r.pc = "review" /\ Check(w, "reviewing", TRUE)
    <3>1. Moved(w, "lease", r.seen, r.run, "reviewing", r.to)
      BY <2>7, HolderFacts, OtherMoves, Zenon DEF Check, Move
    <3>2. QED
      BY <2>4, <2>5, <2>7, <3>1
  <2>8. CASE r.pc = "reviewLaunch" /\ Saw(w, "reviewWait")
    <3>1. Moved(w, "reviewWait", Returned(j), r.run, r.then, r.to)
      BY <2>8, HolderFacts, SawMoves DEF Phases
    <3>2. QED
      BY <2>4, <2>5, <2>8, <3>1
  <2>9. CASE r.pc = "reviewWait" /\ Check(w, "reviewPost", TRUE)
    <3>1. Moved(w, "lease", r.seen, r.run, "reviewPost", r.to)
      BY <2>9, HolderFacts, OtherMoves, Zenon DEF Check, Move
    <3>2. QED
      BY <2>4, <2>5, <2>9, <3>1 DEF Guarded
  <2>10. CASE r.pc = "reviewPost" /\ worker' = [worker EXCEPT ![w] = Counting(w)]
    <3>1. Moved(w, "guard", r.seen, r.run, "repairLaunch", r.to)
      BY <2>10, HolderFacts, OtherMoves, Zenon
    <3>2. QED
      BY <2>4, <2>5, <2>10, <3>1 DEF Guarded
  <2>11. QED
    BY <2>2, <2>3, <2>6, <2>7, <2>8, <2>9, <2>10
<1>3. QED
  BY <1>1, <1>2

LEMMA RepairLaunchWorks ==
  ASSUME NEW w \in Workers, Acting(w), RepairLaunch(w)
  PROVE  Works(w)
<1> DEFINE r == worker[w] n == worker'[w] j == Mine(w)
<1>1. r.pc = "repairLaunch" /\ UNCHANGED storeVars
  BY SilentStepStore, Zenon DEF RepairLaunch, At, SilentStep
<1>2. CASE Stop(w, PR_OPEN) /\ UNCHANGED running
  BY <1>1, <1>2, NotesCalmly, StopWorks DEF Stop, Move, Notes
<1>3. ASSUME NEW c \in Convs, Fresh(c), Executes(j, c),
             worker' = [worker EXCEPT ![w] = Repairing(w, c)]
      PROVE  Works(w)
  <2>1. Moved(w, "repairRecord", r.seen, c, r.then, r.to)
    BY <1>3, HolderFacts, OtherMoves, Zenon
  <2>2. running'[j] = running[j] \cup {c} /\ job[j].conv # c
    BY <1>3, HolderFacts DEF Executes, Fresh, ServiceInv, ExternalsOK
  <2>3. LocalOK(n, job'[j], running'[j])
    BY <1>1, <2>1, <2>2, HolderFacts
       DEF Moved, storeVars, LocalOK, Expects, Early, Between, Late, Still
  <2>4. QED
    BY <1>1, <2>1, <2>3, TurnWorks DEF storeVars
<1>4. QED
  BY <1>2, <1>3, Zenon DEF RepairLaunch, Move, Repairing

LEMMA RepairedWorks ==
  ASSUME NEW w \in Workers, Acting(w), RepairValidate(w) \/ RepairPush(w) \/ ReviewAgain(w)
  PROVE  Works(w)
<1> DEFINE r == worker[w] n == worker'[w] j == Mine(w)
<1>1. /\ r.pc \in {"repairValidate", "repairPush", "reviewAgain"}
      /\ UNCHANGED running /\ UNCHANGED storeVars
  BY Zenon DEF RepairValidate, RepairPush, ReviewAgain, At, External, Check, Observe, Stop, Move
<1>2. \/ Stop(w, PR_OPEN)
      \/ \E pc \in {"repairPush", "reviewing"} : Check(w, pc, TRUE)
      \/ worker' = [worker EXCEPT ![w] = Observing(w)]
  BY Zenon DEF RepairValidate, RepairPush, ReviewAgain, Observing, Observe, Move
<1>3. CASE Stop(w, PR_OPEN)
  BY <1>1, <1>3, NotesCalmly, StopWorks DEF Stop, Move, Notes
<1>4. ASSUME NEW pc \in Looks, NEW then \in {"repairPush", "reviewing", "reviewAgain"},
             Moved(w, pc, r.seen, r.run, then, r.to)
      PROVE  Works(w)
  <2>1. n.pc = pc /\ n.then = then
    BY <1>4 DEF Moved
  <2>2. Late(r) /\ ~Early(n)
    BY <1>1, <2>1 DEF Early, Late
  <2>3. QED
    BY <1>1, <1>4, <2>2, PathWorks DEF Notes, Guarded
<1>5. ASSUME NEW pc \in {"repairPush", "reviewing"}, Check(w, pc, TRUE) PROVE Works(w)
  BY <1>4, <1>5, HolderFacts, OtherMoves, Zenon DEF Check, Move
<1>6. CASE worker' = [worker EXCEPT ![w] = Observing(w)]
  BY <1>4, <1>6, HolderFacts, OtherMoves, Zenon
<1>7. QED
  BY <1>2, <1>3, <1>5, <1>6

LEMMA CallFailsWorks ==
  ASSUME NEW w \in Workers, Acting(w), CallFails(w)
  PROVE  Works(w)
<1>1. UNCHANGED running /\ worker[w].pc \notin Writing
  BY DEF CallFails, External, GitHubCalls, WorkspaceCalls, ProviderCalls
<1>2. \/ Goto(w, "orchestratorError") \/ Goto(w, "unexpectedError")
      \/ worker[w].pc \in ProviderCalls /\ Goto(w, "providerError")
  BY DEF CallFails
<1>3. Calmly(w)
  BY <1>1, <1>2, NotesCalmly DEF Goto, Move, Notes
<1>4. QED
  BY <1>1, <1>2, <1>3, ErrorWorks

\* What has a pull request, or had one, ends as published.
LEMMA UnpublishedFacts ==
  ASSUME NEW w \in Workers, Acting(w)
  PROVE  LET row == job[Mine(w)] IN
         /\ ~Published(row) => row.state \in {RUNNING} \cup Over
         /\ ~row.pr => ~Published(row)
         /\ worker[w].pc = "providerError" /\ ~Published(row) =>
              row.state \in {RUNNING} \cup Ended
  BY HolderFacts DEF Published, Expects, Held, Over

LEMMA HandlersWorks ==
  ASSUME NEW w \in Workers, Acting(w), OnStale(w) \/ OnProviderError(w) \/ OnUnexpectedError(w)
  PROVE  Works(w)
<1> DEFINE r == worker[w] s == job[Mine(w)].state
<1>1. r.pc \in Handlers /\ r.pc \notin Writing /\ UNCHANGED running
  BY DEF OnStale, OnProviderError, OnUnexpectedError, At, External, Handlers
<1>2. ASSUME NEW to \in {PR_OPEN, QUEUED, NEEDS_GUIDANCE, FAILED},
             to = QUEUED => s \in {RUNNING} \cup Ended,
             to \in {NEEDS_GUIDANCE, FAILED} => s \in {RUNNING} \cup Over,
             \/ Leave(w, to)
             \/ /\ \E p : SetProviderBackoff(p)
                /\ worker' = [worker EXCEPT ![w] = Planned(w, "leave", to)]
      PROVE  Works(w)
  <2>1. Notes(Mine(w)) /\ worker' = [worker EXCEPT ![w] = Planned(w, "leave", to)]
    BY <1>2 DEF Notes, Leave, Move
  <2>2. QED
    BY <1>1, <1>2, <2>1, NotesCalmly, LeaveWorks
<1>3. CASE OnStale(w)
  <2>1. \/ Leave(w, PR_OPEN)
        \/ Leave(w, NEEDS_GUIDANCE) /\ s \in {RUNNING} \cup Over
    BY <1>3, UnpublishedFacts DEF OnStale
  <2>2. QED
    BY <1>2, <2>1
<1>4. CASE OnUnexpectedError(w)
  <2>1. \/ Leave(w, PR_OPEN)
        \/ Leave(w, FAILED) /\ s \in {RUNNING} \cup Over
    BY <1>4, UnpublishedFacts DEF OnUnexpectedError
  <2>2. QED
    BY <1>2, <2>1
<1>5. CASE OnProviderError(w)
  <2>1. r.pc = "providerError" /\ Ended \subseteq Over
    BY <1>5 DEF OnProviderError, At, Ended
  <2>2. \/ Leave(w, PR_OPEN)
        \/ \E to \in {NEEDS_GUIDANCE, FAILED} : Leave(w, to) /\ s \in {RUNNING} \cup Over
        \/ /\ \E p : SetProviderBackoff(p)
           /\ \/ worker' = [worker EXCEPT ![w] = Planned(w, "leave", PR_OPEN)]
              \/ /\ worker' = [worker EXCEPT ![w] = Planned(w, "leave", QUEUED)]
                 /\ s \in {RUNNING} \cup Ended
    BY <1>5, <2>1, UnpublishedFacts DEF OnProviderError
  <2>3. QED
    BY <1>2, <2>2
<1>6. QED
  BY <1>3, <1>4, <1>5

LEMMA OrchestratorErrorWorks ==
  ASSUME NEW w \in Workers, Acting(w), OnOrchestratorError(w)
  PROVE  Works(w) \/ Quits(w)
<1> DEFINE r == worker[w] s == job[Mine(w)].state
<1>1. r.pc = "orchestratorError" /\ UNCHANGED running
  BY DEF OnOrchestratorError, At, External
<1>2. \/ Leave(w, PR_OPEN)
      \/ s = RUNNING /\ Leave(w, FAILED)
      \/ s \in Over /\ Move(w, Planned(w, "finish", Absent))
  BY UnpublishedFacts DEF OnOrchestratorError
<1>3. CASE Leave(w, PR_OPEN) \/ (s = RUNNING /\ Leave(w, FAILED))
  BY <1>1, <1>3, NotesCalmly, LeaveWorks DEF Leave, Move, Notes
<1>4. CASE s \in Over /\ Move(w, Planned(w, "finish", Absent))
  <2>1. Moved(w, "finish", None, None, "idle", Absent)
    BY <1>4, HolderFacts, PlannedMoves DEF Move
  <2>2. QED
    BY <1>1, <1>4, <2>1 DEF Quits, Moved, Move, storeVars
<1>5. QED
  BY <1>2, <1>3, <1>4

LEMMA StoppingWorks ==
  ASSUME NEW w \in Workers, Acting(w), Stopping(w)
  PROVE  Works(w) \/ Quits(w)
<1> DEFINE r == worker[w] j == Mine(w) s == job[j].state
<1>1. r.pc \in {"stop", "leave"} /\ UNCHANGED running /\ r.to \in Stops
  BY HolderFacts DEF Stopping, At, External, WorkerOK
<1>2. CASE /\ Transition(j, r.to, TRUE)
           /\ worker' = [worker EXCEPT ![w] = Planned(w, "finish", Absent)]
  <2>1. Moved(w, "finish", None, None, "idle", Absent)
    BY <1>2, HolderFacts, PlannedMoves
  <2>2. /\ job'[j].state = r.to /\ job'[j].conv = job[j].conv
        /\ job'[j].route = job[j].route /\ job'[j].attempt = job[j].attempt
        /\ leases' = WithoutLeaseOf(j)
    BY <1>2, HolderFacts DEF Transition, Put, JobRow, ServiceInv, StoreTypeOK
  <2>3. r.to \notin {REVIEWING, Absent}
    BY <1>1 DEF Stops
  <2>4. QED
    BY <1>1, <2>1, <2>2, <2>3 DEF Quits, Moved
<1>3. CASE /\ ~TransitionAllowed(j, r.to)
           /\ Goto(w, IF r.pc = "stop" THEN "orchestratorError" ELSE "finish")
  <2>1. CASE r.pc = "stop"
    BY <1>1, <1>3, <2>1, NotesCalmly, ErrorWorks DEF Goto, Move, Notes
  <2>2. CASE r.pc = "leave"
    <3>1. s \in Held \cup Over /\ Expects(r, s)
      BY HolderFacts DEF Expects
    <3>2. /\ s \in {PR_OPEN, REVIEWING} => r.to = PR_OPEN
          /\ r.to \in {PR_OPEN, QUEUED, NEEDS_GUIDANCE, FAILED}
      BY <2>2, <3>1 DEF Expects, Ended, Over
    <3>3. s \in Over
      BY <1>3, <3>1, <3>2
         DEF Held, TransitionAllowed, ALLOWED_TRANSITIONS, JobState, Exists
    <3>4. Moved(w, "finish", r.seen, r.run, r.then, r.to) /\ UNCHANGED storeVars
      BY <1>3, <2>2, HolderFacts, GotoMoves DEF Goto, Move, Phases
    <3>5. QED
      BY <1>1, <3>3, <3>4 DEF Quits, Moved, storeVars
  <2>3. QED
    BY <1>1, <2>1, <2>2
<1>4. QED
  BY <1>2, <1>3 DEF Stopping, At

\* Together: a step of a worker in its run.
LEMMA StepWorks ==
  ASSUME NEW w \in Workers, Acting(w), Step(w)
  PROVE  Works(w) \/ Quits(w)
<1>1. CASE \/ Preflight(w) \/ LookupPr(w) \/ Adopt(w) \/ Adopted(w) \/ Health(w) \/ Setup(w)
           \/ Launch(w) \/ SlotLost(w) \/ Begin(w) \/ Wait(w) \/ Record(w) \/ PollFails(w)
           \/ Result(w) \/ Validate(w) \/ Correct(w)
  BY <1>1, PreflightWorks, LookupWorks, SetupWorks, LaunchWorks, LostWorks, BeginWorks,
     WaitWorks, RecordWorks, ResultWorks, ValidateWorks, CorrectWorks
<1>2. CASE \/ Commit(w) \/ CheckLease(w) \/ Guard(w) \/ Push(w) \/ PullRequestPhase(w)
           \/ CreatePr(w) \/ LabelPr(w) \/ RecordPullRequest(w) \/ Observed(w) \/ OpenPr(w)
           \/ Opened(w)
  BY <1>2, CommitWorks, LooksWorks, PublishWorks, ReviewWorks
<1>3. CASE \/ Review(w) \/ Reviewing(w) \/ ReviewLaunch(w) \/ ReviewWait(w) \/ ReviewPost(w)
           \/ RepairLaunch(w) \/ RepairRecord(w) \/ RepairWait(w) \/ RepairValidate(w)
           \/ RepairPush(w) \/ ReviewAgain(w)
  BY <1>3, ReviewWorks, RepairLaunchWorks, RecordWorks, WaitWorks, RepairedWorks
<1>4. CASE \/ CallFails(w) \/ OnStale(w) \/ OnProviderError(w) \/ OnOrchestratorError(w)
           \/ OnUnexpectedError(w) \/ Stopping(w)
  BY <1>4, CallFailsWorks, HandlersWorks, OrchestratorErrorWorks, StoppingWorks
<1>5. ~Finish(w)
  BY DEF Finish, At, Acting, Holder
<1>6. QED
  BY <1>1, <1>2, <1>3, <1>4, <1>5 DEF Step
-----------------------------------------------------------------------------
(* What a step of a worker does elsewhere: nothing.                        *)

Aside(k) ==
  job'[k] = job[k] /\ running'[k] = running[k] /\ pull'[k] = pull[k] /\ branch'[k] = branch[k]

Elsewhere(j) ==
  /\ \A k \in Jobs : k # j => Aside(k)
  /\ \A k \in Jobs : pull'[k] = "merged" => pull[k] = "merged"

LeasesAside(j) == {l \in leases' : l.job # j} = WithoutLeaseOf(j)

Alone(w) == \A v \in Workers : v # w => worker'[v] = worker[v]

LEMMA StepRow ==
  ASSUME NEW w \in Workers, Step(w)
  PROVE  UNCHANGED job \/ \E row : Put(Mine(w), row)
<1> DEFINE j == Mine(w)
<1>1. CASE SilentStep(w)
  BY <1>1, SilentStepStore DEF storeVars
<1>2. \/ RecordPr(j) \/ (\E b : RecordPhase(j, b)) \/ (\E c : RecordReview(j, c))
      \/ (\E c, b : RecordConversation(j, c, b)) \/ (\E c : BeginAttempt(j, c))
      \/ (\E to, b : Transition(j, to, b))
      => \E row : Put(j, row)
  BY Zenon DEF RecordPr, RecordPhase, RecordReview, RecordConversation, BeginAttempt, Transition
<1>3. UNCHANGED storeVars \/ (\E p : SetProviderBackoff(p)) => UNCHANGED job
  BY DEF storeVars, SetProviderBackoff
<1>4. CASE \/ LookupPr(w) \/ Adopt(w) \/ Setup(w) \/ Validate(w) \/ PullRequestPhase(w)
           \/ RecordPullRequest(w) \/ ReviewLaunch(w)
  BY <1>2, <1>3, <1>4, Zenon
     DEF LookupPr, Adopt, Setup, Validate, PullRequestPhase, RecordPullRequest, ReviewLaunch,
         Goto, Move
<1>5. CASE Adopted(w) \/ OpenPr(w) \/ Reviewing(w) \/ Stopping(w)
  BY <1>2, <1>3, <1>5, Zenon DEF Adopted, OpenPr, Reviewing, KeepLease, Stopping, Goto, Move
<1>6. CASE Health(w) \/ Result(w) \/ OnProviderError(w)
  BY <1>3, <1>6, Zenon DEF Health, Result, OnProviderError, Stop, Leave, Goto, Move
<1>7. CASE Begin(w) \/ Record(w) \/ RepairRecord(w)
  BY <1>2, <1>3, <1>7, Zenon DEF Begin, Record, RepairRecord, Goto, Move
<1>8. QED
  BY <1>1, <1>4, <1>5, <1>6, <1>7, Zenon DEF Step, SilentStep

LEMMA StepAround ==
  ASSUME NEW w \in Workers, ServiceInv, Step(w)
  PROVE  /\ \A k \in Jobs : k # Mine(w) =>
              running'[k] = running[k] /\ pull'[k] = pull[k] /\ branch'[k] = branch[k]
         /\ \A k \in Jobs : pull'[k] = "merged" => pull[k] = "merged"
<1> DEFINE j == Mine(w)
<1>1. /\ running \in [Jobs -> SUBSET Convs]
      /\ pull \in [Jobs -> {"none", "open", "merged"}]
      /\ branch \in [Jobs -> {"none", "behind", "same"}]
  BY DEF ServiceInv, ExternalsOK
<1>2. CASE Launch(w) \/ RepairLaunch(w) \/ Correct(w)
  <2>1. ((\E c : Executes(j, c)) \/ UNCHANGED running) /\ UNCHANGED GitHub
    BY <1>2, Zenon DEF Launch, RepairLaunch, Correct
  <2>2. QED
    BY <1>1, <2>1 DEF Executes, GitHub
<1>3. CASE Wait(w) \/ RepairWait(w)
  <2>1. Returns(w)
    BY <1>3 DEF Wait, RepairWait
  <2>2. QED
    BY <1>1, <2>1 DEF Returns, GitHub
<1>4. CASE \/ Begin(w) \/ RepairRecord(w) \/ ReviewLaunch(w) \/ PollFails(w) \/ ReviewWait(w)
  BY <1>4 DEF Begin, RepairRecord, ReviewLaunch, PollFails, ReviewWait, GitHub
<1>5. CASE Commit(w) \/ RepairValidate(w)
  <2>1. (Committed(j) \/ UNCHANGED branch) /\ UNCHANGED <<active, running, issue, pull>>
    BY <1>5, Zenon DEF Commit, RepairValidate
  <2>2. QED
    BY <1>1, <2>1 DEF Committed
<1>6. CASE Push(w) \/ RepairPush(w)
  BY <1>1, <1>6 DEF Push, RepairPush
<1>7. CASE CreatePr(w)
  BY <1>1, <1>7 DEF CreatePr
<1>8. CASE \/ Preflight(w) \/ LookupPr(w) \/ Adopt(w) \/ Adopted(w) \/ Health(w) \/ Setup(w)
           \/ SlotLost(w) \/ Record(w) \/ Result(w) \/ Validate(w)
           \/ CheckLease(w) \/ Guard(w) \/ PullRequestPhase(w) \/ LabelPr(w)
           \/ RecordPullRequest(w) \/ Observed(w) \/ OpenPr(w) \/ Opened(w)
           \/ Review(w) \/ Reviewing(w) \/ ReviewPost(w) \/ ReviewAgain(w)
           \/ CallFails(w) \/ OnStale(w) \/ OnProviderError(w) \/ OnOrchestratorError(w)
           \/ OnUnexpectedError(w) \/ Stopping(w) \/ Finish(w)
  <2>1. UNCHANGED External
    BY <1>8, Zenon DEF Preflight, LookupPr, Adopt, Adopted, Health, Setup, SlotLost, Record,
       Result, Validate, CheckLease, Guard, PullRequestPhase, LabelPr, RecordPullRequest,
       Observed, OpenPr, Opened, KeepLease, Review, Reviewing, ReviewPost, ReviewAgain,
       CallFails, OnStale, OnProviderError, OnOrchestratorError, OnUnexpectedError, Stopping,
       Finish
  <2>2. QED
    BY <2>1 DEF External
<1>9. QED
  BY <1>2, <1>3, <1>4, <1>5, <1>6, <1>7, <1>8, Zenon DEF Step

LEMMA StepElsewhere ==
  ASSUME NEW w \in Workers, ServiceInv, Step(w)
  PROVE  Elsewhere(Mine(w)) /\ Alone(w)
<1>1. \A k \in Jobs : k # Mine(w) => job'[k] = job[k]
  BY StepRow DEF Put, ServiceInv, StoreTypeOK
<1>2. Alone(w)
  BY StepGoes DEF Goes, Alone, ServiceInv, LocalsOK
<1>3. QED
  BY <1>1, <1>2, StepAround DEF Elsewhere, Aside
-----------------------------------------------------------------------------
(* Steps of workers preserve the invariant.                                *)

\* A worker has its job to itself: it is not in the queue, and no lease of it
\* has expired.
LEMMA HolderJob ==
  ASSUME NEW w \in Workers, Acting(w)
  PROVE  LET j == Mine(w) IN
         /\ j \in Jobs /\ Exists(j) /\ job[j].state # QUEUED
         /\ job[j].state \in Over <=> LeasesOf(j) = {}
         /\ job[j].state \notin Over => Renewable(j, OwnerOf[w]) /\ worker[w].beat # "off"
         /\ j \notin ExpiredJobs
<1> DEFINE j == Mine(w)
<1>1. j \in Jobs /\ job[j].state \in Held \cup Over
  BY HolderFacts DEF Expects
<1>2. job[j].state \notin Over => Renewable(j, OwnerOf[w]) /\ worker[w].beat # "off"
  BY DEF Acting, Owned, OwnershipInv, HolderOK
<1>3. job[j].state \in Over => LeasesOf(j) = {}
  BY <1>1 DEF Acting, Owned, LeaseInv, StoppedHoldsNoLease, StoppedStates, Over
<1>4. Renewable(j, OwnerOf[w]) => LeasesOf(j) # {} /\ \A l \in LeasesOf(j) : l.live
  BY DEF Renewable, LiveLeases, LeasesOf, Acting, Owned, LeaseTable
<1>5. j \notin ExpiredJobs
  BY <1>2, <1>3, <1>4 DEF ExpiredJobs
<1>6. QED
  BY <1>1, <1>2, <1>3, <1>4, <1>5 DEF Held, Over, Exists

\* The new values of the worker, and how its end is told from the rest.
LEMMA WorksFacts ==
  ASSUME NEW w \in Workers, Acting(w), Works(w)
  PROVE  LET j == Mine(w) IN
         /\ Holder(w)' /\ Mine(w)' = j
         /\ LocalOK(worker[w], job[j], running[j])'
         /\ leases' = leases /\ worker'[w].beat = worker[w].beat
         /\ job'[j].state \in Held \cup Over
         /\ job'[j].state \in Over <=> job[j].state \in Over
         /\ job'[j].state = REVIEWING => job[j].state \notin Over
<1> DEFINE j == Mine(w)
<1>1. LocalOK(worker'[w], job'[j], running'[j])
  BY DEF Works
<1>2. Holder(w)' /\ Mine(w)' = j
  BY DEF Works, Holder, Mine
<1>3. job'[j].state \in Held \cup Over
  BY <1>1 DEF LocalOK, Expects
<1>4. QED
  BY <1>1, <1>2, <1>3 DEF Works, Mine, Over

\* A step at the job of w, which no other worker has: what it needs to keep.
LEMMA OthersHold ==
  ASSUME NEW j \in Jobs, Owned, Elsewhere(j), NEW v \in Workers, worker'[v] = worker[v],
         Holder(v) => Mine(v) # j, LeasesAside(j)
  PROVE  HolderOK(v)'
<1> SUFFICES ASSUME Holder(v)'
             PROVE  /\ LocalOK(worker[v], job[Mine(v)], running[Mine(v)])'
                    /\ job'[Mine(v)'].state \notin Over =>
                         Renewable(Mine(v), OwnerOf[v])' /\ worker'[v].beat # "off"
  BY DEF HolderOK
<1> DEFINE k == Mine(v)
<1>1. Holder(v) /\ Mine(v)' = k /\ HolderOK(v) /\ Acting(v)
  BY DEF Holder, Mine, Owned, OwnershipInv, Acting
<1>2. k \in Jobs /\ k # j
  BY <1>1, HolderFacts
<1>3. job'[k] = job[k] /\ running'[k] = running[k]
  BY <1>2 DEF Elsewhere, Aside
<1>4. Renewable(k, OwnerOf[v]) => Renewable(Mine(v), OwnerOf[v])'
  BY <1>1, <1>2 DEF Renewable, LiveLeases, LeasesAside, WithoutLeaseOf
<1>5. LocalOK(worker'[v], job'[k], running'[k])
  BY <1>1, <1>3 DEF HolderOK
<1>6. QED
  BY <1>1, <1>3, <1>4, <1>5 DEF HolderOK, Mine

\* Likewise of the jobs and leases that are not j's.
LEMMA OthersRows ==
  ASSUME NEW j \in Jobs, Owned, Elsewhere(j), NEW k \in Jobs, k # j,
         LeasesOf(k)' = LeasesOf(k),
         \A v \in Workers : Mine(v) = k /\ worker[v].pc \in Writing => worker'[v] = worker[v]
  PROVE  JobOK(k)'
<1>1. job'[k] = job[k] /\ running'[k] = running[k] /\ pull'[k] = pull[k] /\ branch'[k] = branch[k]
  BY DEF Elsewhere, Aside
<1>2. JobOK(k)
  BY DEF Owned, OwnershipInv
<1>3. (\E v \in Workers : Mine(v) = k /\ worker[v].pc \in Writing) =>
        (\E v \in Workers : Mine(v)' = k /\ worker'[v].pc \in Writing)
  BY DEF Mine
<1>4. QED
  BY <1>1, <1>2, <1>3 DEF JobOK, Exists

LEMMA OthersLeases ==
  ASSUME NEW j \in Jobs, Owned, Elsewhere(j), up' = up, NEW l \in leases, l.job # j,
         \A v \in Workers : Holder(v) /\ Mine(v) = l.job => worker'[v] = worker[v]
  PROVE  LeaseOK(l)'
<1>1. l.job \in Jobs /\ LeaseOK(l)
  BY DEF Owned, OwnershipInv, ServiceInv, StoreTypeOK, LeaseRow
<1>2. job'[l.job] = job[l.job]
  BY <1>1 DEF Elsewhere, Aside
<1>3. (\E v \in Workers : Holder(v) /\ Mine(v) = l.job /\ OwnerOf[v] = l.owner) =>
        (\E v \in Workers : Holder(v)' /\ Mine(v)' = l.job /\ OwnerOf[v] = l.owner)
  BY DEF Holder, Mine
<1>4. QED
  BY <1>1, <1>2, <1>3 DEF LeaseOK

LEMMA OthersThreads ==
  ASSUME NEW j \in Jobs, Owned, Elsewhere(j), UNCHANGED <<thread, up>>, NEW t \in Threads,
         LeasesAside(j),
         thread[t].pc \in {"recover", "giveUp", "reap", "requeue", "lookUp", "create"} =>
           Its(t) # j
  PROVE  ThreadCalm(t)'
<1> DEFINE r == thread[t] k == thread[t].job
<1>1. r.pc \notin {"idle", "dead"} => k \in Jobs
  BY ThreadFacts DEF Owned
<1>2. ThreadCalm(t)
  BY DEF Owned, OwnershipInv
<1>3. thread' = thread
  OBVIOUS
<1>4. CASE r.pc \in {"recover", "giveUp", "reap", "requeue", "lookUp", "create"}
  <2>1. k \in Jobs /\ k # j
    BY <1>1, <1>4 DEF Its
  <2>2. job'[k] = job[k] /\ running'[k] = running[k]
    BY <2>1 DEF Elsewhere, Aside
  <2>3. LeasesOf(k)' = LeasesOf(k)
    BY <1>3, <2>1 DEF LeasesOf, LeasesAside, WithoutLeaseOf
  <2>4. k \in ExpiredJobs => (k \in ExpiredJobs)'
    BY <2>1, <2>3, <1>3 DEF ExpiredJobs
  <2>5. Read(k)' = Read(k)
    BY <1>3, <2>2 DEF Read
  <2>6. QED
    BY <1>2, <1>3, <2>2, <2>3, <2>4, <2>5 DEF ThreadCalm, Exists
<1>5. CASE r.pc \notin {"recover", "giveUp", "reap", "requeue", "lookUp", "create"}
  BY <1>2, <1>3, <1>5 DEF ThreadCalm, Recovering
<1>6. QED
  BY <1>4, <1>5

\* None of a worker's job is in the hands of recovery or of intake.
LEMMA ThreadsElsewhere ==
  ASSUME NEW w \in Workers, Acting(w), NEW t \in Threads,
         thread[t].pc \in {"recover", "giveUp", "reap", "requeue", "lookUp", "create"}
  PROVE  Its(t) # Mine(w)
<1>1. ThreadCalm(t)
  BY DEF Acting, Owned, OwnershipInv
<1>2. SUFFICES ASSUME Its(t) = Mine(w) PROVE FALSE
  OBVIOUS
<1>3. /\ thread[t].pc \in {"recover", "giveUp", "reap"} => Mine(w) \in ExpiredJobs
      /\ thread[t].pc \in {"lookUp", "create"} => ~Exists(Mine(w))
      /\ thread[t].pc = "requeue" => job[Mine(w)].state = PR_OPEN /\ LeasesOf(Mine(w)) = {}
  BY <1>1, <1>2 DEF ThreadCalm, Its
<1>4. PR_OPEN \notin Over
  BY DEF Over
<1>5. QED
  BY <1>3, <1>4, HolderJob

LEMMA WorksJobOK ==
  ASSUME NEW w \in Workers, Acting(w), NEW j, j = Mine(w), Works(w), Elsewhere(j)
  PROVE  JobOK(j)'
<1> DEFINE n == worker'[w] row == job'[j]
<1>1. /\ j \in Jobs /\ row.state \in Held \cup Over
      /\ LocalOK(n, row, running'[j]) /\ leases' = leases
      /\ row.state = REVIEWING => LeasesOf(j) # {}
  BY WorksFacts, HolderJob DEF Works
<1>2. JobOK(j)
  BY <1>1 DEF Acting, Owned, OwnershipInv
<1>3. row.state # QUEUED /\ Exists(j)'
  BY <1>1 DEF Held, Over, Exists
<1>4. LegacyBounded => row.attempt <= MaxAttempts
  BY <1>2 DEF JobOK, Works
<1>5. Polled /\ row.state = REVIEWING /\ ~row.repair => row.conv \notin running'[j]
  BY <1>1 DEF LocalOK, Expects, Early, Still
<1>6. Undisturbed /\ running'[j] # {} => n.pc \in Writing
  BY <1>1 DEF LocalOK, Still
<1>7. Mine(w)' = j
  BY WorksFacts
<1>8. Unmerged => pull'[j] # "merged"
  BY <1>1, <1>2 DEF JobOK, Elsewhere
<1>9. LeasesOf(j)' = LeasesOf(j)
  BY <1>1 DEF LeasesOf
<1>10. QED
  BY <1>1, <1>3, <1>4, <1>5, <1>6, <1>7, <1>8, <1>9 DEF JobOK

LEMMA QuitsJobOK ==
  ASSUME NEW w \in Workers, Acting(w), NEW j, j = Mine(w), Quits(w), Elsewhere(j)
  PROVE  JobOK(j)'
<1> DEFINE row == job'[j]
<1>1. /\ j \in Jobs /\ LocalOK(worker[w], job[j], running[j])
      /\ running'[j] = running[j] /\ row.conv = job[j].conv /\ row.attempt = job[j].attempt
      /\ worker[w].pc \notin Writing
  BY HolderFacts DEF Quits
<1>2. JobOK(j) /\ Still(job[j], running[j])
  BY <1>1 DEF Acting, Owned, OwnershipInv, LocalOK
<1>3. /\ row.state = QUEUED => LeasesOf(j)' = {}
      /\ row.state \notin {REVIEWING, Absent}
  BY HolderFacts DEF Quits, LeasesOf, WithoutLeaseOf, Over
<1>4. QED
  BY <1>1, <1>2, <1>3 DEF JobOK, Still, Elsewhere, Exists

LEMMA WorkerKeeps ==
  ASSUME NEW w \in Workers, Acting(w), Works(w) \/ Quits(w), Elsewhere(Mine(w)), Alone(w),
         UNCHANGED <<thread, up>>
  PROVE  OwnershipInv'
<1> PICK j \in Jobs : j = Mine(w)
  BY HolderFacts
<1>1. Owned /\ OwnershipInv
  BY DEF Acting, Owned
<1>2. \A v \in Workers : Holder(v) /\ Mine(v) = j => v = w
  BY <1>1 DEF OwnershipInv, Apart, Acting
<1>3. \A v \in Workers : v # w => worker'[v] = worker[v]
  BY DEF Alone
<1>4. LeasesAside(j) /\ leases' \subseteq leases
  BY DEF Works, Quits, LeasesAside, WithoutLeaseOf
<1>5. \A v \in Workers : v # w => HolderOK(v)'
  BY <1>1, <1>2, <1>3, <1>4, OthersHold
<1>6. HolderOK(w)' /\ (Holder(w)' => Mine(w)' = j)
  <2>1. CASE Works(w)
    <3>1. job'[j].state \notin Over => Renewable(j, OwnerOf[w])' /\ worker'[w].beat # "off"
      BY <2>1, WorksFacts, HolderJob DEF Renewable, LiveLeases
    <3>2. QED
      BY <2>1, <3>1, WorksFacts DEF HolderOK
  <2>2. CASE Quits(w)
    BY <2>2 DEF Quits, HolderOK, Holder, Mine
  <2>3. QED
    BY <2>1, <2>2
<1>7. Apart'
  <2>1. ASSUME NEW v \in Workers, Holder(v)' PROVE Holder(v) /\ Mine(v)' = Mine(v)
    BY <1>3, <1>6, <2>1 DEF Holder, Mine, Acting
  <2>2. QED
    BY <1>1, <2>1 DEF OwnershipInv, Apart
<1>8. ASSUME NEW k \in Jobs PROVE JobOK(k)'
  <2>1. CASE k = j
    BY <2>1, WorksJobOK, QuitsJobOK
  <2>2. CASE k # j
    <3>1. LeasesOf(k)' = LeasesOf(k)
      BY <1>4, <2>2 DEF LeasesOf, LeasesAside, WithoutLeaseOf
    <3>2. QED
      BY <1>1, <1>3, <2>2, <3>1, OthersRows
  <2>3. QED
    BY <2>1, <2>2
<1>9. ASSUME NEW l \in leases' PROVE LeaseOK(l)'
  <2>1. l \in leases
    BY <1>4
  <2>2. CASE l.job # j
    BY <1>1, <1>3, <2>1, <2>2, OthersLeases
  <2>3. CASE l.job = j
    <3>1. Works(w)
      BY <2>1, <2>3, HolderJob DEF Quits, LeasesOf, WithoutLeaseOf
    <3>2. LeaseOK(l) /\ job'[j].route = job[j].route /\ Holder(w)' /\ Mine(w)' = j
      BY <1>1, <2>1, <3>1, WorksFacts DEF OwnershipInv, Works
    <3>3. l.owner \in up => OwnerOf[w] = l.owner
      BY <1>2, <2>3, <3>2 DEF LeaseOK
    <3>4. QED
      BY <2>3, <3>2, <3>3 DEF LeaseOK
  <2>4. QED
    BY <2>2, <2>3
<1>10. ASSUME NEW t \in Threads PROVE ThreadCalm(t)'
  BY <1>1, <1>4, OthersThreads, ThreadsElsewhere
<1>11. NoneCrashed'
  BY <1>1 DEF OwnershipInv, NoneCrashed
<1>12. QED
  BY <1>5, <1>6, <1>7, <1>8, <1>9, <1>10, <1>11 DEF OwnershipInv

\* Steps that touch neither the tables nor what a worker relies on.
SameWork(v) ==
  LET r == worker[v] n == worker'[v] IN
  /\ n.pc = r.pc /\ n.job = r.job /\ n.seen = r.seen /\ n.run = r.run
  /\ n.then = r.then /\ n.to = r.to
  /\ n.beat = r.beat \/ n.beat # "off" \/ job[Mine(v)].state \in Over

LEMMA CalmerLocals ==
  ASSUME NEW r, NEW n, NEW row, NEW cs, NEW less, less \subseteq cs, LocalOK(r, row, cs),
         n.pc = r.pc, n.seen = r.seen, n.run = r.run, n.then = r.then, n.to = r.to
  PROVE  LocalOK(n, row, less)
<1>1. Expects(n, row.state)
  BY DEF LocalOK, Expects, Early, Between, Late
<1>2. QED
  BY <1>1 DEF LocalOK, Still

LEMMA QuietCore ==
  ASSUME Owned, UNCHANGED <<job, leases, up>>,
         \A v \in Workers : Holder(v)' <=> Holder(v),
         \A v \in Workers : Holder(v) => SameWork(v),
         \A k \in Jobs : running'[k] \subseteq running[k],
         \A k \in Jobs : pull'[k] = "merged" /\ Unmerged => pull[k] = "merged",
         \A k \in Jobs : ~Exists(k) /\ pull[k] = "none" /\ branch[k] = "none"
                           => pull'[k] = "none" /\ branch'[k] = "none"
  PROVE  Core'
<1>1. OwnershipInv /\ ServiceInv
  BY DEF Owned
<1>2. ASSUME NEW v \in Workers, Holder(v) PROVE Mine(v)' = Mine(v) /\ Mine(v) \in Jobs
  BY <1>2, HolderFacts DEF SameWork, Mine, Acting
<1>3. ASSUME NEW v \in Workers PROVE HolderOK(v)'
  <2> SUFFICES ASSUME Holder(v)' PROVE HolderOK(v)'
    BY DEF HolderOK
  <2> PICK k \in Jobs : k = Mine(v)
    BY <1>2
  <2>1. Holder(v) /\ SameWork(v) /\ HolderOK(v) /\ Mine(v)' = k
    BY <1>1, <1>2 DEF OwnershipInv
  <2>2. LocalOK(worker'[v], job'[k], running'[k])
    BY <2>1, CalmerLocals DEF SameWork, HolderOK
  <2>3. job'[k].state \notin Over => Renewable(k, OwnerOf[v])' /\ worker'[v].beat # "off"
    BY <2>1 DEF SameWork, HolderOK, Renewable, LiveLeases
  <2>4. QED
    BY <2>1, <2>2, <2>3 DEF HolderOK
<1>4. Apart'
  BY <1>1, <1>2 DEF OwnershipInv, Apart
<1>5. ASSUME NEW k \in Jobs PROVE JobOK(k)'
  <2>1. JobOK(k) /\ LeasesOf(k)' = LeasesOf(k) /\ running'[k] \subseteq running[k]
        /\ job'[k] = job[k]
    BY <1>1 DEF OwnershipInv, LeasesOf
  <2>2. ASSUME NEW v \in Workers, Mine(v) = k, worker[v].pc \in Writing
        PROVE  Mine(v)' = k /\ worker'[v].pc \in Writing
    <3>1. Holder(v)
      BY <2>2 DEF Holder
    <3>2. QED
      BY <1>2, <2>2, <3>1 DEF SameWork
  <2>3. Undisturbed /\ running'[k] # {} =>
          \E v \in Workers : Mine(v)' = k /\ worker'[v].pc \in Writing
    BY <2>1, <2>2 DEF JobOK
  <2>4. QED
    BY <2>1, <2>3 DEF JobOK, Exists
<1>6. ASSUME NEW l \in leases' PROVE LeaseOK(l)'
  <2>1. l \in leases /\ LeaseOK(l)
    BY <1>1 DEF OwnershipInv
  <2>2. ASSUME NEW v \in Workers, Holder(v), Mine(v) = l.job
        PROVE  Holder(v)' /\ Mine(v)' = l.job
    BY <1>2, <2>2
  <2>3. QED
    BY <2>1, <2>2 DEF LeaseOK
<1>7. NoneCrashed'
  BY <1>1 DEF OwnershipInv, NoneCrashed
<1>8. QED
  BY <1>3, <1>4, <1>5, <1>6, <1>7 DEF Core

LEMMA QuietKeeps ==
  ASSUME Owned, UNCHANGED <<job, leases, thread, up>>,
         \A v \in Workers : Holder(v)' <=> Holder(v),
         \A v \in Workers : Holder(v) => SameWork(v),
         \A k \in Jobs : running'[k] \subseteq running[k],
         \A k \in Jobs : pull'[k] = "merged" /\ Unmerged => pull[k] = "merged",
         \A k \in Jobs : ~Exists(k) /\ pull[k] = "none" /\ branch[k] = "none"
                           => pull'[k] = "none" /\ branch'[k] = "none"
  PROVE  OwnershipInv'
<1>1. ASSUME NEW t \in Threads PROVE ThreadCalm(t)'
  <2>1. ThreadCalm(t) /\ (thread[t].pc \notin {"idle", "dead"} => Its(t) \in Jobs)
    BY ThreadFacts DEF Owned, OwnershipInv
  <2>2. thread' = thread /\ up' = up /\ job' = job /\ leases' = leases
    OBVIOUS
  <2>3. Read(Its(t))' = Read(Its(t)) /\ ExpiredJobs' = ExpiredJobs
        /\ LeasesOf(Its(t))' = LeasesOf(Its(t)) /\ (Exists(Its(t))' <=> Exists(Its(t)))
    BY <2>2 DEF Read, ExpiredJobs, LeasesOf, Its, Exists
  <2>4. QED
    BY <2>1, <2>2, <2>3 DEF ThreadCalm, Its
<1>2. QED
  BY <1>1, QuietCore DEF OwnershipInv, Core

LEMMA RunOwned ==
  ASSUME Owned, NEW w \in Workers, Run(w)
  PROVE  OwnershipInv'
<1>1. ServiceInv /\ Step(w) /\ worker[w].pc # "idle" /\ UNCHANGED <<thread, up>>
  BY Awake DEF Run, Owned
<1>2. CASE Holder(w)
  <2>1. Acting(w) /\ Elsewhere(Mine(w)) /\ Alone(w)
    BY <1>1, <1>2, StepElsewhere DEF Acting
  <2>2. Works(w) \/ Quits(w)
    BY <1>1, <2>1, StepWorks
  <2>3. QED
    BY <1>1, <2>1, <2>2, WorkerKeeps
<1>3. CASE ~Holder(w)
  <2>1. worker[w].pc = "finish" /\ Finish(w)
    BY <1>1, <1>3, Awake DEF Holder
  <2>2. UNCHANGED <<job, leases, running, pull, branch, thread, up>>
    BY <1>1, <2>1 DEF Finish, Move, External, storeVars
  <2>3. worker'[w].pc = "idle" /\ Alone(w)
    BY <2>1 DEF Finish, Move, Idle, Alone, Owned, ServiceInv, LocalsOK
  <2>4. \A v \in Workers : /\ Holder(v)' <=> Holder(v)
                           /\ Holder(v) => SameWork(v)
    BY <1>3, <2>3 DEF Holder, SameWork, Alone
  <2>5. QED
    BY <2>2, <2>4, QuietKeeps
<1>4. QED
  BY <1>2, <1>3

LEMMA BeatOwned ==
  ASSUME Owned, NEW w \in Workers, Beat(w)
  PROVE  OwnershipInv'
<1> DEFINE r == worker[w]
<1>1. PICK beat \in {"off", "flagged"} :
        /\ Move(w, [r EXCEPT !.beat = beat])
        /\ beat = "off" => ~Renewable(Mine(w), OwnerOf[w])
  BY DEF Beat, HeartbeatLost, HeartbeatFlags
<1>2. /\ CancelRun(OwnerOf[w], Mine(w), job[Mine(w)])
      /\ UNCHANGED <<job, leases, pull, branch, thread, up>>
  BY DEF Beat, HeartbeatLost, HeartbeatFlags, GitHub, Move, storeVars
<1> DEFINE n == [r EXCEPT !.beat = beat]
<1>3. worker'[w] = n /\ Alone(w) /\ r \in WorkerRow /\ running \in [Jobs -> SUBSET Convs]
  BY <1>1 DEF Move, Alone, Owned, ServiceInv, LocalsOK, ExternalsOK
<1> HIDE DEF r
<1>4. /\ n.pc = r.pc /\ n.job = r.job /\ n.seen = r.seen /\ n.run = r.run
      /\ n.then = r.then /\ n.to = r.to /\ n.beat = beat
  BY <1>3 DEF WorkerRow
<1> HIDE DEF n
<1>5. \A v \in Workers : Holder(v)' <=> Holder(v)
  BY <1>3, <1>4 DEF Holder, Alone, r
<1>6. ASSUME NEW v \in Workers, Holder(v) PROVE SameWork(v)
  <2>1. CASE v # w
    BY <1>3, <2>1 DEF Alone, SameWork
  <2>2. CASE v = w
    <3>1. beat = "off" => job[Mine(w)].state \in Over
      BY <1>1, <1>6, <2>2, HolderJob DEF Acting
    <3>2. QED
      BY <1>3, <1>4, <2>2, <3>1 DEF SameWork, r
  <2>3. QED
    BY <2>1, <2>2
<1>7. \A k \in Jobs : running'[k] \subseteq running[k]
  <2>1. \/ \E target : running' = [running EXCEPT ![Mine(w)] = @ \ {target}]
        \/ UNCHANGED running
    BY <1>2, Zenon DEF CancelRun
  <2>2. QED
    BY <1>3, <2>1
<1>8. QED
  BY <1>2, <1>5, <1>6, <1>7, QuietKeeps
-----------------------------------------------------------------------------
(* So do claims, crashes and what happens around the service.              *)

\* A queued job is nobody's, and quiet.
LEMMA QueuedFree ==
  ASSUME Owned, NEW j \in Jobs, job[j].state = QUEUED
  PROVE  /\ \A w \in Workers : Holder(w) => Mine(w) # j
         /\ LeasesOf(j) = {} /\ Still(job[j], running[j])
<1>1. \A w \in Workers : Holder(w) => Mine(w) # j
  BY HolderJob DEF Acting
<1>2. JobOK(j)
  BY DEF Owned, OwnershipInv
<1>3. \A w \in Workers : worker[w].pc \in Writing => Holder(w)
  BY DEF Holder
<1>4. QED
  BY <1>1, <1>2, <1>3 DEF JobOK, Still

LEMMA TickOwned ==
  ASSUME Owned, NEW w \in Workers, NEW j \in Jobs, Tick(w, j)
  PROVE  OwnershipInv'
<1> DEFINE seen == Returned(j)
           n == [Idle EXCEPT !.pc = "preflight", !.job = j, !.seen = seen, !.beat = "on"]
           lease == [key |-> job[j].route.key, job |-> j, owner |-> OwnerOf[w], live |-> TRUE]
           row == [job[j] EXCEPT !.state = RUNNING, !.repair = FALSE]
<1>1. /\ OwnerOf[w] \in up /\ ClaimNext(j, OwnerOf[w]) /\ ~Busy(w)
      /\ worker' = [worker EXCEPT ![w] = n]
      /\ UNCHANGED <<running, pull, branch, thread, up>>
  BY DEF Tick, Claim, External
<1>2. ServiceInv /\ OwnershipInv /\ job[j] \in JobRow /\ job \in [Jobs -> JobRow]
      /\ worker \in [Workers -> WorkerRow]
  BY DEF Owned, ServiceInv, StoreTypeOK, LocalsOK
<1>3. job[j].state = QUEUED /\ leases' = leases \cup {lease} /\ job' = [job EXCEPT ![j] = row]
  BY <1>1 DEF ClaimNext, ClaimCandidates, Claimable, Put
<1>4. /\ \A v \in Workers : Holder(v) => Mine(v) # j
      /\ LeasesOf(j) = {} /\ Still(job[j], running[j])
  BY <1>3, QueuedFree
<1>5. /\ job'[j].state = RUNNING /\ job'[j].conv = job[j].conv
      /\ job'[j].attempt = job[j].attempt /\ job'[j].route = job[j].route
      /\ \A k \in Jobs : k # j => job'[k] = job[k]
  BY <1>2, <1>3 DEF JobRow
<1>6. /\ lease.key = job[j].route.key /\ lease.job = j /\ lease.owner = OwnerOf[w] /\ lease.live
  OBVIOUS
<1>7. /\ n.pc = "preflight" /\ n.job = j /\ n.seen = seen /\ n.beat = "on"
      /\ worker'[w] = n /\ Alone(w)
  BY <1>1, <1>2 DEF Idle, Alone
<1>8. seen.attempt = job'[j].attempt /\ seen.content = job'[j].content
  BY ReturnedFacts
<1> HIDE DEF seen, n, row, lease
<1>9. Elsewhere(j) /\ LeasesAside(j)
  BY <1>1, <1>3, <1>4, <1>5, <1>6 DEF Elsewhere, Aside, LeasesAside, WithoutLeaseOf
<1>10. ~Holder(w) /\ Holder(w)' /\ Mine(w)' = j
  BY <1>1, <1>7 DEF Holder, Mine, Busy, At
<1>11. HolderOK(w)'
  <2>1. LocalOK(n, job'[j], running'[j])
    <3>1. job'[j].attempt \in Nat
      BY <1>2, <1>5 DEF JobRow
    <3>2. QED
      BY <1>1, <1>4, <1>5, <1>7, <1>8, <3>1
         DEF LocalOK, Expects, Early, Between, Late, Held, Still
  <2>2. Renewable(j, OwnerOf[w])'
    BY <1>3, <1>6 DEF Renewable, LiveLeases
  <2>3. QED
    BY <1>7, <1>10, <2>1, <2>2 DEF HolderOK
<1>12. ASSUME NEW v \in Workers, v # w PROVE HolderOK(v)'
  BY <1>4, <1>7, <1>9, <1>12, OthersHold DEF Alone
<1>13. Apart'
  <2>1. ASSUME NEW v \in Workers, v # w, Holder(v)' PROVE Holder(v) /\ Mine(v)' = Mine(v)
    BY <1>7, <2>1 DEF Holder, Mine, Alone
  <2>2. QED
    BY <1>2, <1>4, <1>10, <2>1 DEF OwnershipInv, Apart
<1>14. ASSUME NEW k \in Jobs PROVE JobOK(k)'
  <2>1. CASE k = j
    BY <1>1, <1>2, <1>4, <1>5, <2>1 DEF JobOK, OwnershipInv, Still, Exists
  <2>2. CASE k # j
    <3>1. LeasesOf(k)' = LeasesOf(k)
      BY <1>3, <1>6, <2>2 DEF LeasesOf
    <3>2. \A v \in Workers : worker[v].pc \in Writing => worker'[v] = worker[v]
      BY <1>7, <1>10 DEF Alone, Holder
    <3>3. QED
      BY <1>9, <2>2, <3>1, <3>2, OthersRows
  <2>3. QED
    BY <2>1, <2>2
<1>15. ASSUME NEW l \in leases' PROVE LeaseOK(l)'
  <2>1. CASE l = lease
    BY <1>1, <1>5, <1>6, <1>10, <2>1 DEF LeaseOK
  <2>2. CASE l \in leases
    <3>1. l.job # j
      BY <1>4, <2>2 DEF LeasesOf
    <3>2. \A v \in Workers : Holder(v) => worker'[v] = worker[v]
      BY <1>7, <1>10 DEF Alone
    <3>3. QED
      BY <1>1, <1>9, <2>2, <3>1, <3>2, OthersLeases
  <2>3. QED
    BY <1>3, <2>1, <2>2
<1>16. ASSUME NEW t \in Threads PROVE ThreadCalm(t)'
  <2>1. ASSUME Its(t) = j
        PROVE  thread[t].pc \notin {"recover", "giveUp", "reap", "requeue", "lookUp", "create"}
    BY <1>2, <1>3, <1>4, <2>1
       DEF OwnershipInv, ThreadCalm, Its, Exists, ExpiredJobs
  <2>2. QED
    BY <1>1, <1>9, <2>1, OthersThreads
<1>17. NoneCrashed'
  BY <1>1, <1>2 DEF OwnershipInv, NoneCrashed
<1>18. QED
  BY <1>11, <1>12, <1>13, <1>14, <1>15, <1>16, <1>17 DEF OwnershipInv

LEMMA CrashOwned ==
  ASSUME Owned, NEW o \in Owners, Crash(o)
  PROVE  OwnershipInv'
<1> DEFINE dead == [Resting EXCEPT !.pc = "dead"]
<1>1. /\ "crash" \in Faults /\ up' = up \ {o}
      /\ UNCHANGED <<job, leases, running, pull, branch>>
  BY DEF Crash, storeVars, GitHub
<1>2. /\ OwnershipInv /\ ServiceInv
      /\ \A v \in Workers : worker'[v] = IF OwnerOf[v] = o THEN Idle ELSE worker[v]
      /\ \A t \in Threads : thread'[t] = IF ProcessOf[t] = o THEN dead ELSE thread[t]
  BY DEF Crash, Owned, ServiceInv, LocalsOK
<1>3. dead.pc = "dead" /\ Idle.pc = "idle"
  BY DEF Resting, Idle
<1> HIDE DEF dead
<1>4. ASSUME NEW v \in Workers, Holder(v)'
      PROVE  Holder(v) /\ worker'[v] = worker[v] /\ Mine(v)' = Mine(v)
  BY <1>2, <1>3, <1>4 DEF Holder, Mine
<1>5. ASSUME NEW v \in Workers PROVE HolderOK(v)'
  <2>1. Renewable(Mine(v), OwnerOf[v]) /\ Mine(v)' = Mine(v) => Renewable(Mine(v), OwnerOf[v])'
    BY <1>1 DEF Renewable, LiveLeases
  <2>2. QED
    BY <1>1, <1>2, <1>4, <2>1 DEF OwnershipInv, HolderOK
<1>6. Apart'
  BY <1>2, <1>4 DEF OwnershipInv, Apart
<1>7. ASSUME NEW k \in Jobs PROVE JobOK(k)'
  BY <1>1, <1>2 DEF OwnershipInv, JobOK, Undisturbed, LeasesOf, Exists
<1>8. ASSUME NEW l \in leases' PROVE LeaseOK(l)'
  <2>1. LeaseOK(l)
    BY <1>1, <1>2 DEF OwnershipInv
  <2>2. ASSUME NEW v \in Workers, Holder(v), OwnerOf[v] # o
        PROVE  Holder(v)' /\ Mine(v)' = Mine(v)
    BY <1>2, <2>2 DEF Holder, Mine
  <2>3. QED
    BY <1>1, <2>1, <2>2 DEF LeaseOK
<1>9. ASSUME NEW t \in Threads PROVE ThreadCalm(t)'
  <2>1. CASE ProcessOf[t] = o
    BY <1>2, <1>3, <2>1 DEF ThreadCalm, Idling, Taking, Recovering
  <2>2. CASE ProcessOf[t] # o
    <3>1. ThreadCalm(t) /\ thread'[t] = thread[t]
      BY <1>2, <2>2 DEF OwnershipInv
    <3>2. \A u \in Threads : thread[u].pc = "dead" => thread'[u].pc = "dead"
      BY <1>2, <1>3
    <3>3. /\ \A j : LeasesOf(j)' = LeasesOf(j) /\ (Exists(j)' <=> Exists(j)) /\ Read(j)' = Read(j)
          /\ ExpiredJobs' = ExpiredJobs
      BY <1>1 DEF LeasesOf, Exists, Read, ExpiredJobs
    <3>4. QED
      BY <1>1, <2>2, <3>1, <3>2, <3>3 DEF ThreadCalm
  <2>3. QED
    BY <2>1, <2>2
<1>10. NoneCrashed'
  BY <1>1 DEF NoneCrashed
<1>11. QED
  BY <1>5, <1>6, <1>7, <1>8, <1>9, <1>10 DEF OwnershipInv

LEMMA AroundOwned ==
  ASSUME Owned,
         \/ \E j \in Jobs : Agents(j) \/ Humans(j)
         \/ \E p \in Providers : Recovered(p)
         \/ UNCHANGED serviceVars
  PROVE  OwnershipInv'
<1>1. UNCHANGED <<job, leases, worker, thread, up>>
  BY DEF Agents, ConversationEnds, Humans, EditIssue, Merge, Recovered, BackoffElapses,
         serviceVars, workVars, storeVars
<1>2. \A v \in Workers : SameWork(v) /\ (Holder(v)' <=> Holder(v))
  BY <1>1 DEF SameWork, Holder
<1>3. /\ running \in [Jobs -> SUBSET Convs]
      /\ pull \in [Jobs -> {"none", "open", "merged"}]
  BY DEF Owned, ServiceInv, ExternalsOK
<1>4. CASE \E j \in Jobs : Agents(j)
  <2>1. \A k \in Jobs : running'[k] \subseteq running[k]
    BY <1>3, <1>4 DEF Agents, ConversationEnds
  <2>2. UNCHANGED <<pull, branch>>
    BY <1>4 DEF Agents, ConversationEnds, GitHub
  <2>3. QED
    BY <1>1, <1>2, <2>1, <2>2, QuietKeeps
<1>5. CASE \E j \in Jobs : Merge(j)
  <2>1. \A k \in Jobs : pull[k] = "none" => pull'[k] = "none"
    BY <1>3, <1>5 DEF Merge
  <2>2. ~Unmerged /\ UNCHANGED <<running, branch>>
    BY <1>5 DEF Merge, Unmerged
  <2>3. QED
    BY <1>1, <1>2, <2>1, <2>2, QuietKeeps
<1>6. CASE UNCHANGED <<running, pull, branch>>
  BY <1>1, <1>2, <1>6, QuietKeeps
<1>7. QED
  BY <1>4, <1>5, <1>6 DEF Humans, EditIssue, Recovered, workVars, serviceVars

\* A lease that lapses is nobody's: its worker's heartbeat is off, or its
\* process has crashed.
LEMMA LapseOwned ==
  ASSUME Owned, "stall" \notin Faults, NEW l \in leases, Lapse(l)
  PROVE  OwnershipInv'
<1> DEFINE m == [l EXCEPT !.live = FALSE]
<1>1. /\ ~Renewed(l) /\ l.live /\ leases' = (leases \ {l}) \cup {m}
      /\ UNCHANGED <<job, worker, running, pull, branch, thread, up>>
  BY DEF Lapse, Expires, LeaseExpires, LiveLeases, workVars
<1>2. OwnershipInv /\ ServiceInv /\ leases \subseteq LeaseRow /\ LeaseTable
  BY DEF Owned, ServiceInv, StoreTypeOK
<1>3. m.key = l.key /\ m.job = l.job /\ m.owner = l.owner /\ ~m.live /\ l.job \in Jobs
  BY <1>2 DEF LeaseRow
<1> HIDE DEF m
<1>4. \A v \in Workers : (Holder(v)' <=> Holder(v)) /\ Mine(v)' = Mine(v)
  BY <1>1 DEF Holder, Mine
<1>5. ASSUME NEW v \in Workers, Holder(v), Mine(v) = l.job, OwnerOf[v] = l.owner PROVE FALSE
  <2>1. Acting(v) /\ worker[v].beat = "off"
    BY <1>1, <1>5 DEF Acting, Renewed
  <2>2. LeasesOf(Mine(v)) = {}
    BY <2>1, HolderJob
  <2>3. QED
    BY <1>5, <2>2 DEF LeasesOf
<1>6. l.owner \notin up
  BY <1>2, <1>5 DEF OwnershipInv, LeaseOK
<1>7. ASSUME NEW v \in Workers PROVE HolderOK(v)'
  <2> SUFFICES ASSUME Holder(v)
               PROVE  /\ LocalOK(worker[v], job[Mine(v)], running[Mine(v)])
                      /\ job[Mine(v)].state \notin Over =>
                           Renewable(Mine(v), OwnerOf[v])' /\ worker[v].beat # "off"
    BY <1>1, <1>4 DEF HolderOK
  <2>1. HolderOK(v) /\ (Renewable(Mine(v), OwnerOf[v]) => Renewable(Mine(v), OwnerOf[v])')
    BY <1>1, <1>2, <1>4, <1>5 DEF OwnershipInv, Renewable, LiveLeases
  <2>2. QED
    BY <2>1 DEF HolderOK
<1>8. Apart'
  BY <1>2, <1>4 DEF OwnershipInv, Apart
<1>9. \A k : (LeasesOf(k)' = {} <=> LeasesOf(k) = {}) /\ (k \in ExpiredJobs => (k \in ExpiredJobs)')
  BY <1>1, <1>3 DEF LeasesOf, ExpiredJobs
<1>10. ASSUME NEW k \in Jobs PROVE JobOK(k)'
  BY <1>1, <1>2, <1>4, <1>9 DEF OwnershipInv, JobOK, Exists
<1>11. ASSUME NEW n \in leases' PROVE LeaseOK(n)'
  BY <1>1, <1>2, <1>3, <1>4, <1>6 DEF OwnershipInv, LeaseOK
<1>12. ASSUME NEW t \in Threads PROVE ThreadCalm(t)'
  <2>1. ThreadCalm(t) /\ \A k : Read(k)' = Read(k) /\ (Exists(k)' <=> Exists(k))
    BY <1>1, <1>2 DEF OwnershipInv, Read, Exists
  <2>2. QED
    BY <1>1, <1>9, <2>1 DEF ThreadCalm
<1>13. NoneCrashed'
  BY <1>1, <1>2 DEF OwnershipInv, NoneCrashed
<1>14. QED
  BY <1>7, <1>8, <1>10, <1>11, <1>12, <1>13 DEF OwnershipInv
-----------------------------------------------------------------------------
(* And so do the control-plane threads.                                    *)

\* A store call of a thread for the job j, which may have a worker.
LEMMA ControlCore ==
  ASSUME Owned, UNCHANGED <<worker, up>>, NEW j \in Jobs, Elsewhere(j), LeasesAside(j),
         leases' \subseteq leases, JobOK(j)',
         LeasesOf(j)' = {} \/ job'[j].route = job[j].route,
         \A v \in Workers : Holder(v) /\ Mine(v) = j => HolderOK(v)'
  PROVE  Core'
<1>1. OwnershipInv
  BY DEF Owned
<1>2. \A v \in Workers : /\ worker'[v] = worker[v] /\ Mine(v)' = Mine(v)
                         /\ Holder(v)' <=> Holder(v)
  BY DEF Mine, Holder
<1>3. ASSUME NEW v \in Workers PROVE HolderOK(v)'
  <2>1. CASE ~Holder(v)
    BY <1>2, <2>1 DEF HolderOK
  <2>2. CASE Holder(v) /\ Mine(v) # j
    BY <1>2, <2>2, OthersHold
  <2>3. QED
    BY <2>1, <2>2
<1>4. Apart'
  BY <1>1, <1>2 DEF OwnershipInv, Apart
<1>5. ASSUME NEW k \in Jobs PROVE JobOK(k)'
  <2>1. CASE k # j
    <3>1. LeasesOf(k)' = LeasesOf(k)
      BY <2>1 DEF LeasesOf, LeasesAside, WithoutLeaseOf
    <3>2. QED
      BY <1>2, <2>1, <3>1, OthersRows
  <2>2. QED
    BY <2>1
<1>6. ASSUME NEW l \in leases' PROVE LeaseOK(l)'
  <2>1. CASE l.job # j
    BY <1>2, <2>1, OthersLeases
  <2>2. CASE l.job = j
    <3>1. LeaseOK(l) /\ job'[j].route = job[j].route
      BY <1>1, <2>2 DEF OwnershipInv, LeasesOf
    <3>2. QED
      BY <1>2, <2>2, <3>1 DEF LeaseOK
  <2>3. QED
    BY <2>1, <2>2
<1>7. NoneCrashed'
  BY <1>1 DEF OwnershipInv, NoneCrashed
<1>8. QED
  BY <1>3, <1>4, <1>5, <1>6, <1>7 DEF Core

\* One for a job without a worker, which leaves it without a lease.
LEMMA FreeCore ==
  ASSUME Owned, UNCHANGED <<worker, up, running, pull, branch>>, NEW j \in Jobs,
         \A v \in Workers : Holder(v) => Mine(v) # j,
         \A k \in Jobs : k # j => job'[k] = job[k],
         leases' = WithoutLeaseOf(j), job'[j].state \notin {Absent, REVIEWING},
         Polled /\ job'[j].state = QUEUED => job'[j].conv \notin running[j],
         job'[j].attempt = job[j].attempt \/ job'[j].attempt <= MaxAttempts
  PROVE  Core'
<1>1. JobOK(j)
  BY DEF Owned, OwnershipInv
<1>2. LeasesOf(j)' = {} /\ LeasesAside(j) /\ leases' \subseteq leases
  BY DEF LeasesOf, WithoutLeaseOf, LeasesAside
<1>3. \A v \in Workers : worker[v].pc \in Writing => Holder(v)
  BY DEF Holder
<1>4. JobOK(j)'
  BY <1>1, <1>2, <1>3 DEF JobOK, Exists
<1>5. Elsewhere(j)
  BY DEF Elsewhere, Aside
<1>6. QED
  BY <1>2, <1>4, <1>5, ControlCore

\* One that asks the worker of a running job to stop.
LEMMA FlagCore ==
  ASSUME Owned, UNCHANGED <<worker, up, running, pull, branch>>, NEW j \in Jobs,
         \A k \in Jobs : k # j => job'[k] = job[k],
         leases' = leases, RowKept(j), job'[j].repair = job[j].repair
  PROVE  Core'
<1>1. OwnershipInv
  BY DEF Owned
<1>2. LeasesOf(j)' = LeasesOf(j) /\ LeasesAside(j) /\ (Exists(j)' <=> Exists(j))
  BY DEF LeasesOf, WithoutLeaseOf, LeasesAside, RowKept, Exists
<1>3. JobOK(j)'
  <2>1. JobOK(j) /\ \A v \in Workers : worker'[v] = worker[v] /\ Mine(v)' = Mine(v)
    BY <1>1 DEF OwnershipInv, Mine
  <2>2. QED
    BY <1>2, <2>1 DEF JobOK, RowKept
<1>4. ASSUME NEW v \in Workers, Holder(v), Mine(v) = j PROVE HolderOK(v)'
  <2>1. /\ LocalOK(worker[v], job[j], running[j])
        /\ job[j].state \notin Over => Renewable(j, OwnerOf[v]) /\ worker[v].beat # "off"
    BY <1>1, <1>4 DEF OwnershipInv, HolderOK
  <2>2. LocalOK(worker'[v], job'[j], running'[j])
    BY <2>1 DEF LocalOK, Still, RowKept
  <2>3. Renewable(j, OwnerOf[v])' <=> Renewable(j, OwnerOf[v])
    BY DEF Renewable, LiveLeases
  <2>4. Mine(v)' = j
    BY <1>4 DEF Mine
  <2>5. QED
    BY <2>1, <2>2, <2>3, <2>4 DEF HolderOK, RowKept
<1>5. Elsewhere(j)
  BY DEF Elsewhere, Aside
<1>6. QED
  BY <1>2, <1>3, <1>4, <1>5, ControlCore DEF RowKept

\* And one that ends a published job, under its worker or not.
LEMMA OverExpected ==
  ASSUME NEW r, NEW s, Expects(r, s), NEW over \in Over, s # RUNNING,
         s = REVIEWING => ~Unmerged
  PROVE  Expects(r, over)
<1>1. s \in {PR_OPEN, REVIEWING} \cup Over /\ over # RUNNING
  BY DEF Expects, Held, Over
<1>2. s \in {REVIEWING} \cup Ended => over \in Ended
  BY <1>1 DEF Ended, Over
<1>3. QED
  BY <1>1, <1>2 DEF Expects, Over, Ended

LEMMA OverCore ==
  ASSUME Owned, UNCHANGED <<worker, up, running, pull, branch>>, NEW j \in Jobs,
         \A k \in Jobs : k # j => job'[k] = job[k],
         leases' = WithoutLeaseOf(j), job[j].state # RUNNING, job'[j].state \in Over,
         job[j].state = REVIEWING => ~Unmerged,
         job'[j].attempt = job[j].attempt, job'[j].conv = job[j].conv,
         job'[j].content = job[j].content
  PROVE  Core'
<1>1. JobOK(j)
  BY DEF Owned, OwnershipInv
<1>2. LeasesOf(j)' = {} /\ LeasesAside(j) /\ leases' \subseteq leases
  BY DEF LeasesOf, WithoutLeaseOf, LeasesAside
<1>3. job'[j].state \notin {QUEUED, REVIEWING, Absent, RUNNING}
  BY DEF Over
<1>4. JobOK(j)'
  <2>1. \A v \in Workers : worker'[v] = worker[v] /\ Mine(v)' = Mine(v)
    BY DEF Mine
  <2>2. QED
    BY <1>1, <1>3, <2>1 DEF JobOK, Exists
<1>5. Elsewhere(j)
  BY DEF Elsewhere, Aside
<1>6. ASSUME NEW v \in Workers, Holder(v), Mine(v) = j PROVE HolderOK(v)'
  <2>1. LocalOK(worker[v], job[j], running[j]) /\ Expects(worker[v], job[j].state)
    BY <1>6, HolderFacts DEF Acting
  <2>2. Expects(worker[v], job'[j].state)
    BY <2>1, OverExpected
  <2>3. LocalOK(worker'[v], job'[j], running'[j])
    BY <1>3, <2>1, <2>2 DEF LocalOK, Still
  <2>4. Mine(v)' = j
    BY <1>6 DEF Mine
  <2>5. QED
    BY <2>3, <2>4 DEF HolderOK
<1>7. QED
  BY <1>2, <1>4, <1>5, <1>6, ControlCore

\* Two threads are at work on the store only when neither touches a row the
\* other has read and counts on.
LEMMA OthersCalm ==
  ASSUME QuietIntake, Owned, NEW t \in Threads, thread[t].pc # "dead", up' = up,
         \A u \in Threads : u # t => thread'[u] = thread[u],
         ThreadCalm(t)'
  PROVE  \A u \in Threads : ThreadCalm(u)'
<1>1. OwnershipInv
  BY DEF Owned
<1>2. ASSUME NEW u \in Threads, u # t PROVE ThreadCalm(u)'
  <2>1. ThreadCalm(u) /\ thread'[u] = thread[u]
    BY <1>1, <1>2 DEF OwnershipInv
  <2>2. thread[u].pc \notin Recovering
    BY <1>2, <2>1 DEF ThreadCalm
  <2>3. thread[u].pc \notin Taking
    BY <1>2, <2>1 DEF ThreadCalm, QuietIntake
  <2>4. QED
    BY <2>1, <2>2, <2>3 DEF ThreadCalm, Taking, Recovering
<1>3. QED
  BY <1>2

\* The locals of threads after a step.
PlansTo(t, pc, then) == thread' = [thread EXCEPT ![t] = Planning(t, pc, then)]
DecidesTo(t, pc) == thread' = [thread EXCEPT ![t] = Deciding(t, pc)]

LEMMA ThenMoves ==
  ASSUME Owned, NEW t \in Threads, NEW pc, Then(t, pc)
  PROVE  LET r == thread[t] n == thread'[t] IN
         /\ \A u \in Threads : u # t => thread'[u] = thread[u]
         /\ pc # "idle" => n.pc = pc /\ n.job = r.job
<1>1. thread[t] \in ThreadRow /\ thread \in [Threads -> ThreadRow]
  BY DEF Owned, ServiceInv, LocalsOK
<1>2. \A u \in Threads : u # t => thread'[u] = thread[u]
  BY <1>1 DEF Then, Done
<1>3. pc # "idle" => thread'[t] = [thread[t] EXCEPT !.pc = pc]
  BY <1>1 DEF Then
<1>4. QED
  BY <1>1, <1>2, <1>3 DEF ThreadRow

LEMMA PlanMoves ==
  ASSUME Owned, NEW t \in Threads, NEW pc, NEW then,
         PlansTo(t, pc, then)
  PROVE  LET r == thread[t] n == thread'[t] IN
         /\ \A u \in Threads : u # t => thread'[u] = thread[u]
         /\ n.pc = pc /\ n.job = r.job /\ n.cmd = r.cmd /\ n.then = then
<1>1. thread[t] \in ThreadRow /\ thread \in [Threads -> ThreadRow]
  BY DEF Owned, ServiceInv, LocalsOK
<1>2. thread'[t] = Planning(t, pc, then) /\ \A u \in Threads : u # t => thread'[u] = thread[u]
  BY <1>1 DEF PlansTo
<1>3. QED
  BY <1>1, <1>2 DEF ThreadRow, Planning

LEMMA DecideMoves ==
  ASSUME Owned, NEW t \in Threads, NEW pc, DecidesTo(t, pc)
  PROVE  LET r == thread[t] n == thread'[t] IN
         /\ \A u \in Threads : u # t => thread'[u] = thread[u]
         /\ n.pc = pc /\ n.job = r.job
<1> DEFINE row == Read(Its(t))
<1>1. thread[t] \in ThreadRow /\ thread \in [Threads -> ThreadRow]
  BY DEF Owned, ServiceInv, LocalsOK
<1>2. /\ thread'[t] = [thread[t] EXCEPT !.pc = pc, !.row = row]
      /\ \A u \in Threads : u # t => thread'[u] = thread[u]
  BY <1>1 DEF Deciding, DecidesTo
<1> HIDE DEF row
<1>3. QED
  BY <1>1, <1>2 DEF ThreadRow

LEMMA RestCalm ==
  ASSUME QuietIntake, Owned, NEW t \in Threads, thread[t].pc # "dead", up' = up,
         Done(t) \/ Raises(t)
  PROVE  \A u \in Threads : ThreadCalm(u)'
<1> DEFINE dead == [Resting EXCEPT !.pc = "dead"]
<1>1. ProcessOf[t] \in up /\ thread \in [Threads -> ThreadRow]
  BY DEF Owned, OwnershipInv, ThreadCalm, ServiceInv, LocalsOK
<1>2. PICK n \in {Resting, dead} : thread' = [thread EXCEPT ![t] = n]
  BY DEF Done, Raises
<1>3. n.pc \in {"idle", "dead"}
  BY <1>2 DEF Resting
<1> HIDE DEF dead
<1>4. thread'[t] = n
  BY <1>1, <1>2
<1>5. ThreadCalm(t)'
  BY <1>1, <1>3, <1>4 DEF ThreadCalm, Idling, Taking, Recovering
<1>6. QED
  BY <1>2, <1>5, OthersCalm

\* A step of a thread that writes no table, but may interrupt a conversation.
LEMMA IdleCore ==
  ASSUME Owned, UNCHANGED <<job, leases, worker, pull, branch, up>>,
         \A k \in Jobs : running'[k] \subseteq running[k]
  PROVE  Core'
<1>1. \A v \in Workers : SameWork(v) /\ (Holder(v)' <=> Holder(v))
  BY DEF SameWork, Holder
<1>2. QED
  BY <1>1, QuietCore

\* What a lease that lapsed says of the threads.
LEMMA RecoversAlone ==
  ASSUME RecoveryAlone, Owned, NEW t \in Threads, thread[t].pc # "dead",
         NEW j \in Jobs, j \in ExpiredJobs
  PROVE  \A u \in Threads : u # t => thread[u].pc = "dead"
<1>1. PICK l \in leases : ~l.live
  BY DEF ExpiredJobs, LeasesOf
<1>2. l.owner \in Owners /\ l.owner \notin up
  BY <1>1 DEF Owned, OwnershipInv, LeaseOK, ServiceInv, StoreTypeOK, LeaseRow
<1>3. "crash" \in Faults
  BY <1>2 DEF Owned, OwnershipInv, NoneCrashed
<1>4. ProcessOf[t] \in up
  BY DEF Owned, OwnershipInv, ThreadCalm
<1>5. ASSUME NEW u \in Threads, u # t PROVE thread[u].pc = "dead"
  <2>1. l.owner = ProcessOf[u]
    BY <1>2, <1>3, <1>4, <1>5 DEF RecoveryAlone
  <2>2. QED
    BY <1>2, <2>1 DEF Owned, OwnershipInv, ThreadCalm
<1>6. QED
  BY <1>5

LEMMA OperationsOwned ==
  ASSUME Calm, Owned, NEW t \in Threads,
         Recover(t) \/ Reconcile(t) \/ Operate(t) \/ Report(t) \/ Fault(t)
  PROVE  OwnershipInv'
<1>1. In(t, "idle") /\ UNCHANGED <<storeVars, workVars, up>>
  BY Zenon DEF Recover, ExpiredFound, Reconcile, MergedFound, Operate, Command, Report,
     IssueReported, Fault, TickRaises
<1>2. /\ UNCHANGED <<job, leases, worker, running, pull, branch, up>>
      /\ thread[t].pc = "idle" /\ ProcessOf[t] \in up /\ thread \in [Threads -> ThreadRow]
  BY <1>1 DEF storeVars, workVars, In, Owned, OwnershipInv, ThreadCalm, ServiceInv, LocalsOK
<1>3. Core'
  BY <1>2, IdleCore
<1>4. SUFFICES \A u \in Threads : ThreadCalm(u)'
  BY <1>3 DEF OwnershipInv, Core
<1>5. CASE Recover(t)
  <2>1. PICK j \in Jobs : ExpiredFound(t, j)
    BY <1>5 DEF Recover
  <2> DEFINE row == Read(j)
             n == [Resting EXCEPT !.pc = "recover", !.job = j, !.row = row]
  <2>2. thread' = [thread EXCEPT ![t] = n] /\ thread'[t] = n /\ j \in ExpiredJobs
    BY <1>2, <2>1 DEF ExpiredFound
  <2>3. row' = row /\ ExpiredJobs' = ExpiredJobs
    BY <1>2 DEF Read, ExpiredJobs, LeasesOf
  <2> HIDE DEF row
  <2>4. n.pc = "recover" /\ n.job = j /\ n.row = row
    BY DEF Resting
  <2> HIDE DEF n
  <2>5. \A u \in Threads : u # t => thread'[u].pc = "dead"
    BY <1>2, <2>2, RecoversAlone DEF Calm
  <2>6. ThreadCalm(t)'
    BY <1>2, <2>2, <2>3, <2>4, <2>5 DEF ThreadCalm, Idling, Taking, Recovering, row
  <2>7. QED
    BY <1>2, <2>2, <2>6, OthersCalm DEF Calm
<1>6. CASE Reconcile(t)
  <2>1. PICK j \in Jobs : MergedFound(t, j)
    BY <1>6 DEF Reconcile
  <2> DEFINE n == [Resting EXCEPT !.pc = "merged", !.job = j]
  <2>2. thread' = [thread EXCEPT ![t] = n] /\ thread'[t] = n /\ pull[j] = "merged"
    BY <1>2, <2>1 DEF MergedFound
  <2>3. n.pc = "merged"
    BY DEF Resting
  <2> HIDE DEF n
  <2>4. ~Unmerged
    BY <2>2 DEF Owned, OwnershipInv, JobOK
  <2>5. ThreadCalm(t)'
    BY <1>2, <2>2, <2>3, <2>4 DEF ThreadCalm, Idling, Taking, Recovering
  <2>6. QED
    BY <1>2, <2>2, <2>5, OthersCalm DEF Calm
<1>7. CASE Operate(t)
  <2>1. PICK j \in Jobs, cmd \in CommandsIn : Command(t, j, cmd)
    BY <1>7 DEF Operate
  <2> DEFINE row == Read(j)
             n == [Resting EXCEPT !.pc = "request", !.job = j, !.cmd = cmd, !.row = row]
  <2>2. thread' = [thread EXCEPT ![t] = n] /\ thread'[t] = n
    BY <1>2, <2>1 DEF Command
  <2> HIDE DEF row
  <2>3. n.pc = "request" /\ n.cmd \in {"pause", "cancel"}
    BY DEF Resting, Calm
  <2> HIDE DEF n
  <2>4. ThreadCalm(t)'
    BY <1>2, <2>2, <2>3 DEF ThreadCalm, Idling, Taking, Recovering
  <2>5. QED
    BY <1>2, <2>2, <2>4, OthersCalm DEF Calm
<1>8. CASE Report(t)
  <2>1. PICK j \in Jobs : IssueReported(t, j)
    BY <1>8 DEF Report
  <2> DEFINE live == issue[j]
             n == [Resting EXCEPT !.pc = "decide", !.job = j, !.live = live]
  <2>2. thread' = [thread EXCEPT ![t] = n] /\ Reports
    BY <1>8, <2>1, Zenon DEF IssueReported, Report
  <2> HIDE DEF live
  <2>3. n.pc = "decide"
    BY DEF Resting
  <2> HIDE DEF n
  <2>4. ThreadCalm(t)'
    BY <1>2, <2>2, <2>3 DEF ThreadCalm, Idling, Taking, Recovering
  <2>5. QED
    BY <1>2, <2>2, <2>4, OthersCalm DEF Calm
<1>9. CASE Fault(t)
  BY <1>2, <1>9, RestCalm DEF Fault, TickRaises, Calm
<1>10. QED
  BY <1>5, <1>6, <1>7, <1>8, <1>9

\* The locals of a thread in the middle of an operation.
LEMMA ControlFacts ==
  ASSUME Calm, Owned, NEW t \in Threads, thread[t].pc \notin {"idle", "dead"}
  PROVE  LET r == thread[t] j == thread[t].job IN
         /\ ServiceInv /\ OwnershipInv /\ QuietIntake /\ ThreadCalm(t) /\ ProcessOf[t] \in up
         /\ j \in Jobs /\ Its(t) = j /\ JobOK(j)
         /\ job \in [Jobs -> JobRow] /\ job[j] \in JobRow
         /\ thread \in [Threads -> ThreadRow] /\ running \in [Jobs -> SUBSET Convs]
  BY ThreadFacts DEF Calm, Owned, OwnershipInv, ThreadCalm, ServiceInv, StoreTypeOK, ExternalsOK

\* transition, as the control plane calls it.
LEMMA TriesFacts ==
  ASSUME Owned, NEW t \in Threads, Its(t) \in Jobs, NEW to \in {NEEDS_GUIDANCE, PR_OPEN, DONE},
         Tries(t, to)
  PROVE  LET j == Its(t) IN
         /\ Done(t) \/ Raises(t)
         /\ \/ UNCHANGED storeVars
            \/ /\ TransitionAllowed(j, to) /\ leases' = WithoutLeaseOf(j)
               /\ job'[j].state = to /\ job'[j].attempt = job[j].attempt
               /\ job'[j].conv = job[j].conv /\ job'[j].content = job[j].content
               /\ \A k \in Jobs : k # j => job'[k] = job[k]
<1> DEFINE j == Its(t)
           row == [job[j] EXCEPT !.state = to, !.repair = FALSE]
<1>1. job \in [Jobs -> JobRow] /\ job[j] \in JobRow
  BY DEF Owned, ServiceInv, StoreTypeOK
<1>2. CASE TransitionAllowed(j, to)
  <2>1. leases' = WithoutLeaseOf(j) /\ job' = [job EXCEPT ![j] = row] /\ Done(t)
    BY <1>2 DEF Tries, Transition, Put
  <2>2. /\ row.state = to /\ row.attempt = job[j].attempt /\ row.conv = job[j].conv
        /\ row.content = job[j].content
    BY <1>1 DEF JobRow
  <2> HIDE DEF row
  <2>3. job'[j] = row /\ \A k \in Jobs : k # j => job'[k] = job[k]
    BY <1>1, <2>1
  <2>4. QED
    BY <1>2, <2>1, <2>2, <2>3
<1>3. CASE ~TransitionAllowed(j, to)
  BY <1>3 DEF Tries
<1>4. QED
  BY <1>2, <1>3

\* Recovery.
LEMMA CancelExpiredOwned ==
  ASSUME Calm, Owned, NEW t \in Threads, CancelExpired(t), UNCHANGED up
  PROVE  OwnershipInv'
<1> DEFINE r == thread[t] j == r.job run == DurableConv(r.row)
<1>1. /\ r.pc = "recover" /\ UNCHANGED <<job, leases, worker, pull, branch, up>>
      /\ \/ r.row.conv = None /\ UNCHANGED running /\ Then(t, "reap")
         \/ running' = [running EXCEPT ![j] = @ \ {run}] /\ Then(t, "reap")
         \/ UNCHANGED running /\ Then(t, "giveUp")
  BY DEF CancelExpired, In, Its, storeVars, GitHub
<1>2. /\ ThreadCalm(t) /\ JobOK(j) /\ j \in Jobs /\ running \in [Jobs -> SUBSET Convs]
      /\ ProcessOf[t] \in up /\ thread \in [Threads -> ThreadRow]
  BY <1>1, ControlFacts
<1>3. r.row.state = job[j].state /\ r.row.conv = job[j].conv /\ r.row.repair = job[j].repair
  BY <1>1, <1>2 DEF ThreadCalm, Read
<1>4. Core'
  BY <1>1, <1>2, IdleCore
<1>5. \/ Then(t, "giveUp")
      \/ Then(t, "reap") /\ (Polled => job'[j].conv \notin running'[j])
  <2>1. run # job[j].conv => job[j].state = REVIEWING /\ ~job[j].repair
    BY <1>3 DEF DurableConv
  <2>2. Polled /\ run # job[j].conv => job[j].conv \notin running[j]
    BY <1>2, <2>1 DEF JobOK
  <2>3. job[j].conv = None => job[j].conv \notin running[j]
    BY <1>2, StoreAssumption
  <2> HIDE DEF run
  <2>4. QED
    BY <1>1, <1>2, <1>3, <2>2, <2>3
<1>6. PICK pc \in {"giveUp", "reap"} :
        Then(t, pc) /\ (Polled /\ pc = "reap" => job'[j].conv \notin running'[j])
  BY <1>5
<1>7. /\ thread'[t].pc = pc /\ thread'[t].job = j
      /\ \A u \in Threads : u # t => thread'[u] = thread[u]
  BY <1>6, ThenMoves
<1>8. ExpiredJobs' = ExpiredJobs
  BY <1>1 DEF ExpiredJobs, LeasesOf
<1>9. ThreadCalm(t)'
  BY <1>1, <1>2, <1>6, <1>7, <1>8 DEF ThreadCalm, Idling, Taking, Recovering
<1>10. QED
  BY <1>1, <1>4, <1>7, <1>9, OthersCalm DEF Calm, OwnershipInv, Core

\* Nobody works on the job whose lease has expired.
LEMMA ExpiredFree ==
  ASSUME Owned, NEW j \in Jobs, j \in ExpiredJobs \/ (LeasesOf(j) = {} /\ job[j].state \notin Over)
  PROVE  \A v \in Workers : Holder(v) => Mine(v) # j
  BY HolderJob DEF Acting

LEMMA GiveUpOwned ==
  ASSUME Calm, Owned, NEW t \in Threads, GiveUp(t), UNCHANGED up
  PROVE  OwnershipInv'
<1> DEFINE j == thread[t].job
<1>1. /\ thread[t].pc = "giveUp" /\ UNCHANGED <<worker, running, pull, branch, up>>
      /\ Tries(t, PR_OPEN) \/ Tries(t, NEEDS_GUIDANCE)
  BY DEF GiveUp, In, workVars
<1>2. ThreadCalm(t) /\ j \in Jobs /\ Its(t) = j
  BY <1>1, ControlFacts
<1>3. PICK to \in {PR_OPEN, NEEDS_GUIDANCE} : Tries(t, to)
  BY <1>1
<1>4. \A v \in Workers : Holder(v) => Mine(v) # j
  BY <1>1, <1>2, ExpiredFree DEF ThreadCalm
<1>5. Core'
  <2>1. CASE UNCHANGED storeVars
    BY <1>1, <2>1, IdleCore DEF storeVars
  <2>2. CASE ~UNCHANGED storeVars
    BY <1>1, <1>2, <1>3, <1>4, <2>2, TriesFacts, FreeCore
  <2>3. QED
    BY <2>1, <2>2
<1>6. QED
  BY <1>1, <1>2, <1>3, <1>5, TriesFacts, RestCalm DEF Calm, OwnershipInv, Core

LEMMA ReapOwned ==
  ASSUME Calm, Owned, NEW t \in Threads, Reap(t), UNCHANGED up
  PROVE  OwnershipInv'
<1> DEFINE r == thread[t] j == r.job
           row == [job[j] EXCEPT !.state = RecoveryState(j), !.repair = FALSE]
<1>1. r.pc = "reap" /\ UNCHANGED <<worker, running, pull, branch, up>>
  BY DEF Reap, In, workVars
<1>2. /\ ThreadCalm(t) /\ j \in Jobs /\ Its(t) = j /\ QuietIntake /\ ProcessOf[t] \in up
      /\ job \in [Jobs -> JobRow] /\ job[j] \in JobRow /\ thread \in [Threads -> ThreadRow]
  BY <1>1, ControlFacts
<1>3. j \in ExpiredJobs /\ (Polled => job[j].conv \notin running[j])
  BY <1>1, <1>2 DEF ThreadCalm
<1>4. /\ leases' = WithoutLeaseOf(j) /\ job' = [job EXCEPT ![j] = row]
      /\ \/ Done(t)
         \/ RecoveryState(j) = PR_OPEN /\ Then(t, "requeue")
  BY <1>2, <1>3 DEF Reap, ReapExpired, Put
<1>5. /\ row.state = RecoveryState(j) /\ row.attempt = job[j].attempt /\ row.conv = job[j].conv
  BY <1>2 DEF JobRow
<1>6. RecoveryState(j) \in {CANCELED, NEEDS_GUIDANCE, PR_OPEN, QUEUED}
  BY DEF RecoveryState
<1> HIDE DEF row
<1>7. job'[j] = row /\ \A k \in Jobs : k # j => job'[k] = job[k]
  BY <1>2, <1>4
<1>8. Core'
  <2>1. \A v \in Workers : Holder(v) => Mine(v) # j
    BY <1>2, <1>3, ExpiredFree
  <2>2. QED
    BY <1>1, <1>2, <1>3, <1>4, <1>5, <1>6, <1>7, <2>1, FreeCore
<1>9. \A u \in Threads : ThreadCalm(u)'
  <2>1. CASE Done(t)
    BY <1>1, <1>2, <2>1, RestCalm
  <2>2. CASE RecoveryState(j) = PR_OPEN /\ Then(t, "requeue")
    <3>1. /\ thread'[t].pc = "requeue" /\ thread'[t].job = j
          /\ \A u \in Threads : u # t => thread'[u] = thread[u]
      BY <2>2, ThenMoves
    <3>2. job'[j].state = PR_OPEN /\ job'[j].conv = job[j].conv
      BY <1>5, <1>7, <2>2
    <3>3. {l \in leases' : l.job = j} = {}
      BY <1>4 DEF WithoutLeaseOf
    <3>4. LeasesOf(j)' = {}
      BY <3>1, <3>3 DEF LeasesOf
    <3>5. ThreadCalm(t)'
      BY <1>1, <1>2, <1>3, <3>1, <3>2, <3>4 DEF ThreadCalm, Idling, Taking, Recovering
    <3>6. QED
      BY <1>1, <1>2, <3>1, <3>5, OthersCalm
  <2>3. QED
    BY <1>4, <2>1, <2>2
<1>10. QED
  BY <1>8, <1>9 DEF OwnershipInv, Core

LEMMA RequeueReviewOwned ==
  ASSUME Calm, Owned, NEW t \in Threads, RequeueReview(t), UNCHANGED up
  PROVE  OwnershipInv'
<1> DEFINE j == thread[t].job
           n == IF Polluted(j) THEN 0 ELSE job[j].attempt
           row == [job[j] EXCEPT !.state = QUEUED, !.retry = TRUE, !.cancel = FALSE,
                                 !.pause = FALSE, !.repair = FALSE, !.attempt = n]
<1>1. /\ thread[t].pc = "requeue" /\ UNCHANGED <<worker, running, pull, branch, up>>
      /\ RequestRequeue(Its(t)) /\ Done(t)
  BY DEF RequeueReview, In, workVars
<1>2. /\ ThreadCalm(t) /\ j \in Jobs /\ Its(t) = j
      /\ job \in [Jobs -> JobRow] /\ job[j] \in JobRow
  BY <1>1, ControlFacts
<1>3. job[j].state = PR_OPEN /\ LeasesOf(j) = {} /\ (Polled => job[j].conv \notin running[j])
  BY <1>1, <1>2 DEF ThreadCalm
<1>4. leases' = leases /\ job' = [job EXCEPT ![j] = row]
  BY <1>1, <1>2, <1>3 DEF RequestRequeue, Requeueable, Put
<1> HIDE DEF n
<1>5. row.state = QUEUED /\ row.conv = job[j].conv /\ row.attempt = n
  BY <1>2 DEF JobRow
<1>6. n = job[j].attempt \/ n <= MaxAttempts
  BY WorkerAssumption DEF n
<1> HIDE DEF row
<1>7. job'[j] = row /\ (\A k \in Jobs : k # j => job'[k] = job[k]) /\ leases' = WithoutLeaseOf(j)
  BY <1>2, <1>3, <1>4 DEF LeasesOf, WithoutLeaseOf
<1>8. \A v \in Workers : Holder(v) => Mine(v) # j
  BY <1>2, <1>3, ExpiredFree DEF Over
<1>9. Core'
  BY <1>1, <1>2, <1>3, <1>5, <1>6, <1>7, <1>8, FreeCore
<1>10. QED
  BY <1>1, <1>9, RestCalm DEF Calm, OwnershipInv, Core

\* The merge of a pull request, which a human may do under a review.
LEMMA CloseMergedOwned ==
  ASSUME Calm, Owned, NEW t \in Threads, CloseMerged(t), UNCHANGED up
  PROVE  OwnershipInv'
<1> DEFINE j == thread[t].job
<1>1. /\ thread[t].pc = "merged" /\ UNCHANGED <<worker, running, pull, branch, up>>
      /\ Tries(t, DONE)
  BY DEF CloseMerged, In, workVars
<1>2. ThreadCalm(t) /\ j \in Jobs /\ Its(t) = j /\ job[j] \in JobRow
  BY <1>1, ControlFacts
<1>3. ~Unmerged
  BY <1>1, <1>2 DEF ThreadCalm
<1>4. Core'
  <2>1. CASE UNCHANGED storeVars
    BY <1>1, <2>1, IdleCore DEF storeVars
  <2>2. CASE ~UNCHANGED storeVars
    <3>1. TransitionAllowed(j, DONE) => job[j].state # RUNNING
      BY DEF TransitionAllowed, ALLOWED_TRANSITIONS, JobState
    <3>2. QED
      BY <1>1, <1>2, <1>3, <2>2, <3>1, TriesFacts, OverCore DEF Over
  <2>3. QED
    BY <2>1, <2>2
<1>5. QED
  BY <1>1, <1>2, <1>4, TriesFacts, RestCalm DEF Calm, OwnershipInv, Core

\* A command takes the job from its worker only when it is published; otherwise
\* it sets a flag the worker will see.
LEMMA CommandCore ==
  ASSUME Owned, NEW j \in Jobs, RequestPause(j) \/ RequestCancel(j),
         UNCHANGED <<worker, up, running, pull, branch>>
  PROVE  Core'
<1>1. job \in [Jobs -> JobRow] /\ job[j] \in JobRow
  BY DEF Owned, ServiceInv, StoreTypeOK
<1> DEFINE put(row) == job' = [job EXCEPT ![j] = row]
<1>2. ASSUME NEW row, put(row)
      PROVE  job'[j] = row /\ \A k \in Jobs : k # j => job'[k] = job[k]
  BY <1>1, <1>2
<1> HIDE DEF put
<1>3. CASE RequestCancel(j) /\ job[j].state \in ACTIVE_STATES
  <2> DEFINE row == [job[j] EXCEPT !.cancel = TRUE]
  <2>1. leases' = leases /\ put(row)
    BY <1>3 DEF RequestCancel, Put, put
  <2>2. /\ row.state = job[j].state /\ row.attempt = job[j].attempt /\ row.conv = job[j].conv
        /\ row.route = job[j].route /\ row.content = job[j].content /\ row.repair = job[j].repair
    BY <1>1 DEF JobRow
  <2> HIDE DEF row
  <2>3. QED
    BY <1>2, <2>1, <2>2, FlagCore DEF RowKept
<1>4. CASE RequestCancel(j) /\ job[j].state \notin ACTIVE_STATES
  <2> DEFINE row == [job[j] EXCEPT !.cancel = TRUE, !.state = CANCELED, !.repair = FALSE]
  <2>1. leases' = WithoutLeaseOf(j) /\ put(row)
    BY <1>4 DEF RequestCancel, Put, put
  <2>2. /\ row.state \in Over /\ row.attempt = job[j].attempt /\ row.conv = job[j].conv
        /\ row.content = job[j].content
    BY <1>1 DEF JobRow, Over
  <2> HIDE DEF row
  <2>3. QED
    BY <1>2, <1>4, <2>1, <2>2, OverCore DEF ACTIVE_STATES
<1>5. CASE RequestPause(j) /\ job[j].state # QUEUED
  <2> DEFINE row == [job[j] EXCEPT !.pause = TRUE]
  <2>1. leases' = leases /\ put(row)
    BY <1>5 DEF RequestPause, Put, put
  <2>2. /\ row.state = job[j].state /\ row.attempt = job[j].attempt /\ row.conv = job[j].conv
        /\ row.route = job[j].route /\ row.content = job[j].content /\ row.repair = job[j].repair
    BY <1>1 DEF JobRow
  <2> HIDE DEF row
  <2>3. QED
    BY <1>2, <2>1, <2>2, FlagCore DEF RowKept
<1>6. CASE RequestPause(j) /\ job[j].state = QUEUED
  <2> DEFINE row == [job[j] EXCEPT !.pause = TRUE, !.state = NEEDS_GUIDANCE, !.repair = FALSE]
  <2>1. leases' = WithoutLeaseOf(j) /\ put(row)
    BY <1>6 DEF RequestPause, Put, put
  <2>2. row.state = NEEDS_GUIDANCE /\ row.attempt = job[j].attempt
    BY <1>1 DEF JobRow
  <2> HIDE DEF row
  <2>3. QED
    BY <1>2, <1>6, <2>1, <2>2, QueuedFree, FreeCore
<1>7. QED
  BY <1>3, <1>4, <1>5, <1>6

LEMMA RequestOwned ==
  ASSUME Calm, Owned, NEW t \in Threads, Request(t), UNCHANGED up
  PROVE  OwnershipInv'
<1> DEFINE r == thread[t] j == r.job
<1>1. /\ r.pc = "request" /\ UNCHANGED <<worker, running, pull, branch, up>>
      /\ UNCHANGED storeVars \/ RequestControl(Its(t), r.cmd)
  BY DEF Request, In, workVars
<1>2. /\ ThreadCalm(t) /\ j \in Jobs /\ Its(t) = j /\ QuietIntake /\ ProcessOf[t] \in up
      /\ thread \in [Threads -> ThreadRow]
  BY <1>1, ControlFacts
<1>3. r.cmd \in {"pause", "cancel"}
  BY <1>1, <1>2 DEF ThreadCalm
<1>4. Core'
  <2>1. CASE UNCHANGED storeVars
    BY <1>1, <2>1, IdleCore DEF storeVars
  <2>2. CASE RequestControl(j, r.cmd)
    <3>1. RequestPause(j) \/ RequestCancel(j)
      BY <1>3, <2>2 DEF RequestControl
    <3>2. QED
      BY <1>1, <1>2, <3>1, CommandCore
  <2>3. QED
    BY <1>1, <1>2, <2>1, <2>2
<1>5. PICK then \in {"idle", "interrupt"} : PlansTo(t, "labels", then)
  BY <1>3 DEF Request, Planning, PlansTo
<1>6. /\ thread'[t].pc = "labels" /\ thread'[t].cmd = r.cmd /\ thread'[t].then = then
      /\ \A u \in Threads : u # t => thread'[u] = thread[u]
  BY <1>5, PlanMoves
<1>7. ThreadCalm(t)'
  BY <1>1, <1>2, <1>3, <1>6 DEF ThreadCalm, Idling, Taking, Recovering
<1>8. QED
  BY <1>1, <1>2, <1>4, <1>6, <1>7, OthersCalm DEF OwnershipInv, Core

\* Then of a control-plane thread, to a phase that asks nothing of the store.
LEMMA ThenCalm ==
  ASSUME Calm, Owned, NEW t \in Threads, thread[t].pc \notin {"idle", "dead"}, up' = up,
         NEW pc \in {"idle", "interrupt"}, Then(t, pc)
  PROVE  \A u \in Threads : ThreadCalm(u)'
<1>1. CASE pc = "idle"
  BY <1>1, RestCalm DEF Then, Calm
<1>2. CASE pc = "interrupt"
  <2>1. thread'[t].pc = "interrupt" /\ \A u \in Threads : u # t => thread'[u] = thread[u]
    BY <1>2, ThenMoves
  <2>2. ThreadCalm(t)'
    BY <2>1, ControlFacts DEF ThreadCalm, Idling, Taking, Recovering
  <2>3. QED
    BY <2>1, <2>2, OthersCalm DEF Calm
<1>3. QED
  BY <1>1, <1>2

\* The rest of an operator's command.
LEMMA AfterCommandOwned ==
  ASSUME Calm, Owned, NEW t \in Threads, SetLabels(t) \/ Interrupt(t), UNCHANGED up
  PROVE  OwnershipInv'
<1>1. CASE SetLabels(t)
  <2>1. /\ thread[t].pc = "labels"
        /\ Then(t, thread[t].then) \/ Done(t)
        /\ UNCHANGED <<job, leases, worker, running, pull, branch, up>>
    BY <1>1 DEF SetLabels, In, storeVars
  <2>2. Core'
    BY <2>1, IdleCore
  <2>3. thread[t].then \in {"idle", "interrupt"}
    BY <2>1, ControlFacts DEF ThreadCalm
  <2>4. \A u \in Threads : ThreadCalm(u)'
    BY <2>1, <2>3, ThenCalm, RestCalm DEF Calm
  <2>5. QED
    BY <2>2, <2>4 DEF OwnershipInv, Core
<1>2. CASE Interrupt(t)
  <2>1. /\ thread[t].pc = "interrupt" /\ Done(t)
        /\ UNCHANGED <<job, leases, worker, pull, branch, up>>
        /\ CancelRun(ProcessOf[t], Its(t), thread[t].row)
    BY <1>2, Zenon DEF Interrupt, In, storeVars, GitHub
  <2>2. \/ \E target : running' = [running EXCEPT ![Its(t)] = @ \ {target}]
        \/ UNCHANGED running
    BY <2>1, Zenon DEF CancelRun
  <2>3. \A k \in Jobs : running'[k] \subseteq running[k]
    BY <2>1, <2>2, ControlFacts
  <2>4. Core'
    BY <2>1, <2>3, IdleCore
  <2>5. QED
    BY <2>1, <2>4, RestCalm DEF Calm, OwnershipInv, Core
<1>3. QED
  BY <1>1, <1>2

\* Intake.
LEMMA DecideOwned ==
  ASSUME Calm, Owned, NEW t \in Threads, Decide(t) \/ Skip(t), UNCHANGED up
  PROVE  OwnershipInv'
<1>1. /\ thread[t].pc \in {"decide", "skip"}
      /\ UNCHANGED <<job, leases, worker, running, pull, branch, up>>
  BY DEF Decide, Skip, In, storeVars, workVars
<1>2. Core'
  BY <1>1, IdleCore
<1>3. CASE Skip(t)
  BY <1>1, <1>2, <1>3, RestCalm DEF Skip, Calm, OwnershipInv, Core
<1>4. CASE Decide(t)
  <2> DEFINE j == thread[t].job
             pc == Decision(job[j], thread[t].live)
  <2>1. ThreadCalm(t) /\ Its(t) = j /\ ProcessOf[t] \in up /\ Reports /\ QuietIntake
    BY <1>1, ControlFacts DEF ThreadCalm, Taking
  <2>2. DecidesTo(t, pc)
    BY <1>4, <2>1 DEF Decide, DecidesTo, Deciding
  <2>3. pc \in {"lookUp", "skip", "update", "halt"} /\ (pc = "lookUp" => ~Exists(j))
    BY DEF Decision, Exists, ACTIVE_STATES
  <2> HIDE DEF pc
  <2>4. /\ thread'[t].pc = pc /\ thread'[t].job = j
        /\ \A u \in Threads : u # t => thread'[u] = thread[u]
    BY <2>2, DecideMoves
  <2>5. ThreadCalm(t)'
    BY <1>1, <2>1, <2>3, <2>4 DEF ThreadCalm, Idling, Taking, Recovering, Exists
  <2>6. QED
    BY <1>1, <1>2, <2>1, <2>4, <2>5, OthersCalm DEF OwnershipInv, Core
<1>5. QED
  BY <1>3, <1>4

LEMMA LookUpOwned ==
  ASSUME Calm, Owned, NEW t \in Threads, LookUp(t), UNCHANGED up
  PROVE  OwnershipInv'
<1> DEFINE j == thread[t].job
<1>1. /\ thread[t].pc = "lookUp"
      /\ UNCHANGED <<job, leases, worker, running, pull, branch, up>>
  BY DEF LookUp, In, storeVars, workVars
<1>2. /\ ThreadCalm(t) /\ Its(t) = j /\ ProcessOf[t] \in up /\ Reports /\ QuietIntake
      /\ ~Exists(j) /\ JobOK(j)
  BY <1>1, ControlFacts DEF ThreadCalm, Taking
<1>3. pull[j] = "none" /\ branch[j] = "none"
  BY <1>2 DEF JobOK, QuietIntake
<1>4. PlansTo(t, "create", "idle")
  BY <1>2, <1>3 DEF LookUp, PlansTo, Planning
<1>5. /\ thread'[t].pc = "create" /\ thread'[t].job = j /\ thread'[t].then = "idle"
      /\ \A u \in Threads : u # t => thread'[u] = thread[u]
  BY <1>4, PlanMoves
<1>6. ThreadCalm(t)'
  BY <1>1, <1>2, <1>5 DEF ThreadCalm, Idling, Taking, Recovering, Exists
<1>7. QED
  BY <1>1, <1>2, <1>5, <1>6, IdleCore, OthersCalm DEF OwnershipInv, Core

LEMMA HaltOwned ==
  ASSUME Calm, Owned, NEW t \in Threads, Halt(t), UNCHANGED up
  PROVE  OwnershipInv'
<1> DEFINE j == thread[t].job
<1>1. /\ thread[t].pc = "halt" /\ UNCHANGED <<worker, running, pull, branch, up>>
      /\ RequestPause(Its(t)) \/ RequestCancel(Its(t))
      /\ Then(t, "interrupt")
  BY DEF Halt, In, workVars, RequestControl
<1>2. j \in Jobs /\ Its(t) = j
  BY <1>1, ControlFacts
<1>3. Core'
  BY <1>1, <1>2, CommandCore
<1>4. QED
  BY <1>1, <1>3, ThenCalm DEF OwnershipInv, Core

LEMMA UpdateOwned ==
  ASSUME Calm, Owned, NEW t \in Threads, Update(t), UNCHANGED up
  PROVE  OwnershipInv'
<1> DEFINE j == thread[t].job live == thread[t].live
           row == [job[j] EXCEPT !.route = live.route, !.content = live.content]
<1>1. /\ thread[t].pc = "update" /\ UNCHANGED <<worker, running, pull, branch, up>> /\ Done(t)
      /\ UpdateSnapshotIfUnclaimed(Its(t), live.route, live.content) \/ UNCHANGED storeVars
  BY DEF Update, In, workVars
<1>2. j \in Jobs /\ Its(t) = j /\ job \in [Jobs -> JobRow] /\ job[j] \in JobRow
  BY <1>1, ControlFacts
<1>3. Core'
  <2>1. CASE UNCHANGED storeVars
    BY <1>1, <2>1, IdleCore DEF storeVars
  <2>2. CASE UpdateSnapshotIfUnclaimed(j, live.route, live.content)
    <3>1. job[j].state = QUEUED /\ leases' = leases /\ job' = [job EXCEPT ![j] = row]
      BY <2>2 DEF UpdateSnapshotIfUnclaimed, Put
    <3>2. row.state = QUEUED /\ row.conv = job[j].conv /\ row.attempt = job[j].attempt
      BY <1>2, <3>1 DEF JobRow
    <3> HIDE DEF row
    <3>3. job'[j] = row /\ \A k \in Jobs : k # j => job'[k] = job[k]
      BY <1>2, <3>1
    <3>4. /\ \A v \in Workers : Holder(v) => Mine(v) # j
          /\ LeasesOf(j) = {} /\ Still(job[j], running[j])
      BY <1>2, <3>1, QueuedFree
    <3>5. leases' = WithoutLeaseOf(j)
      BY <3>1, <3>4 DEF LeasesOf, WithoutLeaseOf
    <3>6. QED
      BY <1>1, <1>2, <3>2, <3>3, <3>4, <3>5, FreeCore DEF Still
  <2>3. QED
    BY <1>1, <1>2, <2>1, <2>2
<1>4. QED
  BY <1>1, <1>3, RestCalm DEF Calm, OwnershipInv, Core

LEMMA CreateOwned ==
  ASSUME Calm, Owned, NEW t \in Threads, Create(t), UNCHANGED up
  PROVE  OwnershipInv'
<1> DEFINE j == thread[t].job live == thread[t].live
           row == [NewRow EXCEPT !.route = live.route, !.content = live.content]
<1>1. thread[t].pc = "create" /\ UNCHANGED <<worker, running, pull, branch, up>>
  BY DEF Create, In, workVars
<1>2. /\ j \in Jobs /\ Its(t) = j /\ job \in [Jobs -> JobRow] /\ ThreadCalm(t) /\ Reports
      /\ QuietIntake /\ running[j] \subseteq Convs
  BY <1>1, ControlFacts DEF ThreadCalm, Taking
<1>3. ~Exists(j) /\ Done(t)
  BY <1>1, <1>2 DEF ThreadCalm, Create, QuietIntake, Then
<1>4. leases' = leases /\ job' = [job EXCEPT ![j] = row]
  BY <1>2, <1>3 DEF Create, EnsureJob, Put
<1>5. row.state = QUEUED /\ row.conv = None /\ row.attempt = 0
  BY DEF NewRow, AbsentRow
<1> HIDE DEF row
<1>6. job'[j] = row /\ \A k \in Jobs : k # j => job'[k] = job[k]
  BY <1>2, <1>4
<1>7. LeasesOf(j) = {}
  BY <1>2, <1>3 DEF Owned, LeaseInv, StoppedHoldsNoLease, Exists
<1>8. leases' = WithoutLeaseOf(j)
  BY <1>4, <1>7 DEF LeasesOf, WithoutLeaseOf
<1>9. \A v \in Workers : Holder(v) => Mine(v) # j
  BY <1>3, HolderJob DEF Acting
<1>10. None \notin running[j] /\ 0 <= MaxAttempts
  BY <1>2, StoreAssumption, WorkerAssumption
<1>11. Core'
  BY <1>1, <1>2, <1>5, <1>6, <1>8, <1>9, <1>10, FreeCore
<1>12. QED
  BY <1>1, <1>3, <1>11, RestCalm DEF Calm, OwnershipInv, Core

LEMMA ControlOwned ==
  ASSUME Calm, Owned, NEW t \in Threads, Control(t)
  PROVE  OwnershipInv'
<1>1. Continue(t) /\ UNCHANGED up
  BY DEF Control
<1>2. CASE \/ Revalidate(t) \/ Refuse(t) \/ Accept(t) \/ Reroute(t) \/ ReadIssue(t)
           \/ AdoptPr(t) \/ AdoptOpen(t) \/ NeedsGuidance(t)
  <2>1. thread[t].pc \in {"revalidate", "refuse", "accept", "reroute", "intake", "adoptPr",
                          "adoptOpen", "orphan"}
    BY <1>2, Zenon DEF Revalidate, Refuse, Accept, Reroute, ReadIssue, AdoptPr, AdoptOpen,
       NeedsGuidance, In
  <2>2. thread[t].pc \in Idling \cup Recovering \cup Taking
    BY DEF Owned, OwnershipInv, ThreadCalm
  <2>3. QED
    BY <2>1, <2>2 DEF Idling, Recovering, Taking
<1>3. QED
  BY <1>1, <1>2, CancelExpiredOwned, GiveUpOwned, ReapOwned, RequeueReviewOwned,
     CloseMergedOwned, RequestOwned, AfterCommandOwned, DecideOwned, LookUpOwned, HaltOwned,
     UpdateOwned, CreateOwned, Zenon DEF Continue
-----------------------------------------------------------------------------
(* The whole service.                                                      *)

LEMMA OwnedInit == Init => Owned
<1> SUFFICES ASSUME Init PROVE Owned
  OBVIOUS
<1>1. ServiceInv /\ LeaseInv
  BY ServiceInit, LeaseInvInit
<1>2. leases = {} /\ \A j \in Jobs : LeasesOf(j) = {} /\ running[j] = {}
  BY DEF Init, StoreInit, LeasesOf
<1>3. \A w \in Workers : ~Holder(w)
  BY DEF Init, Holder, Idle
<1>4. \A j \in Jobs : /\ job[j].state \in {Absent, QUEUED, FAILED}
                      /\ job[j].attempt \in {0} \cup LegacyAttempts
  <2>1. AbsentRow.state = Absent /\ AbsentRow.attempt = 0
    BY DEF AbsentRow
  <2>2. NewRow.state = QUEUED /\ NewRow.attempt = 0
    BY DEF NewRow, AbsentRow
  <2>3. ASSUME NEW s \in {QUEUED, FAILED}, NEW n \in LegacyAttempts, NEW p \in BOOLEAN
        PROVE  LegacyRow(s, n, p).state = s /\ LegacyRow(s, n, p).attempt = n
    BY DEF LegacyRow, AbsentRow
  <2>4. \A row \in LegacyRows : row.state \in {QUEUED, FAILED} /\ row.attempt \in LegacyAttempts
    BY <2>3 DEF LegacyRows
  <2>5. \A row \in {AbsentRow, NewRow} \cup LegacyRows :
          row.state \in {Absent, QUEUED, FAILED} /\ row.attempt \in {0} \cup LegacyAttempts
    BY <2>1, <2>2, <2>4
  <2>6. QED
    BY <2>5 DEF Init, StoreInit
<1>5. ASSUME NEW j \in Jobs PROVE JobOK(j)
  <2>1. LegacyBounded => job[j].attempt <= MaxAttempts
    BY <1>4, WorkerAssumption DEF LegacyBounded
  <2>2. pull[j] # "merged" /\ (Found = {"nothing"} => pull[j] = "none" /\ branch[j] = "none")
    BY DEF Init
  <2>3. QED
    BY <1>2, <1>4, <2>1, <2>2 DEF JobOK
<1>6. ASSUME NEW t \in Threads PROVE ThreadCalm(t)
  <2>1. thread[t].pc = "idle" /\ ProcessOf[t] \in up
    BY CoordinatorAssumption DEF Init, Resting
  <2>2. QED
    BY <2>1 DEF ThreadCalm, Idling, Taking, Recovering
<1>7. NoneCrashed
  BY DEF Init, NoneCrashed
<1>8. OwnershipInv
  BY <1>2, <1>3, <1>5, <1>6, <1>7 DEF OwnershipInv, HolderOK, Apart
<1>9. QED
  BY <1>1, <1>2, <1>8 DEF Owned, LeaseTable

LEMMA OwnedStep ==
  ASSUME Calm, Owned, [Next]_serviceVars
  PROVE  Owned'
<1>1. ServiceInv' /\ LeaseInv' /\ LeaseTable'
  <2>1. [StoreNext]_storeVars /\ ServiceInv'
    BY ServiceStep DEF Owned
  <2>2. LeaseInvariant /\ StoreTypeOK
    BY DEF Owned, ServiceInv, StoreTypeOK, LeaseInvariant
  <2>3. QED
    BY <2>1, <2>2, LeaseInvStep, LeaseInvariantStep DEF Owned, LeaseInvariant
<1>2. OwnershipInv'
  BY RunOwned, BeatOwned, TickOwned, OperationsOwned, ControlOwned, AroundOwned, LapseOwned,
     CrashOwned, Zenon DEF Next, Calm
<1>3. QED
  BY <1>1, <1>2 DEF Owned

\* What the theorems below rest on.
LEMMA OwnedAlways == ASSUME Calm PROVE Spec => []Owned
<1>1. Owned /\ [Next]_serviceVars => Owned'
  BY OwnedStep
<1>2. QED
  BY <1>1, OwnedInit, PTL DEF Spec
-----------------------------------------------------------------------------
(* Results.                                                                *)

\* A worker without a run has no job.
Unassigned == \A w \in Workers : worker[w].pc = "idle" => worker[w].job = None

LEMMA UnassignedStep ==
  ASSUME Owned, Unassigned, [Next]_serviceVars
  PROVE  Unassigned'
<1>1. ServiceInv /\ worker \in [Workers -> WorkerRow] /\ Idle.job = None
  BY DEF Owned, ServiceInv, LocalsOK, Idle
<1>2. ASSUME NEW w \in Workers, Run(w) PROVE Unassigned'
  <2>1. Step(w) /\ (worker[w].pc = "finish" => Finish(w))
    BY <1>1, <1>2, Awake DEF Run
  <2>2. \A v \in Workers : v # w => worker'[v] = worker[v]
    BY <1>1, <2>1, StepElsewhere DEF Alone
  <2>3. CASE Holder(w)
    <3>1. worker'[w].pc # "idle"
      BY <2>1, <2>3, StepWorks DEF Acting, Works, Quits
    <3>2. QED
      BY <2>2, <3>1 DEF Unassigned
  <2>4. CASE ~Holder(w)
    <3>1. worker'[w] = Idle
      BY <1>1, <1>2, <2>1, <2>4, Awake DEF Holder, Finish, Move, Run
    <3>2. QED
      BY <1>1, <2>2, <3>1 DEF Unassigned
  <2>5. QED
    BY <2>3, <2>4
<1>3. ASSUME NEW w \in Workers, Beat(w) PROVE Unassigned'
  <2>1. PICK beat \in {"off", "flagged"} : worker' = [worker EXCEPT ![w].beat = beat]
    BY <1>3 DEF Beat, HeartbeatLost, HeartbeatFlags, Move
  <2>2. \A v \in Workers : worker'[v].pc = worker[v].pc /\ worker'[v].job = worker[v].job
    BY <1>1, <2>1 DEF WorkerRow
  <2>3. QED
    BY <2>2 DEF Unassigned
<1>4. ASSUME NEW w \in Workers, NEW j \in Jobs, Tick(w, j) PROVE Unassigned'
  <2> DEFINE seen == Returned(j)
             n == [Idle EXCEPT !.pc = "preflight", !.job = j, !.seen = seen, !.beat = "on"]
  <2>1. worker' = [worker EXCEPT ![w] = n]
    BY <1>4 DEF Tick, Claim
  <2> HIDE DEF seen
  <2>2. n.pc = "preflight"
    BY DEF Idle
  <2> HIDE DEF n
  <2>3. QED
    BY <1>1, <2>1, <2>2 DEF Unassigned
<1>5. ASSUME NEW o \in Owners, Crash(o) PROVE Unassigned'
  BY <1>1, <1>5 DEF Crash, Unassigned
<1>6. ASSUME UNCHANGED worker PROVE Unassigned'
  BY <1>6 DEF Unassigned
<1>7. ASSUME NEW t \in Threads,
             Recover(t) \/ Reconcile(t) \/ Operate(t) \/ Report(t) \/ Control(t) \/ Fault(t)
      PROVE  UNCHANGED worker
  <2>1. CASE Control(t)
    BY <1>1, <2>1, ControlExternals DEF Control
  <2>2. CASE Recover(t) \/ Reconcile(t) \/ Operate(t) \/ Report(t) \/ Fault(t)
    <3>1. UNCHANGED workVars
      BY <2>2, Zenon DEF Recover, ExpiredFound, Reconcile, MergedFound, Operate, Command, Report,
         IssueReported, Fault, TickRaises
    <3>2. QED
      BY <3>1 DEF workVars
  <2>3. QED
    BY <1>7, <2>1, <2>2
<1>8. ASSUME \/ \E j \in Jobs : Agents(j) \/ Humans(j)
             \/ \E l \in leases : Lapse(l)
             \/ \E p \in Providers : Recovered(p)
             \/ UNCHANGED serviceVars
      PROVE  UNCHANGED worker
  BY <1>8 DEF Agents, ConversationEnds, Humans, EditIssue, Merge, Lapse, Expires, Recovered,
     serviceVars, workVars
<1>9. QED
  BY <1>2, <1>3, <1>4, <1>5, <1>6, <1>7, <1>8, Zenon DEF Next

\* Two executor threads of any processes work on one job only while one of them
\* is done with it: across crashes, recoveries and reclaims, and when operators
\* cancel or humans merge under a worker that goes on.
THEOREM OneWorkerAtATime == ASSUME Calm PROVE Spec => []OneWorkerPerJob
<1>1. Init => Unassigned
  BY DEF Init, Unassigned, Idle
<1>2. Owned /\ Unassigned => OneWorkerPerJob
  <2> SUFFICES ASSUME Owned, Unassigned, NEW v \in Workers, NEW w \in Workers,
                      Busy(v), v # w, Mine(v) = Mine(w)
               PROVE  Ending(v) \/ Ending(w)
    BY DEF OneWorkerPerJob
  <2>1. Mine(v) \in Jobs
    BY DEF Owned, ServiceInv, LocalsOK, WorkerOK, Busy, At, Mine
  <2>2. Mine(w) \in Jobs /\ None \notin Jobs
    BY <2>1, WorkerAssumption
  <2>3. worker[w].pc # "idle" /\ worker[v].pc # "idle"
    BY <2>2 DEF Unassigned, Mine, Busy, At
  <2>4. ~Holder(v) \/ ~Holder(w)
    BY DEF Owned, OwnershipInv, Apart
  <2>5. QED
    BY <2>3, <2>4 DEF Holder, Ending
<1>3. QED
  BY <1>1, <1>2, UnassignedStep, OwnedAlways, PTL DEF Spec

\* A job under review always has a lease row, so that the death of its worker is
\* noticed: reviews, repairs and pushes keep it, and recovery, which deletes it,
\* moves the job on.
THEOREM ReviewingAlwaysLeased == ASSUME Calm PROVE Spec => []ReviewingHasLease
<1>1. Owned => ReviewingHasLease
  BY DEF Owned, OwnershipInv, JobOK, ReviewingHasLease
<1>2. QED
  BY <1>1, OwnedAlways, PTL

\* The accepted title and body in the row are those the agent was given, from the
\* first claim to the last commit, although intake refreshes rows and issues are
\* edited at any time: a row is refreshed only while nobody works for it.
THEOREM SpecificationStaysFrozen == ASSUME Calm PROVE Spec => []SpecificationFrozen
<1>1. Owned => SpecificationFrozen
  <2> SUFFICES ASSUME Owned, NEW w \in Workers, Implementing(w)
               PROVE  job[Mine(w)].content = worker[w].seen.content
    BY DEF SpecificationFrozen
  <2>1. Holder(w) /\ worker[w].pc \in Accepted
    BY DEF Implementing, Holder
  <2>2. QED
    BY <2>1 DEF Owned, OwnershipInv, HolderOK, LocalOK
<1>2. QED
  BY <1>1, OwnedAlways, PTL

\* No job begins more than max_attempts attempts: the count the worker compares
\* with the limit is the row's when it claimed it, and is still the row's when it
\* begins.
THEOREM AttemptsAlwaysBounded ==
  ASSUME Calm, LegacyBounded PROVE Spec => []AttemptsBounded
<1>1. Owned => AttemptsBounded
  BY DEF Owned, OwnershipInv, JobOK, AttemptsBounded
<1>2. QED
  BY <1>1, OwnedAlways, PTL

\* A job is queued only when its recorded conversation is at rest: recovery has
\* canceled it or given the job to a human, and no worker gives a job back while
\* it waits.
THEOREM RecordedAlwaysQuiet == ASSUME Calm, Polled PROVE Spec => []RecordedIsQuiet
<1>1. Owned => RecordedIsQuiet
  BY DEF Owned, OwnershipInv, JobOK, RecordedIsQuiet
<1>2. QED
  BY <1>1, OwnedAlways, PTL

\* At most one conversation that may write runs for a concurrency key, whoever
\* claims what, and whichever calls fail: each is awaited by a worker with a live
\* lease, and leases of one key are one lease.
THEOREM OneWriterAtATime == ASSUME Calm, Undisturbed PROVE Spec => []OneWriterPerKey
<1>1. Owned => OneWriterPerKey
  <2> SUFFICES ASSUME Owned, NEW k \in Keys PROVE Cardinality(Writers(k)) <= 1
    BY DEF OneWriterPerKey
  <2>1. ASSUME NEW j \in Jobs, job[j].route.key = k, NEW c \in running[j]
        PROVE  \E w \in Workers, l \in leases :
                 Mine(w) = j /\ c = worker[w].run /\ l.job = j /\ l.key = k /\ Holder(w)
    <3>1. PICK w \in Workers : Mine(w) = j /\ worker[w].pc \in Writing
      BY <2>1 DEF Owned, OwnershipInv, JobOK
    <3>2. Holder(w) /\ Acting(w)
      BY <3>1 DEF Holder, Acting
    <3>3. LocalOK(worker[w], job[j], running[j]) /\ Expects(worker[w], job[j].state)
      BY <3>1, <3>2, HolderFacts
    <3>4. c = worker[w].run
      BY <2>1, <3>1, <3>3 DEF LocalOK
    <3>5. job[j].state \notin Over
      BY <3>1, <3>3 DEF Expects, Early, Late, Undisturbed, Ended, Over
    <3>6. PICK l \in leases : l.job = j
      BY <3>1, <3>2, <3>5, HolderJob DEF Renewable, LiveLeases
    <3>7. l.key = k
      BY <2>1, <3>6 DEF Owned, OwnershipInv, LeaseOK
    <3>8. QED
      BY <3>1, <3>2, <3>4, <3>6, <3>7
  <2>2. \A x \in Writers(k) : \E j \in Jobs : \E c \in running[j] :
          x = <<j, c>> /\ job[j].route.key = k
    BY DEF Writers
  <2>3. ASSUME NEW x \in Writers(k), NEW y \in Writers(k) PROVE x = y
    <3>1. PICK i, c : /\ i \in Jobs /\ c \in running[i]
                      /\ x = <<i, c>> /\ job[i].route.key = k
      BY <2>2
    <3>2. PICK j, d : /\ j \in Jobs /\ d \in running[j]
                      /\ y = <<j, d>> /\ job[j].route.key = k
      BY <2>2
    <3>3. PICK v \in Workers, l \in leases :
            Mine(v) = i /\ c = worker[v].run /\ l.job = i /\ l.key = k /\ Holder(v)
      BY <2>1, <3>1
    <3>4. PICK w \in Workers, m \in leases :
            Mine(w) = j /\ d = worker[w].run /\ m.job = j /\ m.key = k /\ Holder(w)
      BY <2>1, <3>2
    <3>5. i = j
      BY <3>3, <3>4 DEF Owned, LeaseTable
    <3>6. v = w
      BY <3>3, <3>4, <3>5 DEF Owned, OwnershipInv, Apart
    <3>7. QED
      BY <3>1, <3>2, <3>3, <3>4, <3>5, <3>6
  <2>4. CASE Writers(k) = {}
    BY <2>4, FS_EmptySet
  <2>5. CASE Writers(k) # {}
    <3>1. PICK x : Writers(k) = {x}
      BY <2>3, <2>5
    <3>2. Cardinality({x}) = 1
      BY FS_Singleton, Zenon
    <3>3. QED
      BY <3>1, <3>2
  <2>6. QED
    BY <2>4, <2>5
<1>2. QED
  BY <1>1, OwnedAlways, PTL
-----------------------------------------------------------------------------
(* Who queues a stopped job again.                                         *)

Requeues(j) == job[j].state \in StoppedStates /\ job'[j].state = QUEUED

\* The calls that write other columns than the state.
Annotates(i) ==
  \/ RecordPr(i) \/ (\E c : RecordReview(i, c)) \/ (\E b : RecordPhase(i, b))
  \/ (\E c, b : RecordConversation(i, c, b)) \/ (\E c : BeginAttempt(i, c))
  \/ (\E r : RecordRouting(i, r)) \/ (\E c : AcceptSnapshot(i, c))
  \/ (\E r, c : UpdateSnapshotIfUnclaimed(i, r, c))

LEMMA AnnotatesState ==
  ASSUME StoreTypeOK, NEW i \in Jobs, NEW j \in Jobs,
         \/ Annotates(i) \/ UNCHANGED storeVars \/ (\E p : SetProviderBackoff(p))
  PROVE  job'[j].state = job[j].state
<1>1. job[i] \in JobRow /\ job \in [Jobs -> JobRow]
  BY DEF StoreTypeOK
<1>2. ASSUME NEW row, job' = [job EXCEPT ![i] = row], row.state = job[i].state
      PROVE  job'[j].state = job[j].state
  BY <1>1, <1>2
<1>3. CASE Annotates(i)
  <2> DEFINE r == job[i]
  <2>1. CASE RecordPr(i)
    BY <1>1, <1>2, <2>1 DEF RecordPr, Put, JobRow
  <2>2. ASSUME NEW c, RecordReview(i, c) PROVE job'[j].state = job[j].state
    BY <1>1, <1>2, <2>2 DEF RecordReview, Put, JobRow
  <2>3. ASSUME NEW c, RecordRouting(i, c) \/ AcceptSnapshot(i, c)
        PROVE  job'[j].state = job[j].state
    BY <1>1, <1>2, <2>3 DEF RecordRouting, AcceptSnapshot, Put, JobRow
  <2>4. ASSUME NEW x, NEW c, UpdateSnapshotIfUnclaimed(i, x, c)
        PROVE  job'[j].state = job[j].state
    BY <1>1, <1>2, <2>4 DEF UpdateSnapshotIfUnclaimed, Put, JobRow
  <2>5. ASSUME NEW c, BeginAttempt(i, c) PROVE job'[j].state = job[j].state
    BY <1>1, <1>2, <2>5 DEF BeginAttempt, Put, JobRow
  <2>6. ASSUME NEW b, RecordPhase(i, b) PROVE job'[j].state = job[j].state
    <3>1. ASSUME NEW x, job' = [job EXCEPT ![i] = [r EXCEPT !.repair = FALSE, !.retry = x]]
          PROVE  job'[j].state = job[j].state
      BY <1>1, <1>2, <3>1 DEF JobRow
    <3>2. job' = [job EXCEPT ![i] = [r EXCEPT !.repair = FALSE, !.retry = @ /\ ~b]]
      BY <2>6 DEF RecordPhase, Put
    <3>3. QED
      BY <3>1, <3>2, Zenon
  <2>7. ASSUME NEW c, NEW b, RecordConversation(i, c, b) PROVE job'[j].state = job[j].state
    <3>1. ASSUME NEW x, job' = [job EXCEPT ![i] = [r EXCEPT !.conv = c, !.repair = x]]
          PROVE  job'[j].state = job[j].state
      BY <1>1, <1>2, <3>1 DEF JobRow
    <3>2. job' = [job EXCEPT ![i] = [r EXCEPT !.conv = c, !.repair = @ \/ b]]
      BY <2>7 DEF RecordConversation, Put
    <3>3. QED
      BY <3>1, <3>2, Zenon
  <2>8. QED
    BY <1>3, <2>1, <2>2, <2>3, <2>4, <2>5, <2>6, <2>7, Zenon DEF Annotates
<1>4. CASE UNCHANGED storeVars \/ \E p : SetProviderBackoff(p)
  BY <1>4 DEF storeVars, SetProviderBackoff
<1>5. QED
  BY <1>3, <1>4

LEMMA TransitionState ==
  ASSUME StoreTypeOK, NEW i \in Jobs, NEW j \in Jobs, NEW to, NEW release,
         Transition(i, to, release)
  PROVE  job'[j].state = IF j = i THEN to ELSE job[j].state
<1> DEFINE row == [job[i] EXCEPT !.state = to, !.repair = FALSE]
<1>1. job[i] \in JobRow /\ job \in [Jobs -> JobRow] /\ job' = [job EXCEPT ![i] = row]
  BY DEF StoreTypeOK, Transition, Put
<1>2. row.state = to
  BY <1>1 DEF JobRow
<1> HIDE DEF row
<1>3. QED
  BY <1>1, <1>2

\* Among the steps of a worker, only its exit with QUEUED: failures that promise
\* another attempt.
LEMMA WorkerRequeues ==
  ASSUME ServiceInv, NEW w \in Workers, Step(w), NEW j \in Jobs, Requeues(j)
  PROVE  Stopping(w) /\ Mine(w) = j /\ worker[w].to = QUEUED
<1> DEFINE i == Mine(w)
<1>1. StoreTypeOK /\ i \in Jobs
  <2>1. worker[w].pc # "idle" /\ i = worker[w].job
    BY Awake DEF Mine
  <2>2. QED
    BY <2>1 DEF ServiceInv, LocalsOK, WorkerOK
<1>2. ASSUME Annotates(i) \/ UNCHANGED storeVars \/ (\E p : SetProviderBackoff(p)) PROVE FALSE
  BY <1>1, <1>2, AnnotatesState DEF Requeues, StoppedStates
<1>3. ASSUME NEW to, NEW release, Transition(i, to, release) PROVE i = j /\ to = QUEUED
  BY <1>1, <1>3, TransitionState DEF Requeues, StoppedStates
<1>4. CASE SilentStep(w)
  BY <1>2, <1>4, SilentStepStore
<1>5. CASE \/ LookupPr(w) \/ Adopt(w) \/ Setup(w) \/ Validate(w) \/ PullRequestPhase(w)
           \/ RecordPullRequest(w) \/ ReviewLaunch(w)
  BY <1>2, <1>5, Zenon
     DEF LookupPr, Adopt, Setup, Validate, PullRequestPhase, RecordPullRequest, ReviewLaunch,
         Goto, Move, Annotates
<1>6. CASE Adopted(w) \/ OpenPr(w) \/ Reviewing(w)
  <2>1. PR_OPEN # QUEUED /\ REVIEWING # QUEUED
    OBVIOUS
  <2>2. QED
    BY <1>2, <1>3, <1>6, <2>1, Zenon DEF Adopted, OpenPr, Reviewing, KeepLease, Goto, Move
<1>7. CASE Health(w) \/ Result(w) \/ OnProviderError(w)
  BY <1>2, <1>7, Zenon DEF Health, Result, OnProviderError, Stop, Leave, Goto, Move
<1>8. CASE Begin(w) \/ Record(w) \/ RepairRecord(w)
  BY <1>2, <1>8, Zenon DEF Begin, Record, RepairRecord, Goto, Move, Annotates
<1>9. CASE Stopping(w)
  BY <1>2, <1>3, <1>9, Zenon DEF Stopping, Goto, Move
<1>10. QED
  BY <1>4, <1>5, <1>6, <1>7, <1>8, <1>9, Zenon DEF Step, SilentStep

\* Operators and recovery queue with a mark, and recovery never a stopped job.
LEMMA RequestState ==
  ASSUME StoreTypeOK, NEW i \in Jobs, NEW j \in Jobs, NEW cmd, RequestControl(i, cmd)
  PROVE  \/ job'[j].state \in {job[j].state, CANCELED, NEEDS_GUIDANCE}
         \/ job'[j].retry
<1> DEFINE r == job[i]
<1>1. r \in JobRow /\ job \in [Jobs -> JobRow]
  BY DEF StoreTypeOK
<1>2. ASSUME NEW row, Put(i, row), row.state \in {r.state, CANCELED, NEEDS_GUIDANCE}
      PROVE  job'[j].state \in {job[j].state, CANCELED, NEEDS_GUIDANCE}
  BY <1>1, <1>2 DEF Put
<1>3. CASE RequestCancel(i) \/ RequestPause(i)
  <2>1. [r EXCEPT !.cancel = TRUE].state = r.state /\ [r EXCEPT !.pause = TRUE].state = r.state
    BY <1>1 DEF JobRow
  <2>2. /\ [r EXCEPT !.cancel = TRUE, !.state = CANCELED, !.repair = FALSE].state = CANCELED
        /\ [r EXCEPT !.pause = TRUE, !.state = NEEDS_GUIDANCE, !.repair = FALSE].state
             = NEEDS_GUIDANCE
    BY <1>1 DEF JobRow
  <2>3. CASE RequestCancel(i)
    BY <1>2, <2>1, <2>2, <2>3 DEF RequestCancel
  <2>4. CASE RequestPause(i)
    BY <1>2, <2>1, <2>2, <2>4 DEF RequestPause
  <2>5. QED
    BY <1>3, <2>3, <2>4
<1>4. CASE RequestRequeue(i)
  <2> DEFINE n == IF Polluted(i) THEN 0 ELSE r.attempt
             row == [r EXCEPT !.state = QUEUED, !.retry = TRUE, !.cancel = FALSE,
                              !.pause = FALSE, !.repair = FALSE, !.attempt = n]
  <2>1. job' = [job EXCEPT ![i] = row] \/ UNCHANGED job
    BY <1>4, Zenon DEF RequestRequeue, Put
  <2> HIDE DEF n
  <2>2. row.retry
    BY <1>1 DEF JobRow
  <2> HIDE DEF row
  <2>3. QED
    BY <1>1, <2>1, <2>2
<1>5. QED
  BY <1>3, <1>4, Zenon DEF RequestControl

LEMMA ControlRequeues ==
  ASSUME ServiceInv, StoppedHoldsNoLease, NEW t \in Threads, Continue(t), NEW j \in Jobs,
         Requeues(j)
  PROVE  job'[j].retry
<1> DEFINE i == Its(t)
<1>1. StoreTypeOK /\ (thread[t].pc \notin {"idle", "dead"} => i \in Jobs)
  BY ThreadFacts DEF ServiceInv
<1>2. ASSUME i \in Jobs, Annotates(i) \/ UNCHANGED storeVars PROVE FALSE
  BY <1>1, <1>2, AnnotatesState DEF Requeues, StoppedStates
<1>3. ASSUME i \in Jobs, NEW to, to # QUEUED, NEW release, Transition(i, to, release) PROVE FALSE
  BY <1>1, <1>3, TransitionState DEF Requeues, StoppedStates
<1>4. ASSUME i \in Jobs, NEW cmd, RequestControl(i, cmd) PROVE job'[j].retry
  BY <1>1, <1>4, RequestState DEF Requeues, StoppedStates
<1>5. CASE \/ CancelExpired(t) \/ SetLabels(t) \/ Interrupt(t) \/ Revalidate(t) \/ ReadIssue(t)
           \/ Decide(t) \/ Skip(t) \/ LookUp(t)
  <2>1. UNCHANGED job
    BY <1>5, Zenon DEF CancelExpired, SetLabels, Interrupt, Revalidate, ReadIssue, Decide, Skip,
       LookUp, storeVars
  <2>2. QED
    BY <2>1 DEF Requeues, StoppedStates
<1>6. CASE GiveUp(t) \/ CloseMerged(t) \/ AdoptOpen(t) \/ NeedsGuidance(t) \/ Refuse(t)
  <2>1. thread[t].pc \in {"giveUp", "merged", "adoptOpen", "orphan", "refuse"}
    BY <1>6, Zenon DEF GiveUp, CloseMerged, AdoptOpen, NeedsGuidance, Refuse, In
  <2>2. i \in Jobs
    BY <1>1, <2>1
  <2>3. \/ UNCHANGED storeVars
        \/ \E to \in {NEEDS_GUIDANCE, PR_OPEN, DONE} : Transition(i, to, TRUE)
    BY <1>6 DEF GiveUp, CloseMerged, AdoptOpen, NeedsGuidance, Refuse, Tries
  <2>4. QED
    BY <1>2, <1>3, <2>2, <2>3
<1>7. CASE Reap(t)
  <2>1. i \in Jobs
    BY <1>1, <1>7 DEF Reap, In
  <2>2. CASE ReapExpired(i) /\ i \in ExpiredJobs
    <3>1. \A k \in Jobs : k # i => job'[k] = job[k]
      BY <1>1, <2>1, <2>2 DEF ReapExpired, Put, StoreTypeOK
    <3>2. job[i].state \notin StoppedStates
      BY <2>1, <2>2 DEF ExpiredJobs, StoppedHoldsNoLease
    <3>3. QED
      BY <3>1, <3>2 DEF Requeues, StoppedStates
  <2>3. QED
    BY <1>2, <1>7, <2>1, <2>2 DEF Reap
<1>8. CASE RequeueReview(t)
  <2>1. i \in Jobs /\ RequestControl(i, "retry")
    BY <1>1, <1>8 DEF RequeueReview, In, RequestControl
  <2>2. QED
    BY <1>4, <2>1
<1>9. CASE Request(t) \/ Halt(t)
  <2>1. thread[t].pc \in {"request", "halt"}
    BY <1>9, Zenon DEF Request, Halt, In
  <2>2. UNCHANGED storeVars \/ \E cmd : RequestControl(i, cmd)
    BY <1>9, Zenon DEF Request, Halt
  <2>3. QED
    BY <1>1, <1>2, <1>4, <2>1, <2>2
<1>10. CASE Accept(t) \/ Reroute(t) \/ Update(t) \/ AdoptPr(t)
  <2>1. thread[t].pc \in {"accept", "reroute", "update", "adoptPr"}
    BY <1>10, Zenon DEF Accept, Reroute, Update, AdoptPr, In
  <2>2. Annotates(i) \/ UNCHANGED storeVars
    BY <1>10, Zenon DEF Accept, Reroute, Update, AdoptPr, Annotates
  <2>3. QED
    BY <1>1, <1>2, <2>1, <2>2
<1>11. CASE Create(t)
  <2>1. i \in Jobs
    BY <1>1, <1>11 DEF Create, In
  <2>2. CASE UNCHANGED storeVars
    BY <1>2, <2>1, <2>2
  <2>3. CASE \E r, c : EnsureJob(i, r, c)
    <3>1. (\A k \in Jobs : k # i => job'[k] = job[k]) /\ job[i].state = Absent
      BY <1>1, <2>1, <2>3 DEF EnsureJob, Exists, Put, StoreTypeOK
    <3>2. QED
      BY <3>1 DEF Requeues, StoppedStates
  <2>4. QED
    BY <1>11, <2>2, <2>3, Zenon DEF Create
<1>12. QED
  BY <1>5, <1>6, <1>7, <1>8, <1>9, <1>10, <1>11, Zenon DEF Continue

\* So of all steps of the service.
WorkerGivesBack(j) ==
  \E w \in Workers :
    /\ Mine(w) = j /\ worker[w].pc \in {"stop", "leave"} /\ worker[w].to = QUEUED
    /\ TransitionAllowed(j, QUEUED)

LEMMA StepRequeues ==
  ASSUME ServiceInv, StoppedHoldsNoLease, [Next]_serviceVars, NEW j \in Jobs, Requeues(j)
  PROVE  job'[j].retry \/ WorkerGivesBack(j)
<1>1. StoreTypeOK
  BY DEF ServiceInv
<1>2. ASSUME UNCHANGED job PROVE FALSE
  BY <1>2 DEF Requeues, StoppedStates
<1>3. ASSUME NEW w \in Workers, Run(w) PROVE WorkerGivesBack(j)
  <2>1. Stopping(w) /\ Mine(w) = j /\ worker[w].to = QUEUED
    BY <1>3, WorkerRequeues DEF Run
  <2>2. worker[w].pc \in {"stop", "leave"}
    BY <2>1 DEF Stopping, At
  <2>3. TransitionAllowed(j, QUEUED)
    BY <1>2, <2>1 DEF Stopping, Goto, Move, storeVars
  <2>4. QED
    BY <2>1, <2>2, <2>3 DEF WorkerGivesBack
<1>4. ASSUME NEW w \in Workers, NEW i \in Jobs, Tick(w, i) PROVE FALSE
  <2> DEFINE row == [job[i] EXCEPT !.state = RUNNING, !.repair = FALSE]
  <2>1. job' = [job EXCEPT ![i] = row] /\ job[i] \in JobRow /\ job \in [Jobs -> JobRow]
    BY <1>1, <1>4 DEF Tick, Claim, ClaimNext, Put, StoreTypeOK
  <2>2. row.state = RUNNING
    BY <2>1 DEF JobRow
  <2> HIDE DEF row
  <2>3. QED
    BY <2>1, <2>2 DEF Requeues, StoppedStates
<1>5. ASSUME NEW t \in Threads, Control(t) PROVE job'[j].retry
  BY <1>5, ControlRequeues DEF Control
<1>6. ASSUME NEW t \in Threads,
             Recover(t) \/ Reconcile(t) \/ Operate(t) \/ Report(t) \/ Fault(t)
      PROVE  UNCHANGED job
  BY <1>6, Zenon DEF Recover, ExpiredFound, Reconcile, MergedFound, Operate, Command, Report,
     IssueReported, Fault, TickRaises, storeVars
<1>7. ASSUME \/ \E w \in Workers : Beat(w)
             \/ \E i \in Jobs : Agents(i) \/ Humans(i)
             \/ \E l \in leases : Lapse(l)
             \/ \E p \in Providers : Recovered(p)
             \/ \E o \in Owners : Crash(o)
             \/ UNCHANGED serviceVars
      PROVE  UNCHANGED job
  BY <1>7, Zenon DEF Beat, HeartbeatLost, HeartbeatFlags, Move, Agents, ConversationEnds, Humans,
     EditIssue, Merge, Lapse, Expires, LeaseExpires, Recovered, BackoffElapses, Crash,
     serviceVars, storeVars
<1>8. QED
  BY <1>2, <1>3, <1>4, <1>5, <1>6, <1>7, Zenon DEF Next

\* Whatever operators, humans and failures do, a job that stopped for a human, or
\* ended, is queued again only by a command, which marks it, or by a worker that
\* still runs it and gives it back for another attempt: never by recovery, by
\* reconciliation or by intake, however stale what they read.
THEOREM OnlyWorkersGiveBack ==
  Spec => [][\A j \in Jobs : Requeues(j) => job'[j].retry \/ WorkerGivesBack(j)]_serviceVars
<1>1. Spec => []ServiceInv
  BY ServiceInit, ServiceStep, PTL DEF Spec
<1>2. ServiceInv /\ StoppedHoldsNoLease /\ [Next]_serviceVars
        => [\A j \in Jobs : Requeues(j) => job'[j].retry \/ WorkerGivesBack(j)]_serviceVars
  BY StepRequeues
<1>3. QED
  BY <1>1, <1>2, ServiceInheritsStore, PTL DEF Spec

\* And where pull requests are not merged under their workers, no worker does.
\* Operators of a calm service only pause and cancel, so this says that a job
\* that was paused, canceled, blocked or that failed stays so: its worker, which
\* may go on for a while, intake, reconciliation and recovery do not revive it.
THEOREM StoppedUntilRequest == ASSUME Calm, Unmerged PROVE Spec => RestartsOnlyOnRequest
<1>1. Owned /\ [Next]_serviceVars
        => [\A j \in Jobs : job[j].state \in StoppedStates /\ job'[j].state = QUEUED
                              => job'[j].retry]_serviceVars
  <2> SUFFICES ASSUME Owned, [Next]_serviceVars, NEW j \in Jobs, Requeues(j)
               PROVE  job'[j].retry
    BY DEF Requeues
  <2>1. ASSUME WorkerGivesBack(j) PROVE FALSE
    <3>1. PICK w \in Workers : /\ Mine(w) = j /\ worker[w].to = QUEUED
                               /\ worker[w].pc \in {"stop", "leave"}
      BY <2>1 DEF WorkerGivesBack
    <3>2. Expects(worker[w], job[j].state)
      BY <3>1, HolderFacts DEF Acting, Holder
    <3>3. job[j].state = RUNNING
      BY <3>1, <3>2 DEF Expects, Ended
    <3>4. QED
      BY <3>3 DEF Requeues, StoppedStates
  <2>2. job'[j].retry \/ WorkerGivesBack(j)
    BY StepRequeues DEF Owned, LeaseInv
  <2>3. QED
    BY <2>1, <2>2
<1>2. QED
  BY <1>1, OwnedAlways, PTL DEF Spec, RestartsOnlyOnRequest
=============================================================================
