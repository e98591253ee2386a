------------------------------ MODULE Service ------------------------------
(***************************************************************************)
(* The orchestrator service: processes with their executor threads         *)
(* (Worker) and control-plane threads (Coordinator) over one store, and    *)
(* what happens around them: operators, humans editing issues and merging  *)
(* pull requests, provider backoff, and crashes of a process.              *)
(*                                                                         *)
(* A process that crashed comes back as another member of Owners, because  *)
(* Scheduler.owner is new in every incarnation; the last one stays up.     *)
(***************************************************************************)
EXTENDS Coordinator

CONSTANTS
  Enqueued,   \* jobs that exist, queued, at the start
  CommandsIn, \* the operator commands that are given
  Edits,      \* what humans change on GitHub
  Reports,    \* whether issues are reported to intake
  Found       \* what a lost database left on GitHub: see FoundKinds

EditKinds == {"close", "ready", "route", "content", "merge"}
FoundKinds == {"nothing", "branch", "pull"}

ASSUME ServiceAssumption ==
  /\ Enqueued \subseteq Jobs
  /\ CommandsIn \subseteq Commands
  /\ Edits \subseteq EditKinds
  /\ Reports \in BOOLEAN
  /\ Found \subseteq FoundKinds /\ Found # {}

VARIABLE up  \* the processes that have not crashed

serviceVars == <<storeVars, workVars, thread, up>>

FreshIssue(j) ==
  [open |-> TRUE, ready |-> TRUE, paused |-> FALSE,
   route |-> AbsentRow.route, content |-> AbsentRow.content]

Init ==
  /\ StoreInit
  /\ \A j \in Jobs : Exists(j) <=> j \in Enqueued
  /\ worker = [w \in Workers |-> Idle]
  /\ active = {}
  /\ running = [j \in Jobs |-> {}]
  /\ issue = [j \in Jobs |-> FreshIssue(j)]
  /\ \E found \in [Jobs -> Found] :
       /\ pull = [j \in Jobs |-> IF found[j] = "pull" THEN "open" ELSE "none"]
       /\ branch = [j \in Jobs |-> IF found[j] = "nothing" THEN "none" ELSE "behind"]
  /\ thread = [t \in Threads |-> Resting]
  /\ up = Owners

-----------------------------------------------------------------------------
(* Around the service. *)

Crash(o) ==
  /\ "crash" \in Faults /\ o \in up /\ up # {o}
  /\ up' = up \ {o}
  /\ worker' = [w \in Workers |-> IF OwnerOf[w] = o THEN Idle ELSE worker[w]]
  /\ thread' = [t \in Threads |->
                  IF ProcessOf[t] = o THEN [Resting EXCEPT !.pc = "dead"] ELSE thread[t]]
  /\ active' = {a \in active : a.owner # o}
  /\ UNCHANGED <<storeVars, running, GitHub>>

EditIssue(j) ==
  /\ \/ "close" \in Edits /\ issue' = [issue EXCEPT ![j].open = ~@]
     \/ "ready" \in Edits /\ issue' = [issue EXCEPT ![j].ready = ~@]
     \/ "route" \in Edits /\ \E r \in Routes : issue' = [issue EXCEPT ![j].route = r]
     \/ "content" \in Edits /\ \E c \in Contents : issue' = [issue EXCEPT ![j].content = c]
  /\ UNCHANGED <<storeVars, worker, active, running, pull, branch, thread, up>>

\* The body of the pull request closes the issue.
Merge(j) ==
  /\ "merge" \in Edits /\ pull[j] = "open"
  /\ pull' = [pull EXCEPT ![j] = "merged"]
  /\ issue' = [issue EXCEPT ![j].open = FALSE]
  /\ UNCHANGED <<storeVars, worker, active, running, branch, thread, up>>

-----------------------------------------------------------------------------
(* The next-state relation. *)

Tick(w, j) == OwnerOf[w] \in up /\ Claim(w, j) /\ UNCHANGED <<thread, up>>
Run(w) == Step(w) /\ UNCHANGED <<thread, up>>
Beat(w) == (HeartbeatLost(w) \/ HeartbeatFlags(w)) /\ UNCHANGED <<thread, up>>

Recover(t) ==
  /\ (\E j \in Jobs : ExpiredFound(t, j)) /\ UNCHANGED up
Reconcile(t) ==
  /\ (\E j \in Jobs : MergedFound(t, j)) /\ UNCHANGED up
Operate(t) ==
  /\ \E j \in Jobs, cmd \in CommandsIn : Command(t, j, cmd)
  /\ UNCHANGED up
Report(t) ==
  /\ Reports /\ (\E j \in Jobs : IssueReported(t, j)) /\ UNCHANGED up
Control(t) == Continue(t) /\ UNCHANGED up
Fault(t) == TickRaises(t) /\ UNCHANGED up

Agents(j) ==
  /\ \E c \in running[j] : ConversationEnds(j, c)
  /\ UNCHANGED <<thread, up>>
Lapse(l) == Expires(l) /\ UNCHANGED <<thread, up>>
Recovered(p) == BackoffElapses(p) /\ UNCHANGED <<workVars, thread, up>>
Humans(j) == EditIssue(j) \/ Merge(j)

Next ==
  \/ \E w \in Workers : Run(w) \/ Beat(w) \/ \E j \in Jobs : Tick(w, j)
  \/ \E t \in Threads : Recover(t) \/ Reconcile(t) \/ Operate(t) \/ Report(t) \/ Control(t)
                        \/ Fault(t)
  \/ \E j \in Jobs : Agents(j) \/ Humans(j)
  \/ \E l \in leases : Lapse(l)
  \/ \E p \in Providers : Recovered(p)
  \/ \E o \in Owners : Crash(o)

Spec == Init /\ [][Next]_serviceVars

\* A loop thread that is alive ticks, executor and heartbeat threads run, a conversation
\* ends (its iterations and its timeout are bounded), and clocks advance.
\* Operators, humans, crashes and stalls owe nothing.  Intake is fair where a
\* run says so: webhooks and the reconciliation report every open issue.
Abandoned(l) == ~Renewed(l) /\ Lapse(l)

Looping(o) == \E t \in Loops : ProcessOf[t] = o /\ ~In(t, "dead")

Fairness ==
  /\ \A w \in Workers : /\ WF_serviceVars(Run(w))
                        /\ WF_serviceVars(\E j \in Jobs : Looping(OwnerOf[w]) /\ Tick(w, j))
                        /\ WF_serviceVars(Beat(w))
  /\ \A t \in Threads : /\ SF_serviceVars(Recover(t))
                        /\ SF_serviceVars(Reconcile(t))
                        /\ WF_serviceVars(Control(t))
  /\ \A j \in Jobs : WF_serviceVars(Agents(j))
  /\ \A p \in Providers : WF_serviceVars(Recovered(p))
  /\ \A l \in LeaseRow : WF_serviceVars(Abandoned(l))

LiveSpec == Spec /\ Fairness

-----------------------------------------------------------------------------
(* Properties. *)

\* The variables keep their types.
ServiceTypeOK ==
  /\ StoreTypeOK
  /\ active \subseteq [owner : Owners, job : Jobs, run : Convs]
  /\ running \in [Jobs -> SUBSET Convs]
  /\ issue \in [Jobs -> Issue]
  /\ pull \in [Jobs -> {"none", "open", "merged"}]
  /\ branch \in [Jobs -> {"none", "behind", "same"}]
  /\ up \subseteq Owners
  /\ \A w \in Workers : Busy(w) => Mine(w) \in Jobs /\ worker[w].corrections <= MaxCorrections
                                   /\ worker[w].repairs <= MaxRepairs
  /\ \A t \in Threads : thread[t].pc \notin {"idle", "dead"} => Its(t) \in Jobs

\* The service implements Store: every step is a call the store offers, or
\* leaves the tables alone, so that what is proved of Store for arbitrary
\* clients holds of the pipeline, of recovery, of operators and of intake.
ImplementsStore == StoreSpec

\* A job is shown as pr-open, or under review, only when its row names the
\* pull request: recovery, mutation guards and intake all go there.
PublishedHasPr ==
  \A j \in Jobs : job[j].state \in {PR_OPEN, REVIEWING} => job[j].pr

\* A job under review is held by a lease, so that its worker's death is
\* noticed: the lease is kept through the reviews, repairs and pushes.
ReviewingHasLease ==
  \A j \in Jobs : job[j].state = REVIEWING => LeasesOf(j) # {}

\* Two executor threads work on one job only while one of them is on its way
\* out, past its last external mutation.
Ending(w) == worker[w].pc \in {"stop", "leave", "finish"}
OneWorkerPerJob ==
  \A v, w \in Workers :
    Busy(v) /\ v # w /\ Mine(v) = Mine(w) => Ending(v) \/ Ending(w)

\* No job begins more attempts than scheduler.max_attempts, however many
\* crashes, recoveries and retries it goes through.
AttemptsBounded == \A j \in Jobs : job[j].attempt <= MaxAttempts

\* At most one conversation that may write runs for a concurrency key.
Writers(k) ==
  UNION {{<<j, c>> : c \in running[j]} : j \in {i \in Jobs : job[i].route.key = k}}
OneWriterPerKey == \A k \in Keys : Cardinality(Writers(k)) <= 1

\* A job waiting to be claimed has no recorded conversation still at work:
\* recovery interrupts it before the row becomes runnable.
RecordedIsQuiet ==
  \A j \in Jobs : job[j].state = QUEUED => job[j].conv \notin running[j]

\* A job that stopped is queued again only at a human's request, whatever the
\* worker that still runs it, recovery and intake do.
RestartsOnlyOnRequest ==
  [][\A j \in Jobs :
       job[j].state \in StoppedStates /\ job'[j].state = QUEUED => job'[j].retry]_serviceVars

\* While a worker implements a job, the accepted title and body in the row
\* stay those its agent was given: neither intake nor an operator's resume
\* replaces them under it.
Implementing(w) ==
  worker[w].pc \in {"setup", "launch", "begin", "wait", "record", "result",
                    "validate", "correct", "commit"}
SpecificationFrozen ==
  \A w \in Workers : Implementing(w) => job[Mine(w)].content = worker[w].seen.content

\* A worker always comes to the end of its run, whatever fails.
RunsEnd == \A w \in Workers : Busy(w) ~> ~Busy(w)

\* Once the providers no longer refuse work, every job ends up stopped or
\* published, and stays so, whatever crashed and failed on the way.
Settled(j) == job[j].state \in StoppedStates \cup {PR_OPEN}
Settles == <>[](backoff = {}) => \A j \in Enqueued : <>[]Settled(j)

\* A job whose issue stays closed does not stay in the queue or at work.
ClosedSettles ==
  \A j \in Jobs :
    <>[](~issue[j].open) => <>[](Settled(j) \/ ~Exists(j))

\* A pull request that was merged becomes a job that is done.
MergedIsDone ==
  \A j \in Jobs :
    job[j].state = PR_OPEN /\ job[j].pr /\ pull[j] = "merged" ~> job[j].state # PR_OPEN

\* Neither recovery nor a claim ends the scheduler's loop: an error of one job
\* leaves the others served.
LoopSurvives == \A t \in Loops : ProcessOf[t] \in up => ~In(t, "dead")
=============================================================================
