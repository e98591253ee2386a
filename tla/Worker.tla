------------------------------- MODULE Worker -------------------------------
(***************************************************************************)
(* One claimed job from claim to release: Coordinator.run_claimed and      *)
(* _review (coordinator.py), run by an executor thread of the scheduler,   *)
(* with the job's heartbeat thread beside it.                              *)
(*                                                                         *)
(* An action is one transaction of the store, or one call to GitHub, to    *)
(* the workspace or to the agent server: everything else interleaves       *)
(* between two of them.  What a worker knows of its job is the row its     *)
(* last store call returned (seen), not the row in the table.              *)
(*                                                                         *)
(* External: GitHub issues, pull requests and branches, and the agent      *)
(* server's conversations, as the code uses them.  Review conversations    *)
(* are read-only, so all of them are the one id ReviewConv.                *)
(***************************************************************************)
EXTENDS Store

CONSTANTS
  Workers,        \* executor threads
  OwnerOf,        \* the process (Scheduler.owner) a thread belongs to
  ReviewConv,     \* the id of a review conversation
  MaxAttempts,    \* scheduler.max_attempts
  MaxCorrections, \* scheduler.max_implementation_corrections
  MaxRepairs,     \* scheduler.max_review_repairs
  Faults          \* which failures happen: see FaultKinds

FaultKinds == {"github", "workspace", "provider", "poll", "unexpected", "stall", "crash"}

ASSUME WorkerAssumption ==
  /\ OwnerOf \in [Workers -> Owners]
  /\ ReviewConv \in Convs
  /\ None \notin Jobs \cup Owners
  /\ MaxAttempts \in Nat \ {0} /\ MaxAttempts <= AttemptCap
  /\ MaxCorrections \in Nat /\ MaxRepairs \in Nat
  /\ Faults \subseteq FaultKinds

VARIABLES
  worker,   \* the local variables of each executor thread
  active,   \* Coordinator._active_runs of every process
  running,  \* conversations that may write and that the agent server executes
  issue,    \* the live issues
  pull,     \* the pull request of the generated branch
  branch    \* the generated branch on GitHub, relative to the worktree's HEAD

workVars == <<worker, active, running, issue, pull, branch>>

Issue == [open : BOOLEAN, ready : BOOLEAN, paused : BOOLEAN,
          route : Routes, content : Contents]

\* The columns of a row that the pipeline reads, with the lease_owner column,
\* which follows the leases table.
View(row, held) ==
  [attempt |-> row.attempt, conv |-> row.conv, pr |-> row.pr,
   route |-> row.route, content |-> row.content,
   owner |-> IF held = {} THEN None ELSE (CHOOSE l \in held : TRUE).owner]

\* The row a store call returns, as it leaves it.
Returned(j) == View(job'[j], {l \in leases' : l.job = j})

Idle ==
  [pc |-> "idle", job |-> None, seen |-> None, run |-> None, started |-> FALSE,
   existing |-> FALSE, corrections |-> 0, repairs |-> 0, then |-> "idle",
   allow |-> FALSE, to |-> Absent, beat |-> "off"]

At(w, pc) == worker[w].pc = pc
Mine(w) == worker[w].job
Busy(w) == ~At(w, "idle")

\* The step writes no row: the worker moves on with new local values.
Move(w, locals) ==
  /\ worker' = [worker EXCEPT ![w] = locals]
  /\ UNCHANGED storeVars
Goto(w, pc) == Move(w, [worker[w] EXCEPT !.pc = pc])

\* The step made a store call: the worker now knows the row it returned.
Saw(w, pc) ==
  worker' = [worker EXCEPT ![w].pc = pc, ![w].seen = Returned(Mine(w))]

\* What follows is a transition that releases the lease; a StoreError it
\* raises is caught by the handlers of _run_claimed (Stop) or, from within a
\* handler, by nobody (Leave).
Planned(w, pc, to) ==
  [Idle EXCEPT !.pc = pc, !.to = to, !.job = Mine(w), !.beat = worker[w].beat]
Stop(w, to) == Move(w, Planned(w, "stop", to))
Leave(w, to) == Move(w, Planned(w, "leave", to))

\* _require_live_lease, then guard_code_mutation, then the mutation at pc.
Checking(w, pc, allow) ==
  [worker[w] EXCEPT !.pc = "lease", !.then = pc, !.allow = allow]
Check(w, pc, allow) == Move(w, Checking(w, pc, allow))

-----------------------------------------------------------------------------
(* Conversations. *)

External == <<active, running, issue, pull, branch>>
GitHub == <<issue, pull, branch>>

\* A new conversation has an id nothing else refers to.
Fresh(c) ==
  /\ c \notin {None, ReviewConv}
  /\ \A j \in Jobs : job[j].conv # c /\ c \notin running[j]
  /\ \A w \in Workers : /\ worker[w].run # c
                        /\ worker[w].seen # None => worker[w].seen.conv # c

\* _durable_run, on a row read earlier.
DurableConv(row) ==
  IF row.state = REVIEWING /\ ~row.repair THEN row.rconv ELSE row.conv

\* _cancel_active_run in the process o: the run it is waiting for, or else the
\* durable one.  Errors are swallowed.
CancelRun(o, j, row) ==
  LET mine   == {a \in active : a.owner = o /\ a.job = j}
      target == IF mine # {} THEN (CHOOSE a \in mine : TRUE).run
                             ELSE DurableConv(row)
  IN  \/ running' = [running EXCEPT ![j] = @ \ {target}]
      \/ "provider" \in Faults /\ UNCHANGED running

Others(w) == {a \in active : ~(a.owner = OwnerOf[w] /\ a.job = Mine(w))}
Awaits(w, c) ==
  active' = Others(w) \cup {[owner |-> OwnerOf[w], job |-> Mine(w), run |-> c]}
NoLongerAwaits(w) == active' = Others(w)

\* The agent finishes, fails, or was interrupted.
ConversationEnds(j, c) ==
  /\ c \in running[j]
  /\ running' = [running EXCEPT ![j] = @ \ {c}]
  /\ UNCHANGED <<storeVars, worker, active, GitHub>>

-----------------------------------------------------------------------------
(* Claim and preflight. *)

\* Scheduler.tick: claim, then submit to the executor; run_claimed starts the
\* heartbeat.
Claim(w, j) ==
  /\ ~Busy(w)
  /\ ClaimNext(j, OwnerOf[w])
  /\ worker' = [worker EXCEPT ![w] =
       [Idle EXCEPT !.pc = "preflight", !.job = j, !.seen = Returned(j), !.beat = "on"]]
  /\ UNCHANGED External

Eligible(i) == i.open /\ i.ready /\ ~i.paused
SameRouting(i, row) ==
  i.route.provider = row.route.provider /\ i.route.review = row.route.review

\* Mutant of Preflight: a stale claim goes back to the queue.
PreflightRequeues(w) ==
  /\ At(w, "preflight")
  /\ IF Eligible(issue[Mine(w)]) THEN Goto(w, "lookup") ELSE Stop(w, QUEUED)
  /\ UNCHANGED External

\* The live issue must still be the one that was claimed.
Preflight(w) ==
  LET i == issue[Mine(w)] s == worker[w].seen
      unchanged == /\ i.content = s.content /\ Eligible(i)
                   /\ SameRouting(i, s) /\ i.route.key = s.route.key
  IN  /\ At(w, "preflight")
      /\ IF unchanged THEN Goto(w, "lookup") ELSE Stop(w, NEEDS_GUIDANCE)
      /\ UNCHANGED External

\* Mutant of LookupPr: the pull request is adopted but not recorded.
LookupPrUnrecorded(w) ==
  LET j == Mine(w) IN
  /\ At(w, "lookup")
  /\ Move(w, IF pull[j] # "open" THEN [worker[w] EXCEPT !.pc = "health"]
             ELSE IF job[j].route.review
             THEN [worker[w] EXCEPT !.pc = "adopt", !.existing = TRUE]
             ELSE IF job[j].retry
             THEN [worker[w] EXCEPT !.pc = "health", !.existing = TRUE]
             ELSE Planned(w, "stop", PR_OPEN))
  /\ UNCHANGED External

\* An open pull request of the branch is adopted.
LookupPr(w) ==
  LET j == Mine(w) IN
  /\ At(w, "lookup")
  /\ IF pull[j] = "open"
     THEN /\ RecordPr(j)
          /\ worker' = [worker EXCEPT ![w] =
               IF job[j].route.review
               THEN [@ EXCEPT !.pc = "adopt", !.existing = TRUE, !.seen = Returned(j)]
               ELSE IF job[j].retry
               THEN [@ EXCEPT !.pc = "health", !.existing = TRUE, !.seen = Returned(j)]
               ELSE Planned(w, "stop", PR_OPEN)]
     ELSE Goto(w, "health")
  /\ UNCHANGED External

\* Checkout for a review of the adopted pull request.
Adopt(w) ==
  /\ At(w, "adopt")
  /\ RecordPhase(Mine(w), TRUE) /\ Saw(w, "adopted")
  /\ UNCHANGED External

\* A transition that keeps the lease; a StoreError goes to the handlers.
KeepLease(w, to, next) ==
  /\ IF TransitionAllowed(Mine(w), to)
     THEN Transition(Mine(w), to, FALSE) /\ Saw(w, next)
     ELSE Goto(w, "orchestratorError")
  /\ UNCHANGED External

Adopted(w) == At(w, "adopted") /\ KeepLease(w, PR_OPEN, "review")

\* Mutant of Health: the attempt limit is off by one.
HealthOneMore(w) ==
  /\ At(w, "health")
  /\ IF worker[w].seen.attempt > MaxAttempts THEN Stop(w, FAILED) ELSE Goto(w, "setup")
  /\ UNCHANGED External

\* auth_status, quota_or_rate_limit_state, health, then the attempt limit.
Health(w) ==
  LET s == worker[w].seen IN
  /\ At(w, "health")
  /\ \/ "provider" \in Faults /\ (Stop(w, FAILED) \/ Stop(w, NEEDS_GUIDANCE))
     \/ "provider" \in Faults /\ s.attempt < MaxAttempts
          /\ SetProviderBackoff(s.route.provider)
          /\ worker' = [worker EXCEPT ![w] = Planned(w, "stop", QUEUED)]
     \/ IF s.attempt >= MaxAttempts THEN Stop(w, FAILED) ELSE Goto(w, "setup")
  /\ UNCHANGED External

\* checkout, phase "setup", the repository's setup script.
Setup(w) ==
  /\ At(w, "setup")
  /\ RecordPhase(Mine(w), FALSE)
  /\ \/ Saw(w, "launch")
     \/ "workspace" \in Faults
          /\ worker' = [worker EXCEPT ![w] = Planned(w, "stop", BLOCKED)]
  /\ UNCHANGED External

-----------------------------------------------------------------------------
(* The implementation turn. *)

Executes(j, c) == running' = [running EXCEPT ![j] = @ \cup {c}]

\* provider.resume of the recorded conversation, or provider.start.
Launch(w) ==
  /\ At(w, "launch")
  /\ \E c \in Convs :
       /\ IF worker[w].seen.conv = None THEN Fresh(c) ELSE c = worker[w].seen.conv
       /\ Executes(Mine(w), c)
       /\ Move(w, [worker[w] EXCEPT !.pc = "begin", !.run = c, !.started = TRUE])
  /\ UNCHANGED <<active, GitHub>>

\* Waiting for a provider slot, the lease is found lost.
SlotLost(w) ==
  /\ \E pc \in {"launch", "correct", "reviewLaunch", "repairLaunch"} : At(w, pc)
  /\ ~Renewable(Mine(w), worker[w].seen.owner)
  /\ Goto(w, "providerError")
  /\ UNCHANGED External

\* begin_attempt, then wait.
Begin(w) ==
  /\ At(w, "begin")
  /\ IF job[Mine(w)].state = RUNNING
     THEN /\ BeginAttempt(Mine(w), worker[w].run)
          /\ Saw(w, "wait") /\ Awaits(w, worker[w].run)
     ELSE Goto(w, "orchestratorError") /\ UNCHANGED active
  /\ UNCHANGED <<running, GitHub>>

\* wait returns when the conversation has stopped, or after the provider's
\* timeout, when it interrupts it first.
Returns(w) ==
  /\ NoLongerAwaits(w)
  /\ \/ worker[w].run \notin running[Mine(w)] /\ UNCHANGED running
     \/ "provider" \in Faults
          /\ running' = [running EXCEPT ![Mine(w)] = @ \ {worker[w].run}]
  /\ UNCHANGED GitHub

\* The result of the first turn is recorded; a correction's is not.
Wait(w) ==
  /\ At(w, "wait")
  /\ Returns(w)
  /\ Goto(w, IF worker[w].corrections = 0 THEN "record" ELSE "result")

Record(w) ==
  /\ At(w, "record")
  /\ RecordConversation(Mine(w), worker[w].run, FALSE) /\ Saw(w, "result")
  /\ UNCHANGED External

\* A failed poll ends the wait, and nobody interrupts the conversation.
PollFails(w) ==
  /\ \E pc \in {"wait", "reviewWait", "repairWait"} : At(w, pc)
  /\ "poll" \in Faults
  /\ NoLongerAwaits(w)
  /\ Goto(w, "providerError")
  /\ UNCHANGED <<running, GitHub>>

\* _transition_from_provider_result: publish the result (refused on a closed
\* issue), honour cancel and pause, then the outcome the agent reported.
Result(w) ==
  LET row == job[Mine(w)] s == worker[w].seen IN
  /\ At(w, "result")
  /\ IF ~issue[Mine(w)].open THEN Goto(w, "staleError")
     ELSE IF row.cancel THEN Stop(w, CANCELED)
     ELSE IF row.pause  THEN Stop(w, NEEDS_GUIDANCE)
     ELSE \/ Goto(w, "validate")
          \/ \E to \in {NEEDS_GUIDANCE, BLOCKED, FAILED, CANCELED} : Stop(w, to)
          \/ s.attempt < MaxAttempts
               /\ SetProviderBackoff(s.route.provider)
               /\ worker' = [worker EXCEPT ![w] = Planned(w, "stop", QUEUED)]
  /\ UNCHANGED External

\* Validation: good enough, one more correction, or the end.
Validate(w) ==
  LET used == worker[w].corrections IN
  /\ At(w, "validate")
  /\ RecordPhase(Mine(w), FALSE)
  /\ \/ Saw(w, "commit")
     \/ worker' = [worker EXCEPT ![w] =
          IF used < MaxCorrections
          THEN [@ EXCEPT !.pc = "correct", !.corrections = used + 1,
                         !.seen = Returned(Mine(w))]
          ELSE Planned(w, "stop", FAILED)]
  /\ UNCHANGED External

Correct(w) ==
  /\ At(w, "correct")
  /\ Executes(Mine(w), worker[w].run)
  /\ Awaits(w, worker[w].run)
  /\ Goto(w, "wait")
  /\ UNCHANGED GitHub

-----------------------------------------------------------------------------
(* Publication. *)

Committed(j) == branch' = [branch EXCEPT ![j] = IF @ = "same" THEN "behind" ELSE @]

\* Commit what changed; without changes or commits the job has failed.  Then
\* read the generated branch: an existing one must match or be a rework.
Commit(w) ==
  LET j == Mine(w)
      Publish(b) == Check(w, IF b = "same" THEN "pullRequest" ELSE "push",
                          b = "same" \/ worker[w].existing)
  IN  /\ At(w, "commit")
      /\ \/ Committed(j) /\ Publish(branch'[j])
         \/ Publish(branch[j]) /\ UNCHANGED branch
         \/ branch[j] = "none" /\ Stop(w, FAILED) /\ UNCHANGED branch
      /\ UNCHANGED <<active, running, issue, pull>>

\* _require_live_lease: renew under the owner of the row last seen, then
\* compare the live concurrency key.
CheckLease(w) ==
  LET s == worker[w].seen IN
  /\ At(w, "lease")
  /\ IF ~Renewable(Mine(w), s.owner) THEN Goto(w, "orchestratorError")
     ELSE IF issue[Mine(w)].route.key # s.route.key THEN Goto(w, "staleError")
     ELSE Goto(w, "guard")
  /\ UNCHANGED External

\* guard_code_mutation; updating the validation section of the pull request
\* requires that it is still open.
GuardPasses(w) ==
  LET i == issue[Mine(w)] s == worker[w].seen IN
  /\ Eligible(i) /\ i.content = s.content /\ SameRouting(i, s)
  /\ pull[Mine(w)] = "open" => s.pr
  /\ branch[Mine(w)] = "none" \/ worker[w].allow
  /\ worker[w].then \in {"openPr", "reviewAgain"} => pull[Mine(w)] = "open"

Guard(w) ==
  /\ At(w, "guard")
  /\ IF GuardPasses(w)
     THEN Move(w, [worker[w] EXCEPT !.pc = worker[w].then, !.then = "idle", !.allow = FALSE])
     ELSE Goto(w, "staleError")
  /\ UNCHANGED External

Push(w) ==
  /\ At(w, "push")
  /\ branch' = [branch EXCEPT ![Mine(w)] = "same"]
  /\ Goto(w, "pullRequest")
  /\ UNCHANGED <<active, running, issue, pull>>

PullRequestPhase(w) ==
  /\ At(w, "pullRequest")
  /\ RecordPhase(Mine(w), FALSE)
  /\ worker' = [worker EXCEPT ![w] =
       [Checking(w, "createPr", TRUE) EXCEPT !.seen = Returned(Mine(w))]]
  /\ UNCHANGED External

\* create_draft_pr reuses an open pull request of the branch.
CreatePr(w) ==
  /\ At(w, "createPr")
  /\ pull' = [pull EXCEPT ![Mine(w)] = "open"]
  /\ Goto(w, IF pull[Mine(w)] = "open" THEN "recordPr" ELSE "labelPr")
  /\ UNCHANGED <<active, running, issue, branch>>

\* A new pull request gets its label if the issue still allows it; if not, the
\* row never learns of it.
LabelPr(w) ==
  LET i == issue[Mine(w)] IN
  /\ At(w, "labelPr")
  /\ Goto(w, IF i.open /\ ~i.paused /\ i.content = worker[w].seen.content
             THEN "recordPr" ELSE "staleError")
  /\ UNCHANGED External

RecordPullRequest(w) ==
  /\ At(w, "recordPr")
  /\ RecordPr(Mine(w))
  /\ worker' = [worker EXCEPT ![w] =
       [@ EXCEPT !.pc = "observed", !.then = "openPr", !.seen = Returned(Mine(w))]]
  /\ UNCHANGED External

\* The CI state is stored with the validation summary, for the pull request's
\* validation section.
Observe(w, next) ==
  Move(w, [worker[w] EXCEPT !.pc = "observed", !.then = next])
Observed(w) ==
  /\ At(w, "observed")
  /\ UNCHANGED storeVars
  /\ worker' = [worker EXCEPT ![w] =
       [Checking(w, worker[w].then, TRUE) EXCEPT !.seen = Returned(Mine(w))]]
  /\ UNCHANGED External

OpenPr(w) == At(w, "openPr") /\ KeepLease(w, PR_OPEN, "opened")

\* Without a review, a second transition releases the lease.
Opened(w) ==
  /\ At(w, "opened")
  /\ IF worker[w].seen.route.review THEN Goto(w, "review") ELSE Stop(w, PR_OPEN)
  /\ UNCHANGED External

-----------------------------------------------------------------------------
(* Review and repair. *)

\* The reviewer is missing or unavailable, or the loop of reviews starts.
Review(w) ==
  /\ At(w, "review")
  /\ Check(w, "reviewing", TRUE) \/ ("provider" \in Faults /\ Stop(w, PR_OPEN))
  /\ UNCHANGED External

\* Mutant of Reviewing: the transition releases the lease.
ReviewingReleased(w) ==
  /\ At(w, "reviewing")
  /\ Transition(Mine(w), REVIEWING, TRUE) /\ Saw(w, "reviewLaunch")
  /\ UNCHANGED External

Reviewing(w) == At(w, "reviewing") /\ KeepLease(w, REVIEWING, "reviewLaunch")

\* reviewer.start, update_job, wait.
ReviewLaunch(w) ==
  /\ At(w, "reviewLaunch")
  /\ RecordReview(Mine(w), ReviewConv)
  /\ Saw(w, "reviewWait") /\ Awaits(w, ReviewConv)
  /\ UNCHANGED <<running, GitHub>>

\* Anything but a completed, structured review ends it.
ReviewWait(w) ==
  /\ At(w, "reviewWait")
  /\ Check(w, "reviewPost", TRUE) \/ Stop(w, PR_OPEN)
  /\ NoLongerAwaits(w)
  /\ UNCHANGED <<running, GitHub>>

\* Mutants of ReviewPost: repairs without a bound, or never counted.
ReviewPostUnbounded(w) ==
  /\ At(w, "reviewPost")
  /\ \/ Stop(w, PR_OPEN)
     \/ Move(w, [Checking(w, "repairLaunch", TRUE) EXCEPT !.pc = "guard", !.repairs = @ + 1])
  /\ UNCHANGED External
ReviewPostUncounted(w) ==
  /\ At(w, "reviewPost")
  /\ \/ Stop(w, PR_OPEN)
     \/ MaxRepairs > 0
          /\ Move(w, [Checking(w, "repairLaunch", TRUE) EXCEPT !.pc = "guard"])
  /\ UNCHANGED External

\* post_review; findings are repaired after one more guard, without a renewal.
ReviewPost(w) ==
  LET used == worker[w].repairs IN
  /\ At(w, "reviewPost")
  /\ \/ Stop(w, PR_OPEN)
     \/ used < MaxRepairs
          /\ Move(w, [Checking(w, "repairLaunch", TRUE) EXCEPT
                        !.pc = "guard", !.repairs = used + 1])
  /\ UNCHANGED External

\* A repair is a new conversation of the implementer.
RepairLaunch(w) ==
  /\ At(w, "repairLaunch")
  /\ \/ \E c \in Convs :
          /\ Fresh(c) /\ Executes(Mine(w), c)
          /\ Move(w, [worker[w] EXCEPT !.pc = "repairRecord", !.run = c])
     \/ "provider" \in Faults /\ Stop(w, PR_OPEN) /\ UNCHANGED running
  /\ UNCHANGED <<active, GitHub>>

RepairRecord(w) ==
  /\ At(w, "repairRecord")
  /\ RecordConversation(Mine(w), worker[w].run, TRUE)
  /\ Saw(w, "repairWait") /\ Awaits(w, worker[w].run)
  /\ UNCHANGED <<running, GitHub>>

RepairWait(w) ==
  /\ At(w, "repairWait")
  /\ Returns(w)
  /\ Goto(w, "repairValidate") \/ Stop(w, PR_OPEN)

\* Validation again; changes are committed and pushed, then the pull request's
\* validation section is updated and the review starts over.
RepairValidate(w) ==
  /\ At(w, "repairValidate")
  /\ \/ Stop(w, PR_OPEN) /\ UNCHANGED branch
     \/ Committed(Mine(w)) /\ Check(w, "repairPush", TRUE)
     \/ Observe(w, "reviewAgain") /\ UNCHANGED branch
  /\ UNCHANGED <<active, running, issue, pull>>

RepairPush(w) ==
  /\ At(w, "repairPush")
  /\ branch' = [branch EXCEPT ![Mine(w)] = "same"]
  /\ Observe(w, "reviewAgain")
  /\ UNCHANGED <<active, running, issue, pull>>

ReviewAgain(w) ==
  /\ At(w, "reviewAgain")
  /\ Check(w, "reviewing", TRUE)
  /\ UNCHANGED External

-----------------------------------------------------------------------------
(* Errors.  StaleIssueError, OpenHandsProviderError, the other known errors *)
(* and the unknown ones each have a handler; each reads the row again.      *)

GitHubCalls == {"preflight", "lookup", "health", "adopt", "result", "commit",
                "lease", "guard", "launch", "push", "repairPush", "createPr",
                "labelPr", "observed", "reviewLaunch", "reviewPost"}
WorkspaceCalls == {"adopt", "setup", "validate", "commit", "push", "repairPush",
                   "repairValidate"}
ProviderCalls == {"launch", "correct", "reviewLaunch", "repairLaunch"}
Handlers == {"staleError", "providerError", "orchestratorError", "unexpectedError"}

CallFails(w) ==
  /\ \/ /\ \/ "github" \in Faults /\ worker[w].pc \in GitHubCalls
           \/ "workspace" \in Faults /\ worker[w].pc \in WorkspaceCalls
        /\ Goto(w, "orchestratorError")
     \/ /\ "provider" \in Faults /\ worker[w].pc \in ProviderCalls
        /\ Goto(w, "providerError")
     \/ /\ "unexpected" \in Faults
        /\ worker[w].pc \in GitHubCalls \cup WorkspaceCalls \cup ProviderCalls
        /\ Goto(w, "unexpectedError")
  /\ UNCHANGED External

OnStale(w) ==
  /\ At(w, "staleError")
  /\ Leave(w, IF job[Mine(w)].pr THEN PR_OPEN ELSE NEEDS_GUIDANCE)
  /\ UNCHANGED External

Published(row) == row.pr /\ row.state \in {PR_OPEN, REVIEWING}

\* A rate limit seen on any provider backs that provider off.
OnProviderError(w) ==
  LET row == job[Mine(w)] s == worker[w].seen
      BackOff(p, to) == /\ SetProviderBackoff(p)
                        /\ worker' = [worker EXCEPT ![w] = Planned(w, "leave", to)]
  IN  /\ At(w, "providerError")
      /\ \/ \E p \in Providers :
              "provider" \in Faults /\ BackOff(p, IF row.pr THEN PR_OPEN ELSE QUEUED)
         \/ IF Published(row) THEN Leave(w, PR_OPEN)
            ELSE IF ~worker[w].started THEN Leave(w, NEEDS_GUIDANCE)
            ELSE IF s.attempt < MaxAttempts THEN BackOff(s.route.provider, QUEUED)
            ELSE Leave(w, FAILED)
      /\ UNCHANGED External

\* Mutant of OnOrchestratorError: a failed job is queued again.
OnOrchestratorErrorRequeues(w) ==
  /\ At(w, "orchestratorError")
  /\ Leave(w, IF Published(job[Mine(w)]) THEN PR_OPEN ELSE QUEUED)
  /\ UNCHANGED External

OnOrchestratorError(w) ==
  LET row == job[Mine(w)] IN
  /\ At(w, "orchestratorError")
  /\ IF Published(row) THEN Leave(w, PR_OPEN)
     ELSE IF row.state = RUNNING THEN Leave(w, FAILED)
     ELSE Move(w, Planned(w, "finish", Absent))
  /\ UNCHANGED External

OnUnexpectedError(w) ==
  /\ At(w, "unexpectedError")
  /\ Leave(w, IF Published(job[Mine(w)]) THEN PR_OPEN ELSE FAILED)
  /\ UNCHANGED External

-----------------------------------------------------------------------------
(* The end of a run. *)

Stopping(w) ==
  /\ At(w, "stop") \/ At(w, "leave")
  /\ IF TransitionAllowed(Mine(w), worker[w].to)
     THEN /\ Transition(Mine(w), worker[w].to, TRUE)
          /\ worker' = [worker EXCEPT ![w] = Planned(w, "finish", Absent)]
     ELSE Goto(w, IF At(w, "stop") THEN "orchestratorError" ELSE "finish")
  /\ UNCHANGED External

\* _finish synchronises labels and comments and writes the report while the
\* heartbeat still runs; an exception that nobody catches ends the future.
Finish(w) ==
  /\ At(w, "finish")
  /\ Move(w, Idle)
  /\ UNCHANGED External

-----------------------------------------------------------------------------
(* The heartbeat thread of a worker. *)

\* renew_lease fails: the job is no longer this process's.
HeartbeatLost(w) ==
  /\ worker[w].beat # "off"
  /\ ~Renewable(Mine(w), OwnerOf[w])
  /\ CancelRun(OwnerOf[w], Mine(w), job[Mine(w)])
  /\ Move(w, [worker[w] EXCEPT !.beat = "off"])
  /\ UNCHANGED <<active, GitHub>>

\* The first time cancel or pause is seen, the run is interrupted.
HeartbeatFlags(w) ==
  /\ worker[w].beat = "on"
  /\ Renewable(Mine(w), OwnerOf[w])
  /\ job[Mine(w)].cancel \/ job[Mine(w)].pause
  /\ CancelRun(OwnerOf[w], Mine(w), job[Mine(w)])
  /\ Move(w, [worker[w] EXCEPT !.beat = "flagged"])
  /\ UNCHANGED <<active, GitHub>>

\* lease_seconds exceeds heartbeat_seconds (config.py), so a lease expires
\* while a thread of its owner renews it only if that process stalls.
Renewed(l) ==
  \E w \in Workers :
    worker[w].beat # "off" /\ OwnerOf[w] = l.owner /\ Mine(w) = l.job

Expires(l) ==
  /\ Renewed(l) => "stall" \in Faults
  /\ LeaseExpires(l)
  /\ UNCHANGED workVars

-----------------------------------------------------------------------------
Step(w) ==
  \/ Preflight(w) \/ LookupPr(w) \/ Adopt(w) \/ Adopted(w) \/ Health(w) \/ Setup(w)
  \/ Launch(w) \/ SlotLost(w) \/ Begin(w) \/ Wait(w) \/ Record(w) \/ PollFails(w)
  \/ Result(w) \/ Validate(w) \/ Correct(w)
  \/ Commit(w) \/ CheckLease(w) \/ Guard(w) \/ Push(w) \/ PullRequestPhase(w)
  \/ CreatePr(w) \/ LabelPr(w) \/ RecordPullRequest(w) \/ Observed(w) \/ OpenPr(w) \/ Opened(w)
  \/ Review(w) \/ Reviewing(w) \/ ReviewLaunch(w) \/ ReviewWait(w) \/ ReviewPost(w)
  \/ RepairLaunch(w) \/ RepairRecord(w) \/ RepairWait(w) \/ RepairValidate(w)
  \/ RepairPush(w) \/ ReviewAgain(w)
  \/ CallFails(w) \/ OnStale(w) \/ OnProviderError(w) \/ OnOrchestratorError(w)
  \/ OnUnexpectedError(w)
  \/ Stopping(w) \/ Finish(w)
=============================================================================
