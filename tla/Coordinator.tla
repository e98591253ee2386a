---------------------------- MODULE Coordinator ----------------------------
(***************************************************************************)
(* The control plane (coordinator.py): recovery of expired leases, the     *)
(* reconciliation of merged pull requests, operator commands and intake.   *)
(* They run in the scheduler's loop thread, in webhook handlers and in a   *)
(* second process (agentctl), in any order and interleaved with workers    *)
(* and with each other.                                                    *)
(*                                                                         *)
(* Each operation reads a row or a live issue first and acts on it later:  *)
(* thread keeps what was read.                                             *)
(***************************************************************************)
EXTENDS Worker

CONSTANTS
  Threads,   \* control-plane threads
  ProcessOf, \* the process of a thread
  Loops      \* the threads that are a scheduler loop

ASSUME CoordinatorAssumption ==
  /\ ProcessOf \in [Threads -> Owners]
  /\ Loops \subseteq Threads

VARIABLE thread  \* the local variables of each control-plane thread

Resting ==
  [pc |-> "idle", job |-> None, row |-> None, cmd |-> None, then |-> "idle", live |-> None]

In(t, pc) == thread[t].pc = pc
Its(t) == thread[t].job

\* The columns a control-plane operation reads.
Read(j) ==
  [state |-> job[j].state, conv |-> job[j].conv, rconv |-> job[j].rconv,
   repair |-> job[j].repair, pr |-> job[j].pr]

Done(t) == thread' = [thread EXCEPT ![t] = Resting]
Then(t, pc) ==
  IF pc = "idle" THEN Done(t) ELSE thread' = [thread EXCEPT ![t].pc = pc]

\* An exception nobody catches: Scheduler._loop has no handler, so the loop
\* thread is gone; a webhook handler answers with an error.
Raises(t) ==
  thread' = [thread EXCEPT ![t] =
               IF t \in Loops THEN [Resting EXCEPT !.pc = "dead"] ELSE Resting]

Tries(t, to) ==
  IF TransitionAllowed(Its(t), to)
  THEN Transition(Its(t), to, TRUE) /\ Done(t)
  ELSE UNCHANGED storeVars /\ Raises(t)

\* The tick of a loop meets the constraint violation of claim_next.
TickRaises(t) ==
  /\ t \in Loops /\ In(t, "idle")
  /\ \E w \in Workers : OwnerOf[w] = ProcessOf[t] /\ ~Busy(w)
  /\ ClaimRaises
  /\ Raises(t)
  /\ UNCHANGED <<storeVars, workVars>>

-----------------------------------------------------------------------------
(* recover_expired_leases. *)

\* One job of the list read at the start.
ExpiredFound(t, j) ==
  /\ In(t, "idle") /\ j \in ExpiredJobs
  /\ thread' = [thread EXCEPT ![t] =
                  [Resting EXCEPT !.pc = "recover", !.job = j, !.row = Read(j)]]
  /\ UNCHANGED <<storeVars, workVars>>

\* Mutant of CancelExpired: the conversation is left alone.
CancelExpiredNever(t) ==
  /\ In(t, "recover")
  /\ Then(t, "reap")
  /\ UNCHANGED <<storeVars, workVars>>

\* Cancel the durable run before the job becomes runnable again.
CancelExpired(t) ==
  LET row == thread[t].row
      run == DurableConv(row)
      known == row.conv # None \/ row.rconv # None
  IN  /\ In(t, "recover")
      /\ \/ /\ run # None
            /\ running' = [running EXCEPT ![Its(t)] = @ \ {run}]
            /\ Then(t, "reap")
         \/ /\ \/ run # None /\ "provider" \in Faults
               \/ run = None /\ known
            /\ Then(t, "giveUp")
            /\ UNCHANGED running
         \/ ~known /\ Then(t, "reap") /\ UNCHANGED running
      /\ UNCHANGED <<storeVars, worker, active, GitHub>>

\* The conversation could not be cancelled: a human has to look at it.
GiveUp(t) ==
  LET row == thread[t].row
      published == row.pr /\ (row.state = REVIEWING \/ DurableConv(row) = None)
  IN  /\ In(t, "giveUp")
      /\ Tries(t, IF published THEN PR_OPEN ELSE NEEDS_GUIDANCE)
      /\ UNCHANGED workVars

\* The lease may have been released or taken over meanwhile.
Reap(t) ==
  LET j == Its(t) IN
  /\ In(t, "reap")
  /\ IF j \in ExpiredJobs
     THEN /\ ReapExpired(j)
          /\ IF thread[t].row.state = REVIEWING /\ RecoveryState(j) = PR_OPEN
             THEN Then(t, "requeue") ELSE Done(t)
     ELSE UNCHANGED storeVars /\ Done(t)
  /\ UNCHANGED workVars

RequeueReview(t) ==
  /\ In(t, "requeue")
  /\ RequestRequeue(Its(t))
  /\ Done(t)
  /\ UNCHANGED workVars

-----------------------------------------------------------------------------
(* reconcile: pull requests merged by a human. *)

\* Mutant of MergedFound: closed issues are passed over.
MergedFoundOpen(t, j) ==
  /\ In(t, "idle") /\ issue[j].open
  /\ job[j].state = PR_OPEN /\ job[j].pr /\ pull[j] = "merged"
  /\ thread' = [thread EXCEPT ![t] = [Resting EXCEPT !.pc = "merged", !.job = j]]
  /\ UNCHANGED <<storeVars, workVars>>

MergedFound(t, j) ==
  /\ In(t, "idle")
  /\ job[j].state = PR_OPEN /\ job[j].pr /\ pull[j] = "merged"
  /\ thread' = [thread EXCEPT ![t] = [Resting EXCEPT !.pc = "merged", !.job = j]]
  /\ UNCHANGED <<storeVars, workVars>>

\* Mutant of CloseMerged: the state is written without the store's method.
CloseMergedDirectly(t) ==
  /\ In(t, "merged")
  /\ Put(Its(t), [job[Its(t)] EXCEPT !.state = DONE])
  /\ Done(t)
  /\ UNCHANGED <<leases, backoff, workVars>>

\* reconcile catches GitHubError only: a StoreError ends the loop.
CloseMerged(t) == In(t, "merged") /\ Tries(t, DONE) /\ UNCHANGED workVars

-----------------------------------------------------------------------------
(* Operator commands: apply_control_comment and control. *)

\* control reads the job first: what it interrupts later is what it read here.
Command(t, j, cmd) ==
  /\ In(t, "idle")
  /\ thread' = [thread EXCEPT ![t] =
       [Resting EXCEPT !.pc = "request", !.job = j, !.cmd = cmd, !.row = Read(j)]]
  /\ UNCHANGED <<storeVars, workVars>>

\* What follows depends on the row request_control returns (cmd resume, retry).
Request(t) ==
  LET j == Its(t) cmd == thread[t].cmd IN
  /\ In(t, "request")
  /\ IF Exists(j) THEN RequestControl(j, cmd) ELSE UNCHANGED storeVars
  /\ thread' = [thread EXCEPT ![t].pc = "labels",
       ![t].then = CASE ~Exists(j) -> IF cmd \in {"pause", "cancel"} THEN "idle" ELSE "intake"
                     [] Exists(j) /\ cmd \in {"pause", "cancel"} ->
                          IF thread[t].row.state = Absent THEN "idle" ELSE "interrupt"
                     [] OTHER -> IF job'[j].state = QUEUED THEN "revalidate" ELSE "idle"]
  /\ UNCHANGED workVars

Labelled(i, cmd) ==
  [i EXCEPT !.paused = IF cmd = "pause" THEN TRUE
                       ELSE IF cmd = "cancel" THEN @ ELSE FALSE,
            !.ready  = IF cmd = "cancel" THEN FALSE
                       ELSE IF cmd = "pause" THEN @ ELSE TRUE]

\* set_control_state refuses a closed issue, after the store has changed.
SetLabels(t) ==
  LET j == Its(t) IN
  /\ In(t, "labels")
  /\ \/ /\ issue[j].open
        /\ issue' = [issue EXCEPT ![j] = Labelled(@, thread[t].cmd)]
        /\ Then(t, thread[t].then)
     \/ /\ ~issue[j].open \/ "github" \in Faults
        /\ Done(t) /\ UNCHANGED issue
  /\ UNCHANGED <<storeVars, worker, active, running, pull, branch>>

\* _cancel_active_run with the row read before the command.
Interrupt(t) ==
  /\ In(t, "interrupt")
  /\ CancelRun(ProcessOf[t], Its(t), thread[t].row)
  /\ Done(t)
  /\ UNCHANGED <<storeVars, worker, active, GitHub>>

\* resume and retry accept the live issue as it is now.
Revalidate(t) ==
  LET i == issue[Its(t)] IN
  /\ In(t, "revalidate")
  /\ thread' = [thread EXCEPT ![t].pc = IF Eligible(i) THEN "accept" ELSE "refuse",
                              ![t].live = i]
  /\ UNCHANGED <<storeVars, workVars>>

\* Both StoreErrors are caught by the caller.
Refuse(t) ==
  /\ In(t, "refuse")
  /\ IF TransitionAllowed(Its(t), NEEDS_GUIDANCE)
     THEN Transition(Its(t), NEEDS_GUIDANCE, TRUE) ELSE UNCHANGED storeVars
  /\ Done(t)
  /\ UNCHANGED workVars

Accept(t) ==
  /\ In(t, "accept")
  /\ IF job[Its(t)].state = QUEUED
     THEN AcceptSnapshot(Its(t), thread[t].live.content) /\ Then(t, "reroute")
     ELSE UNCHANGED storeVars /\ Done(t)
  /\ UNCHANGED workVars

Reroute(t) ==
  /\ In(t, "reroute")
  /\ RecordRouting(Its(t), thread[t].live.route)
  /\ Done(t)
  /\ UNCHANGED workVars

-----------------------------------------------------------------------------
(* Intake: enqueue, for an issue a webhook or the reconciliation reports.   *)

IssueReported(t, j) ==
  /\ In(t, "idle")
  /\ thread' = [thread EXCEPT ![t] =
                  [Resting EXCEPT !.pc = "decide", !.job = j, !.live = issue[j]]]
  /\ UNCHANGED <<storeVars, workVars>>

\* A resume or retry of an issue without a job.
ReadIssue(t) ==
  /\ In(t, "intake")
  /\ thread' = [thread EXCEPT ![t].pc = "decide", ![t].live = issue[Its(t)]]
  /\ UNCHANGED <<storeVars, workVars>>

\* What the live issue means for the job as it is now.
Decision(row, i) ==
  LET stale == ~Eligible(i) \/ i.content # row.content \/ i.route # row.route
      fresh == row.attempt = 0 /\ Eligible(i)
  IN  CASE row.state = Absent -> IF Eligible(i) THEN "lookUp" ELSE "skip"
        [] row.state = QUEUED -> IF fresh THEN "update" ELSE IF stale THEN "halt" ELSE "skip"
        [] row.state \in ACTIVE_STATES -> IF stale THEN "halt" ELSE "skip"
        [] OTHER -> "skip"

Decide(t) ==
  /\ In(t, "decide")
  /\ thread' = [thread EXCEPT ![t].row = Read(Its(t)),
                              ![t].pc = Decision(job[Its(t)], thread[t].live)]
  /\ UNCHANGED <<storeVars, workVars>>

Skip(t) == In(t, "skip") /\ Done(t) /\ UNCHANGED <<storeVars, workVars>>

\* Mutant of Update: the store does not look at the row again.
UpdateUnchecked(t) ==
  /\ In(t, "update")
  /\ Put(Its(t), [job[Its(t)] EXCEPT !.content = thread[t].live.content])
  /\ Done(t)
  /\ UNCHANGED <<leases, backoff, workVars>>

Update(t) ==
  LET j == Its(t) i == thread[t].live IN
  /\ In(t, "update")
  /\ IF job[j].state = QUEUED /\ job[j].attempt = 0
     THEN UpdateSnapshotIfUnclaimed(j, i.route, i.content) ELSE UNCHANGED storeVars
  /\ Done(t)
  /\ UNCHANGED workVars

\* _halt_ineligible: the live issue no longer allows the work.
Halt(t) ==
  /\ In(t, "halt")
  /\ RequestControl(Its(t), IF thread[t].live.open THEN "pause" ELSE "cancel")
  /\ Then(t, "interrupt")
  /\ UNCHANGED workVars

\* Look for the pull request and the branch, then insert the row: it is queued,
\* and may be claimed, before the checks that follow.
LookUp(t) ==
  LET j == Its(t) IN
  /\ In(t, "lookUp")
  /\ thread' = [thread EXCEPT ![t].pc = "create", ![t].then =
       IF pull[j] = "open" THEN "adoptPr" ELSE IF branch[j] # "none" THEN "orphan" ELSE "idle"]
  /\ UNCHANGED <<storeVars, workVars>>

Create(t) ==
  LET j == Its(t) i == thread[t].live IN
  /\ In(t, "create")
  /\ IF Exists(j) THEN UNCHANGED storeVars ELSE EnsureJob(j, i.route, i.content)
  /\ \/ Then(t, thread[t].then)
     \/ thread[t].then = "idle" /\ "provider" \in Faults /\ Then(t, "orphan")
  /\ UNCHANGED workVars

AdoptPr(t) ==
  /\ In(t, "adoptPr")
  /\ RecordPr(Its(t)) /\ Then(t, "adoptOpen")
  /\ UNCHANGED workVars

AdoptOpen(t) == In(t, "adoptOpen") /\ Tries(t, PR_OPEN) /\ UNCHANGED workVars

\* An orphan branch, or a provider that cannot run: a human has to act.
NeedsGuidance(t) ==
  In(t, "orphan") /\ Tries(t, NEEDS_GUIDANCE) /\ UNCHANGED workVars

-----------------------------------------------------------------------------
Continue(t) ==
  \/ CancelExpired(t) \/ GiveUp(t) \/ Reap(t) \/ RequeueReview(t)
  \/ CloseMerged(t)
  \/ Request(t) \/ SetLabels(t) \/ Interrupt(t) \/ Revalidate(t) \/ Refuse(t) \/ Accept(t)
  \/ Reroute(t)
  \/ ReadIssue(t) \/ Decide(t) \/ Skip(t) \/ Update(t) \/ Halt(t) \/ LookUp(t) \/ Create(t)
  \/ AdoptPr(t) \/ AdoptOpen(t) \/ NeedsGuidance(t)
=============================================================================
