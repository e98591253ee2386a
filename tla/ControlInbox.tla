---------------------------- MODULE ControlInbox ----------------------------
(***************************************************************************)
(* How a trusted /agent comment becomes a command: the webhook handler     *)
(* (webhook.py), the replay of missed comments at the end of reconcile,    *)
(* apply_control_comment and control (coordinator.py).  A command is keyed *)
(* by its comment; deliveries and operation locks keep two processes from  *)
(* applying it both.  Workers move the same jobs meanwhile.                *)
(*                                                                         *)
(* control is the one of Coordinator, with the issue's real labels; the    *)
(* conversations it interrupts are left to that module, the status it      *)
(* shows at its end, which raises nothing, to StatusSync.  Comments are    *)
(* numbered in the order of their ids.                                     *)
(*                                                                         *)
(* External: comments and labels on GitHub, delivery of webhooks.          *)
(***************************************************************************)
EXTENDS Store, OperationLocks

CONSTANTS
  Threads,      \* threads that run reconcile passes
  ProcessOf,    \* the process of a thread; its coordinator owns the locks
  Comments,     \* ids of trusted comments with an exact command
  IssueOf,      \* the issue of each comment
  CommandOf,    \* the command in each comment
  Handlers,     \* those that answer webhooks too
  FirstLabels,  \* the labels of an issue at the start
  Reviewing,    \* the sets of providers that may be ready to review at a time
  HumanCloses,  \* whether humans close and reopen issues
  Faults,       \* which failures happen: "github", "crash"
  Outcomes,     \* the states in which runs of workers end
  ApplyCap      \* bound: applications of a command are counted up to this

INSTANCE Routing

ASSUME InboxAssumption ==
  /\ Owners # {} /\ ProcessOf \in [Threads -> Owners]
  /\ Faults \subseteq {"github", "crash"}
  /\ Comments \subseteq Nat /\ IsFiniteSet(Comments)
  /\ IssueOf \in [Comments -> Jobs]
  /\ CommandOf \in [Comments -> Commands]
  /\ Handlers \subseteq Threads
  /\ FirstLabels \subseteq RoutingLabels
  /\ None \notin Providers \cup Comments
  /\ Reviewing \subseteq SUBSET Providers
  /\ HumanCloses \in BOOLEAN
  /\ Outcomes \X {TRUE} \subseteq TransitionCalls
  /\ ApplyCap \in Nat \ {0}

VARIABLES
  issue,     \* the live issue of each job: open, and its routing labels
  inbox,     \* the comments that were posted
  hooks,     \* comments whose webhook delivery is recorded
  recorded,  \* comments recorded as applied (deliveries, issue-comment:...)
  applied,   \* how often each command reached the store (history)
  cut,       \* commands whose application an exception or a crash ended (history)
  caller,    \* the local variables of each thread
  up         \* the processes that have not crashed

inboxVars == <<storeVars, locks, issue, inbox, hooks, recorded, applied, cut, caller, up>>
ledger == <<inbox, hooks, recorded, applied, cut>>

Waiting == [pc |-> "idle", list |-> {}, comment |-> None, raised |-> FALSE,
            row |-> Absent, route |-> Ineligible]

Calls(t, pc) == caller[t].pc = pc
Its(t) == IssueOf[caller[t].comment]
\* The next step needs no result of the last.
Goto(t, pc) ==
  caller' = [caller EXCEPT ![t].pc = pc, ![t].row = Absent, ![t].route = Ineligible]
ControlLock(t) == <<"control", caller[t].comment>>

\* A comment was handed to apply_control_comment; the rest of the list waits.
Checking(c, rest) == [Waiting EXCEPT !.pc = "check", !.list = rest, !.comment = c]

\* A pass goes on with the oldest comment of its list, or ends; the handler of
\* a webhook has an empty list.
Begin(t, list) ==
  \/ list = {} /\ caller' = [caller EXCEPT ![t] = Waiting]
  \/ \E c \in list :
       /\ \A d \in list : c <= d
       /\ caller' = [caller EXCEPT ![t] = Checking(c, list \ {c})]
GoesOn(t) == Begin(t, caller[t].list)

\* An exception: the lock is released (finally), then the pass or the request
\* ends.
Throws(t) == caller' = [caller EXCEPT ![t].pc = "release", ![t].raised = TRUE]

InboxInit ==
  /\ job \in [Jobs -> {AbsentRow, NewRow}]
  /\ leases = {} /\ backoff = {}
  /\ locks = {}
  /\ issue = [j \in Jobs |-> [open |-> TRUE, labels |-> FirstLabels]]
  /\ inbox = {} /\ hooks = {} /\ recorded = {}
  /\ applied = [c \in Comments |-> 0] /\ cut = {}
  /\ caller = [t \in Threads |-> Waiting]
  /\ up = Owners

-----------------------------------------------------------------------------
(* Where commands come from. *)

\* The delivery is recorded before anything is done about it; a redelivery is
\* answered as a duplicate.
WebhookArrives(t, c) ==
  /\ t \in Handlers /\ Calls(t, "idle")
  /\ c \in inbox /\ c \notin hooks
  /\ hooks' = hooks \cup {c}
  /\ caller' = [caller EXCEPT ![t] = Checking(c, {})]
  /\ UNCHANGED <<storeVars, locks, issue, inbox, recorded, applied, cut, up>>

\* list_control_commands: all of them, the oldest first.
ReconcileStarts(t) ==
  /\ Calls(t, "idle") /\ inbox # {}
  /\ Begin(t, inbox)
  /\ UNCHANGED <<storeVars, locks, issue, ledger, up>>

-----------------------------------------------------------------------------
(* apply_control_comment. *)

Quiet == UNCHANGED <<storeVars, locks, issue, ledger, up>>

CheckDelivery(t) ==
  /\ Calls(t, "check")
  /\ IF caller[t].comment \in recorded THEN GoesOn(t) ELSE Goto(t, "acquire")
  /\ Quiet

\* Mutant of AcquireControl: the recheck under the lock is missing.
AcquireControlUnchecked(t) ==
  /\ Calls(t, "acquire")
  /\ \/ AcquireOperationLock(ControlLock(t), ProcessOf[t]) /\ Goto(t, "request")
     \/ OperationLockRefused(ControlLock(t)) /\ GoesOn(t)
  /\ UNCHANGED <<storeVars, issue, ledger, up>>

AcquireControl(t) ==
  /\ Calls(t, "acquire")
  /\ \/ AcquireOperationLock(ControlLock(t), ProcessOf[t]) /\ Goto(t, "recheck")
     \/ OperationLockRefused(ControlLock(t)) /\ GoesOn(t)
  /\ UNCHANGED <<storeVars, issue, ledger, up>>

Recheck(t) ==
  /\ Calls(t, "recheck")
  /\ Goto(t, IF caller[t].comment \in recorded THEN "release" ELSE "request")
  /\ Quiet

Record(t) ==
  /\ Calls(t, "record")
  /\ recorded' = recorded \cup {caller[t].comment}
  /\ Goto(t, "release")
  /\ UNCHANGED <<storeVars, locks, issue, inbox, hooks, applied, cut, up>>

\* Mutant of Release: no finally.
ReleaseUnlessRaised(t) ==
  /\ Calls(t, "release")
  /\ IF caller[t].raised
     THEN caller' = [caller EXCEPT ![t] = Waiting] /\ UNCHANGED locks
     ELSE GoesOn(t) /\ ReleaseOperationLock(ControlLock(t), ProcessOf[t])
  /\ UNCHANGED <<storeVars, issue, ledger, up>>

\* After an exception the rest of the list waits for the next pass.
Release(t) ==
  /\ Calls(t, "release")
  /\ ReleaseOperationLock(ControlLock(t), ProcessOf[t])
  /\ IF caller[t].raised
     THEN /\ caller' = [caller EXCEPT ![t] = Waiting]
          /\ cut' = cut \cup {caller[t].comment}
     ELSE GoesOn(t) /\ UNCHANGED cut
  /\ UNCHANGED <<storeVars, issue, inbox, hooks, recorded, applied, up>>

-----------------------------------------------------------------------------
(* control. *)

\* The store first.
Request(t) ==
  LET c == caller[t].comment j == Its(t) IN
  /\ Calls(t, "request")
  /\ IF Exists(j) THEN RequestControl(j, CommandOf[c]) ELSE UNCHANGED storeVars
  /\ applied' = [applied EXCEPT ![c] = IF @ < ApplyCap THEN @ + 1 ELSE @]
  /\ caller' = [caller EXCEPT ![t].pc = "labels", ![t].row = job'[j].state]
  /\ UNCHANGED <<locks, issue, inbox, hooks, recorded, cut, up>>

\* Mutant of Labelled: the command's name is the label.
LabelledByName(labels, cmd) == labels \cup {Agent(cmd)}

Labelled(labels, cmd) ==
  IF cmd = "pause" THEN labels \cup {Agent("paused")}
  ELSE IF cmd = "cancel" THEN labels \ {Agent("ready")}
  ELSE (labels \ {Agent("paused")}) \cup {Agent("ready")}

Restarts(c) == CommandOf[c] \in {"resume", "retry"}

\* set_control_state refuses a closed issue, after the store has changed.
SetLabels(t) ==
  LET c == caller[t].comment j == Its(t) s == caller[t].row IN
  /\ Calls(t, "labels")
  /\ \/ /\ issue[j].open
        /\ issue' = [issue EXCEPT ![j].labels = Labelled(@, CommandOf[c])]
        /\ Goto(t, IF s = Absent THEN IF Restarts(c) THEN "enqueue" ELSE "record"
                   ELSE IF Restarts(c) /\ s = QUEUED THEN "revalidate" ELSE "record")
     \/ /\ ~issue[j].open \/ "github" \in Faults
        /\ Throws(t) /\ UNCHANGED issue
  /\ UNCHANGED <<storeVars, locks, ledger, up>>

\* get_issue and route; who may review is asked of the providers now.
Revalidate(t) ==
  LET i == issue[Its(t)] IN
  /\ Calls(t, "revalidate")
  /\ \/ \E available \in Reviewing :
          LET d == route(i.open, i.labels, available) IN
          caller' = [caller EXCEPT ![t].pc = IF d.eligible THEN "accept" ELSE "refuse",
                                   ![t].route = d]
     \/ "github" \in Faults /\ Throws(t)
  /\ Quiet

\* The store refuses the transition if a worker has ended the job meanwhile.
Refuse(t) ==
  LET j == Its(t) IN
  /\ Calls(t, "refuse")
  /\ IF TransitionAllowed(j, NEEDS_GUIDANCE)
     THEN /\ Transition(j, NEEDS_GUIDANCE, TRUE)
          /\ Goto(t, "record")
     ELSE Throws(t) /\ UNCHANGED storeVars
  /\ UNCHANGED <<locks, issue, ledger, up>>

\* accept_snapshot, for a row that is still queued.
Accept(t) ==
  LET j == Its(t) IN
  /\ Calls(t, "accept")
  /\ IF job[j].state = QUEUED
     THEN (\E c \in Contents : AcceptSnapshot(j, c)) /\ caller' = [caller EXCEPT ![t].pc = "reroute"]
     ELSE Throws(t) /\ UNCHANGED storeVars
  /\ UNCHANGED <<locks, issue, ledger, up>>

RouteOf(d) == {r \in Routes : r.provider = d.provider /\ r.review = d.review}

Reroute(t) ==
  LET j == Its(t) IN
  /\ Calls(t, "reroute")
  /\ \E r \in RouteOf(caller[t].route) : RecordRouting(j, r)
  /\ Goto(t, "record")
  /\ UNCHANGED <<locks, issue, ledger, up>>

\* resume and retry of an issue without a job: enqueue, which raises
\* IntakeError for an issue that may not be worked on.
Enqueue(t) ==
  LET i == issue[Its(t)] j == Its(t) IN
  /\ Calls(t, "enqueue")
  /\ \E available \in Reviewing :
       LET d == route(i.open, i.labels, available) IN
       IF ~d.eligible THEN Throws(t) /\ UNCHANGED storeVars
       ELSE /\ IF Exists(j) THEN UNCHANGED storeVars
               ELSE \E r \in RouteOf(d), c \in Contents : EnsureJob(j, r, c)
            /\ Goto(t, "record")
  /\ UNCHANGED <<locks, issue, ledger, up>>

Control(t) ==
  \/ CheckDelivery(t) \/ AcquireControl(t) \/ Recheck(t) \/ Record(t) \/ Release(t)
  \/ Request(t) \/ SetLabels(t) \/ Revalidate(t) \/ Refuse(t) \/ Accept(t) \/ Reroute(t)
  \/ Enqueue(t)

-----------------------------------------------------------------------------
(* The environment. *)

\* Ids ascend.
Comment(c) ==
  /\ c \notin inbox /\ \A d \in inbox : d < c
  /\ inbox' = inbox \cup {c}
  /\ UNCHANGED <<storeVars, locks, issue, hooks, recorded, applied, cut, caller, up>>

OpenOrClose(j) ==
  /\ HumanCloses
  /\ issue' = [issue EXCEPT ![j].open = ~@]
  /\ UNCHANGED <<storeVars, locks, caller, ledger, up>>

\* What a worker, of whatever process, does to a row that commands are about;
\* how it decides is in Worker.
JobRuns(j) ==
  /\ \/ ClaimNext(j, CHOOSE o \in Owners : TRUE)
     \/ /\ job[j].state = RUNNING
        /\ \E s \in Outcomes : Transition(j, s, TRUE)
  /\ UNCHANGED <<locks, issue, caller, ledger, up>>

Applying(t) == caller[t].pc \notin {"idle", "check", "acquire", "recheck", "request"}

\* A process dies for good; its locks stay.  The last process stays up.
Crash(o) ==
  LET its == {t \in Threads : ProcessOf[t] = o} IN
  /\ "crash" \in Faults
  /\ o \in up /\ up # {o}
  /\ up' = up \ {o}
  /\ caller' = [t \in Threads |-> IF t \in its THEN Waiting ELSE caller[t]]
  /\ cut' = cut \cup {caller[t].comment : t \in {u \in its : Applying(u)}}
  /\ UNCHANGED <<storeVars, locks, issue, inbox, hooks, recorded, applied>>

\* No thread is slower than the 900 seconds of its locks.
Expire ==
  /\ \E l \in locks : l.owner \notin up /\ LockExpires(l)
  /\ UNCHANGED <<storeVars, issue, caller, ledger, up>>

Alive(t) == ProcessOf[t] \in up

InboxNext ==
  \/ \E t \in Threads : Alive(t) /\ (Control(t) \/ ReconcileStarts(t))
  \/ \E t \in Threads, c \in Comments : Alive(t) /\ WebhookArrives(t, c)
  \/ \E c \in Comments : Comment(c)
  \/ \E j \in Jobs : OpenOrClose(j) \/ JobRuns(j)
  \/ \E o \in Owners : Crash(o)
  \/ Expire

Spec == InboxInit /\ [][InboxNext]_inboxVars

Answered(t) == ~caller'[t].raised

\* Threads run, timers start their passes, locks of the dead expire; GitHub does
\* not fail for ever.
LiveSpec ==
  /\ Spec
  /\ WF_inboxVars(Expire)
  /\ \A t \in Threads :
       /\ WF_inboxVars(Alive(t) /\ Control(t))
       /\ WF_inboxVars(Alive(t) /\ ReconcileStarts(t))
       /\ SF_inboxVars(Alive(t) /\ SetLabels(t) /\ Answered(t))
       /\ SF_inboxVars(Alive(t) /\ Revalidate(t) /\ Answered(t))

-----------------------------------------------------------------------------
(* Properties. *)

\* Locks, issues and threads keep their domains.
InboxTypeOK ==
  /\ StoreTypeOK
  /\ locks \subseteq [name : {"control"} \X Comments,
                     owner : Owners, live : BOOLEAN]
  /\ \A j \in Jobs : issue[j].labels \subseteq RoutingLabels

\* However webhooks and replays of two processes interleave, a command reaches
\* the store a second time only after an exception or a crash cut off its first
\* application.
AppliedTwiceOnlyIfCut == \A c \in Comments : applied[c] > 1 => c \in cut

\* docs/state-machine.md: comment ids "are the idempotency key, so webhook
\* redelivery and scheduled recovery cannot apply the same pause/resume/retry/
\* cancel twice".
AppliedOnce == \A c \in Comments : applied[c] <= 1

\* Labels that nobody touched since a route was accepted pass the guard before
\* the push, whoever was ready to review then and is now.
GuardAgrees == \A j \in Jobs : GuardAgreesOn(issue[j].open, issue[j].labels)

\* Unless a worker takes a job back and forth for ever, or an issue is closed for
\* good, every command is applied and recorded in the end, though webhooks are
\* lost, dead processes leave locks behind and other threads hold them.
Settled(j) ==
  /\ <>[](job[j].state = RUNNING) \/ <>[](job[j].state # RUNNING)
  /\ <>[]issue[j].open
CommandsRecorded ==
  (\A j \in Jobs : Settled(j)) =>
    \A c \in Comments : c \in inbox ~> c \in recorded /\ applied[c] > 0
=============================================================================
