-------------------------- MODULE ControlTheorems --------------------------
(***************************************************************************)
(* Proofs about ControlInbox.  The lock of a comment is live as long as    *)
(* its holder is, so one thread at a time is between the recheck and the   *)
(* record of a command; the recheck is therefore still true when the       *)
(* command reaches the store.                                              *)
(***************************************************************************)
EXTENDS ControlInbox, StoreTheorems

RoutingFacts == INSTANCE RoutingTheorems

\* Steps after which the command may have reached the store.
Sent == {"labels", "revalidate", "refuse", "accept", "reroute", "enqueue", "record"}
InLock(t) == caller[t].pc \in Sent \cup {"recheck", "request", "release"}

RouteDecision ==
  [eligible : BOOLEAN, provider : Providers \cup {None}, review : BOOLEAN,
   reviewer : Providers \cup {None}]

Places == Sent \cup {"idle", "check", "acquire", "recheck", "request", "release"}
CallerRecord ==
  [pc : Places,
   list : SUBSET Comments, comment : Comments \cup {None}, raised : BOOLEAN,
   row : JobState \cup {Absent}, route : RouteDecision]

CallersOK ==
  /\ caller \in [Threads -> CallerRecord]
  /\ \A t \in Threads : caller[t].pc # "idle" => caller[t].comment \in Comments

LedgerOK ==
  /\ inbox \subseteq Comments
  /\ applied \in [Comments -> Nat]
  /\ issue \in [Jobs -> [open : BOOLEAN, labels : SUBSET RoutingLabels]]

LocksOK ==
  locks \subseteq [name : {"control"} \X Comments, owner : Owners, live : BOOLEAN]

\* The row of the lock that a thread holds.
RowOf(t) == [name |-> ControlLock(t), owner |-> ProcessOf[t], live |-> TRUE]

Holding == \A t \in Threads : InLock(t) => ProcessOf[t] \in up /\ RowOf(t) \in locks
Exclusive ==
  \A t, u \in Threads :
    InLock(t) /\ InLock(u) /\ caller[t].comment = caller[u].comment => t = u

\* What the recheck found is still true at the request.
StillNew == \A t \in Threads : Calls(t, "request") => caller[t].comment \notin recorded

\* An application of a command was recorded, was cut off, or is still going on.
GoingOn(t) == caller[t].pc \in Sent \/ (Calls(t, "release") /\ caller[t].raised)
Accounted ==
  \A c \in Comments : applied[c] > 0 =>
    \/ c \in recorded \cup cut
    \/ \E t \in Threads : caller[t].comment = c /\ GoingOn(t)

InboxInv ==
  /\ StoreTypeOK /\ CallersOK /\ LedgerOK /\ LocksOK
  /\ Holding /\ Exclusive
  /\ StillNew /\ Accounted /\ AppliedTwiceOnlyIfCut
-----------------------------------------------------------------------------
(* Threads: who moves, and what they remember. *)

LEMMA RouteType ==
  ASSUME NEW open, NEW labels, NEW available \in SUBSET Providers
  PROVE  route(open, labels, available) \in RouteDecision
<1>1. CASE ~(MayRun(open, labels) /\ Selects(labels, available))
  BY <1>1 DEF route, Ineligible, RouteDecision
<1>2. CASE MayRun(open, labels) /\ Selects(labels, available)
  <2>1. OneOf(Implementers(labels)) \in Providers
    BY <1>2 DEF Selects, Single, OneOf, Implementers
  <2>2. Reviewers(labels) # {} => OneOf(Reviewers(labels)) \in Providers
    BY DEF OneOf, Reviewers
  <2>3. ChooseReviewer(OneOf(Implementers(labels)), available) \in Providers \cup {None}
    BY <2>1 DEF ChooseReviewer, OneOf
  <2>4. RequestedReviewer(labels, available) \in Providers \cup {None}
    BY <2>2, <2>3 DEF RequestedReviewer
  <2> QED
    BY <1>2, <2>1, <2>4 DEF route, RouteDecision
<1> QED
  BY <1>1, <1>2

LEMMA WaitingType == Waiting \in CallerRecord /\ Waiting.pc = "idle"
  BY DEF Waiting, CallerRecord, Places, Ineligible, RouteDecision

LEMMA CheckingType ==
  ASSUME NEW c \in Comments, NEW rest \in SUBSET Comments
  PROVE  /\ Checking(c, rest) \in CallerRecord
         /\ Checking(c, rest).pc = "check" /\ Checking(c, rest).comment = c
  BY WaitingType DEF Checking, CallerRecord, Places, Waiting

\* Only t moves.
Moves(t, r) == caller' = [caller EXCEPT ![t] = r]

LEMMA MoveFacts ==
  ASSUME CallersOK, NEW t \in Threads, NEW r \in CallerRecord, Moves(t, r),
         r.pc # "idle" => r.comment \in Comments
  PROVE  CallersOK' /\ caller'[t] = r /\ \A u \in Threads : u # t => caller'[u] = caller[u]
  BY DEF CallersOK, Moves

\* What the three ways to go on have in common.
Others(t) == \A u \in Threads : u # t => caller'[u] = caller[u]
At(t, pc) == caller'[t].pc = pc /\ caller'[t].comment = caller[t].comment

LEMMA GotoFacts ==
  ASSUME CallersOK, NEW t \in Threads, caller[t].pc # "idle", NEW pc \in Places \ {"idle"},
         Goto(t, pc)
  PROVE  CallersOK' /\ Others(t) /\ At(t, pc)
<1> DEFINE r == [caller[t] EXCEPT !.pc = pc, !.row = Absent, !.route = Ineligible]
<1>1. r \in CallerRecord /\ r.pc = pc /\ r.comment = caller[t].comment
  BY DEF CallersOK, CallerRecord, Ineligible, RouteDecision
<1>2. Moves(t, r)
  BY DEF Goto, Moves, CallersOK, CallerRecord
<1>3. r.comment \in Comments
  BY <1>1 DEF CallersOK
<1> HIDE DEF r
<1> QED
  BY <1>1, <1>2, <1>3, MoveFacts DEF Others, At

LEMMA ThrowsFacts ==
  ASSUME CallersOK, NEW t \in Threads, caller[t].pc # "idle", Throws(t)
  PROVE  CallersOK' /\ Others(t) /\ At(t, "release") /\ caller'[t].raised
<1> DEFINE r == [caller[t] EXCEPT !.pc = "release", !.raised = TRUE]
<1>1. r \in CallerRecord /\ r.pc = "release" /\ r.comment = caller[t].comment /\ r.raised
  BY DEF CallersOK, CallerRecord, Places
<1>2. Moves(t, r)
  BY DEF Throws, Moves, CallersOK, CallerRecord
<1>3. r.comment \in Comments
  BY <1>1 DEF CallersOK
<1> HIDE DEF r
<1> QED
  BY <1>1, <1>2, <1>3, MoveFacts DEF Others, At

LEMMA BeginFacts ==
  ASSUME CallersOK, NEW t \in Threads, NEW list \in SUBSET Comments, Begin(t, list)
  PROVE  CallersOK' /\ Others(t) /\ caller'[t].pc \in {"idle", "check"}
<1>1. CASE Moves(t, Waiting)
  BY <1>1, WaitingType, MoveFacts DEF Others
<1>2. ASSUME NEW c \in list, Moves(t, Checking(c, list \ {c}))
      PROVE  CallersOK' /\ Others(t) /\ caller'[t].pc \in {"idle", "check"}
  <2>1. c \in Comments /\ list \ {c} \in SUBSET Comments
    OBVIOUS
  <2> QED
    BY <1>2, <2>1, CheckingType, MoveFacts DEF Others
<1>3. Moves(t, Waiting) \/ \E c \in list : Moves(t, Checking(c, list \ {c}))
  BY DEF Begin, Moves
<1> QED
  BY <1>1, <1>2, <1>3

\* Between the store and the record.
Applies(t) ==
  SetLabels(t) \/ Revalidate(t) \/ Refuse(t) \/ Accept(t) \/ Reroute(t) \/ Enqueue(t)

LEMMA AppliesFacts ==
  ASSUME CallersOK, NEW t \in Threads, Applies(t)
  PROVE  /\ CallersOK' /\ Others(t) /\ caller[t].pc \in Sent
         /\ caller'[t].comment = caller[t].comment
         /\ GoingOn(t)'
         /\ UNCHANGED <<locks, ledger, up>>
<1> DEFINE Goal == CallersOK' /\ Others(t) /\ caller'[t].comment = caller[t].comment /\ GoingOn(t)'
<1>1. caller[t].pc \in Sent /\ caller[t].pc # "idle" /\ UNCHANGED <<locks, ledger, up>>
  BY DEF Applies, SetLabels, Revalidate, Refuse, Accept, Reroute, Enqueue, Calls, Sent, Quiet
<1>2. ASSUME NEW pc \in Sent, Goto(t, pc) PROVE Goal
  <2>1. pc \in Places \ {"idle"}
    BY DEF Sent, Places
  <2> QED
    BY <1>1, <1>2, <2>1, GotoFacts DEF At, GoingOn
<1>3. ASSUME Throws(t) PROVE Goal
  BY <1>1, <1>3, ThrowsFacts DEF At, GoingOn, Calls
<1>4. ASSUME Revalidate(t), ~Throws(t) PROVE Goal
  <2>1. PICK available \in Reviewing :
          LET d == route(issue[Its(t)].open, issue[Its(t)].labels, available) IN
          caller' = [caller EXCEPT ![t].pc = IF d.eligible THEN "accept" ELSE "refuse",
                                   ![t].route = d]
    BY <1>4 DEF Revalidate
  <2> DEFINE d == route(issue[Its(t)].open, issue[Its(t)].labels, available)
             r == [caller[t] EXCEPT !.pc = IF d.eligible THEN "accept" ELSE "refuse", !.route = d]
  <2>2. d \in RouteDecision
    BY RouteType, InboxAssumption
  <2>3. caller' = [caller EXCEPT ![t].pc = IF d.eligible THEN "accept" ELSE "refuse", ![t].route = d]
    BY <2>1
  <2> HIDE DEF d
  <2>4. r \in CallerRecord /\ r.pc \in Sent /\ r.comment = caller[t].comment
    BY <2>2 DEF CallersOK, CallerRecord, Places, Sent
  <2>5. Moves(t, r)
    BY <2>3 DEF Moves, CallersOK, CallerRecord
  <2>6. r.comment \in Comments
    BY <1>1, <2>4 DEF CallersOK
  <2> HIDE DEF r
  <2> QED
    BY <2>4, <2>5, <2>6, MoveFacts DEF Others, GoingOn
<1>5. CASE Accept(t)
  <2>1. \/ caller' = [caller EXCEPT ![t].pc = "reroute"]
        \/ Throws(t)
    BY <1>5 DEF Accept
  <2>2. CASE caller' = [caller EXCEPT ![t].pc = "reroute"]
    <3> DEFINE r == [caller[t] EXCEPT !.pc = "reroute"]
    <3>1. r \in CallerRecord /\ r.pc = "reroute" /\ r.comment = caller[t].comment
      BY <1>1 DEF CallersOK, CallerRecord, Places, Sent
    <3>2. Moves(t, r)
      BY <2>2 DEF Moves, CallersOK, CallerRecord
    <3>3. r.comment \in Comments
      BY <1>1, <3>1 DEF CallersOK
    <3> HIDE DEF r
    <3> QED
      BY <1>1, <3>1, <3>2, <3>3, MoveFacts DEF Others, GoingOn, Sent
  <2> QED
    BY <1>1, <1>3, <2>1, <2>2
<1>6. CASE SetLabels(t)
  <2>1. Throws(t) \/ \E pc \in Sent : Goto(t, pc)
    BY <1>6 DEF SetLabels, Sent
  <2> QED
    BY <1>1, <1>2, <1>3, <2>1
<1>7. CASE Refuse(t) \/ Reroute(t) \/ Enqueue(t)
  <2>1. Throws(t) \/ \E pc \in Sent : Goto(t, pc)
    BY <1>7 DEF Refuse, Reroute, Enqueue, Sent
  <2> QED
    BY <1>1, <1>2, <1>3, <2>1
<1> QED
  BY <1>1, <1>3, <1>4, <1>5, <1>6, <1>7 DEF Applies

\* Steps of a thread that holds no lock and takes none.
Outside(t) ==
  CheckDelivery(t) \/ ReconcileStarts(t) \/ \E c \in Comments : WebhookArrives(t, c)

LEMMA OutsideFacts ==
  ASSUME CallersOK, LedgerOK, NEW t \in Threads, Outside(t)
  PROVE  /\ CallersOK' /\ Others(t) /\ ~InLock(t)
         /\ caller'[t].pc \in {"idle", "check", "acquire"}
         /\ UNCHANGED <<locks, recorded, applied, cut, up>>
<1>1. ~InLock(t) /\ UNCHANGED <<locks, recorded, applied, cut, up>>
  <2> DEFINE Same == UNCHANGED <<locks, recorded, applied, cut, up>>
  <2>1. caller[t].pc \in {"idle", "check"}
    BY DEF Outside, CheckDelivery, ReconcileStarts, WebhookArrives, Calls
  <2>2. ASSUME CheckDelivery(t) PROVE Same
    BY <2>2 DEF CheckDelivery, Quiet, ledger
  <2>3. ASSUME ReconcileStarts(t) PROVE Same
    BY <2>3 DEF ReconcileStarts, ledger
  <2>4. ASSUME NEW c \in Comments, WebhookArrives(t, c)
        PROVE  Same
    BY <2>4 DEF WebhookArrives
  <2> QED
    BY <2>1, <2>2, <2>3, <2>4 DEF Outside, InLock, Sent
<1>2. CASE CheckDelivery(t)
  <2>1. caller[t].pc = "check" /\ caller[t].list \in SUBSET Comments
    BY <1>2 DEF CheckDelivery, Calls, CallersOK, CallerRecord
  <2>2. Begin(t, caller[t].list) \/ Goto(t, "acquire")
    BY <1>2 DEF CheckDelivery, GoesOn
  <2>3. "acquire" \in Places \ {"idle"}
    BY DEF Places
  <2> QED
    BY <1>1, <2>1, <2>2, <2>3, BeginFacts, GotoFacts DEF At
<1>3. CASE ReconcileStarts(t)
  BY <1>1, <1>3, BeginFacts DEF ReconcileStarts, LedgerOK
<1>4. ASSUME NEW c \in Comments, WebhookArrives(t, c)
      PROVE  CallersOK' /\ Others(t) /\ caller'[t].pc \in {"idle", "check", "acquire"}
  <2>1. Moves(t, Checking(c, {}))
    BY <1>4 DEF WebhookArrives, Moves
  <2> QED
    BY <2>1, CheckingType, MoveFacts DEF Others
<1> QED
  BY <1>1, <1>2, <1>3, <1>4 DEF Outside

LEMMA AcquireFacts ==
  ASSUME CallersOK, NEW t \in Threads, AcquireControl(t)
  PROVE  /\ CallersOK' /\ Others(t) /\ ~InLock(t)
         /\ UNCHANGED <<recorded, applied, cut, up>>
         /\ Unexpired \subseteq locks'
         /\ \/ caller'[t].pc \in {"idle", "check"}
            \/ /\ At(t, "recheck") /\ ~Held(ControlLock(t))
               /\ locks' = Unexpired \cup {RowOf(t)}
<1>1. caller[t].pc = "acquire" /\ caller[t].list \in SUBSET Comments /\ "recheck" \in Places \ {"idle"}
  BY DEF AcquireControl, Calls, CallersOK, CallerRecord, Places
<1>2. UNCHANGED <<recorded, applied, cut, up>> /\ ~InLock(t)
  BY <1>1 DEF AcquireControl, ledger, InLock, Sent
<1>3. CASE AcquireOperationLock(ControlLock(t), ProcessOf[t]) /\ Goto(t, "recheck")
  <2>1. ~Held(ControlLock(t)) /\ locks' = Unexpired \cup {RowOf(t)}
    BY <1>3 DEF AcquireOperationLock, RowOf
  <2> QED
    BY <1>1, <1>2, <1>3, <2>1, GotoFacts
<1>4. CASE OperationLockRefused(ControlLock(t)) /\ GoesOn(t)
  BY <1>1, <1>2, <1>4, BeginFacts DEF OperationLockRefused, GoesOn
<1> QED
  BY <1>3, <1>4 DEF AcquireControl

LEMMA RecheckFacts ==
  ASSUME CallersOK, NEW t \in Threads, Recheck(t)
  PROVE  /\ CallersOK' /\ Others(t) /\ InLock(t) /\ ~GoingOn(t)
         /\ UNCHANGED <<locks, recorded, applied, cut, up>>
         /\ \/ At(t, "release")
            \/ At(t, "request") /\ caller[t].comment \notin recorded
<1>1. caller[t].pc = "recheck" /\ "release" \in Places \ {"idle"} /\ "request" \in Places \ {"idle"}
  BY DEF Recheck, Calls, Places
<1>2. /\ UNCHANGED <<locks, recorded, applied, cut, up>>
      /\ InLock(t) /\ ~GoingOn(t)
  BY <1>1 DEF Recheck, Quiet, ledger, InLock, GoingOn, Sent, Calls
<1>3. \/ Goto(t, "release")
      \/ Goto(t, "request") /\ caller[t].comment \notin recorded
  BY DEF Recheck
<1> QED
  BY <1>1, <1>2, <1>3, GotoFacts

LEMMA RecordFacts ==
  ASSUME CallersOK, NEW t \in Threads, Record(t)
  PROVE  /\ CallersOK' /\ Others(t) /\ InLock(t) /\ At(t, "release")
         /\ recorded' = recorded \cup {caller[t].comment}
         /\ UNCHANGED <<locks, applied, cut, up>>
<1>1. caller[t].pc = "record" /\ "release" \in Places \ {"idle"}
  BY DEF Record, Calls, Places
<1> QED
  BY <1>1, GotoFacts DEF Record, InLock, Sent

LEMMA ReleaseFacts ==
  ASSUME CallersOK, NEW t \in Threads, Release(t)
  PROVE  /\ CallersOK' /\ Others(t) /\ InLock(t)
         /\ caller'[t].pc \in {"idle", "check"}
         /\ ReleaseOperationLock(ControlLock(t), ProcessOf[t])
         /\ UNCHANGED <<recorded, applied, up>>
         /\ cut \subseteq cut'
         /\ GoingOn(t) => caller[t].comment \in cut'
<1>1. caller[t].pc = "release" /\ caller[t].list \in SUBSET Comments
  BY DEF Release, Calls, CallersOK, CallerRecord
<1>2. /\ InLock(t)
      /\ ReleaseOperationLock(ControlLock(t), ProcessOf[t])
      /\ UNCHANGED <<recorded, applied, up>>
  BY <1>1 DEF Release, InLock
<1>3. CASE caller[t].raised
  <2>1. Moves(t, Waiting) /\ cut' = cut \cup {caller[t].comment}
    BY <1>3 DEF Release, Moves
  <2> QED
    BY <1>2, <2>1, WaitingType, MoveFacts DEF Others
<1>4. CASE ~caller[t].raised
  <2>1. Begin(t, caller[t].list) /\ cut' = cut
    BY <1>4 DEF Release, GoesOn
  <2>2. ~GoingOn(t)
    BY <1>1, <1>4 DEF GoingOn, Sent
  <2> QED
    BY <1>1, <1>2, <2>1, <2>2, BeginFacts
<1> QED
  BY <1>3, <1>4

LEMMA RequestFacts ==
  ASSUME CallersOK, LedgerOK, StoreTypeOK', NEW t \in Threads, Request(t)
  PROVE  /\ CallersOK' /\ Others(t) /\ caller[t].pc = "request" /\ At(t, "labels")
         /\ UNCHANGED <<locks, recorded, cut, up>>
         /\ applied' \in [Comments -> Nat]
         /\ \A c \in Comments : c # caller[t].comment => applied'[c] = applied[c]
         /\ applied'[caller[t].comment] > 1 => applied[caller[t].comment] > 0
<1> DEFINE c == caller[t].comment
           r == [caller[t] EXCEPT !.pc = "labels", !.row = job'[Its(t)].state]
<1>1. caller[t].pc = "request" /\ c \in Comments /\ Its(t) \in Jobs
  BY InboxAssumption DEF Request, Calls, CallersOK, Its
<1>2. job'[Its(t)].state \in JobState \cup {Absent}
  BY <1>1 DEF StoreTypeOK, JobRow
<1>3. r \in CallerRecord /\ r.pc = "labels" /\ r.comment = c
  BY <1>2 DEF CallersOK, CallerRecord, Places, Sent
<1>4. Moves(t, r)
  BY DEF Request, Moves, CallersOK, CallerRecord
<1>5. /\ applied[c] \in Nat
      /\ \/ applied' = [applied EXCEPT ![c] = applied[c] + 1]
         \/ applied' = applied
  BY <1>1 DEF Request, LedgerOK
<1>6. /\ applied' \in [Comments -> Nat]
      /\ \A d \in Comments : d # c => applied'[d] = applied[d]
      /\ applied'[c] > 1 => applied[c] > 0
  BY <1>1, <1>5 DEF LedgerOK
<1>7. UNCHANGED <<locks, recorded, cut, up>>
  BY DEF Request
<1>8. CallersOK' /\ Others(t) /\ At(t, "labels")
  <2> HIDE DEF r
  <2> QED
    BY <1>1, <1>3, <1>4, MoveFacts DEF Others, At
<1> QED
  BY <1>1, <1>6, <1>7, <1>8

\* What humans, workers and clocks do.
Around ==
  \/ \E c \in Comments : Comment(c)
  \/ \E j \in Jobs : OpenOrClose(j) \/ JobRuns(j)
  \/ Expire

\* What a thread does while it holds a lock, or to take one.
Locked(t) ==
  AcquireControl(t) \/ Recheck(t) \/ Request(t) \/ Applies(t) \/ Record(t) \/ Release(t)

LEMMA StepCases ==
  ASSUME InboxNext
  PROVE  \/ \E t \in Threads : Alive(t) /\ (Outside(t) \/ Locked(t))
         \/ \E o \in Owners : Crash(o)
         \/ Around
  BY DEF InboxNext, Control, Outside, Locked, Applies, Around

LEMMA AroundFacts ==
  ASSUME Around
  PROVE  /\ UNCHANGED <<caller, recorded, applied, cut, up>>
         /\ \A l \in locks : l.owner \in up => l \in locks'
<1>1. ASSUME NEW c \in Comments, Comment(c)
      PROVE  UNCHANGED <<caller, recorded, applied, cut, up, locks>>
  BY <1>1 DEF Comment
<1>2. ASSUME NEW j \in Jobs, OpenOrClose(j) \/ JobRuns(j)
      PROVE  UNCHANGED <<caller, recorded, applied, cut, up, locks>>
  BY <1>2 DEF OpenOrClose, JobRuns, ledger
<1>3. ASSUME Expire
      PROVE  /\ UNCHANGED <<caller, recorded, applied, cut, up>>
             /\ \A l \in locks : l.owner \in up => l \in locks'
  BY <1>3 DEF Expire, LockExpires, ledger
<1> QED
  BY <1>1, <1>2, <1>3 DEF Around

LEMMA CrashFacts ==
  ASSUME CallersOK, NEW o \in Owners, Crash(o)
  PROVE  /\ CallersOK'
         /\ UNCHANGED <<locks, recorded, applied>>
         /\ up' = up \ {o} /\ cut \subseteq cut'
         /\ \A t \in Threads :
              \/ ProcessOf[t] # o /\ caller'[t] = caller[t]
              \/ /\ caller'[t].pc = "idle"
                 /\ GoingOn(t) => caller[t].comment \in cut'
<1>1. CallersOK'
  BY WaitingType DEF Crash, CallersOK
<1>2. /\ UNCHANGED <<locks, recorded, applied>>
      /\ up' = up \ {o} /\ cut \subseteq cut'
  BY DEF Crash
<1>3. ASSUME NEW t \in Threads
      PROVE  \/ ProcessOf[t] # o /\ caller'[t] = caller[t]
             \/ /\ caller'[t].pc = "idle"
                /\ GoingOn(t) => caller[t].comment \in cut'
  <2>1. CASE ProcessOf[t] # o
    BY <2>1 DEF Crash
  <2>2. CASE ProcessOf[t] = o
    <3>1. caller'[t].pc = "idle"
      BY <2>2, WaitingType DEF Crash
    <3>2. GoingOn(t) => Applying(t)
      BY DEF GoingOn, Applying, Sent, Calls
    <3>3. Applying(t) => caller[t].comment \in cut'
      BY <2>2 DEF Crash
    <3> QED
      BY <3>1, <3>2, <3>3
  <2> QED
    BY <2>1, <2>2
<1> QED
  BY <1>1, <1>2, <1>3

-----------------------------------------------------------------------------
(* The store. *)

\* Commands, intake and workers call the store as its specification lets them.
LEMMA StoreStep ==
  ASSUME CallersOK, [InboxNext]_inboxVars
  PROVE  [StoreNext]_storeVars
<1> USE InboxAssumption
<1>1. ASSUME NEW j \in Jobs, OperatorCall(j) \/ WorkerCall(j) PROVE StoreNext
  BY <1>1 DEF StoreNext
<1>2. ASSUME NEW t \in Threads, caller[t].pc # "idle"
      PROVE  caller[t].comment \in Comments /\ Its(t) \in Jobs
  BY <1>2 DEF CallersOK, Its
<1>3. ASSUME NEW t \in Threads, Outside(t) PROVE UNCHANGED storeVars
  BY <1>3 DEF Outside, CheckDelivery, ReconcileStarts, WebhookArrives, Quiet
<1>4. ASSUME NEW t \in Threads, Applies(t) PROVE [StoreNext]_storeVars
  <2> DEFINE j == Its(t)
  <2>1. j \in Jobs
    BY <1>2, <1>4, AppliesFacts DEF Sent
  <2> HIDE DEF j
  <2>2. CASE SetLabels(t) \/ Revalidate(t)
    BY <2>2 DEF SetLabels, Revalidate, Quiet
  <2>3. CASE Refuse(t)
    <3>1. UNCHANGED storeVars \/ Transition(j, NEEDS_GUIDANCE, TRUE)
      BY <2>3 DEF Refuse, j
    <3>2. <<NEEDS_GUIDANCE, TRUE>> \in TransitionCalls
      BY DEF TransitionCalls
    <3>3. Transition(j, NEEDS_GUIDANCE, TRUE) => WorkerCall(j)
      BY <3>2 DEF WorkerCall
    <3> QED
      BY <1>1, <2>1, <3>1, <3>3
  <2>4. CASE Accept(t)
    <3>1. UNCHANGED storeVars \/ \E c \in Contents : AcceptSnapshot(j, c)
      BY <2>4 DEF Accept, j
    <3> QED
      BY <1>1, <2>1, <3>1 DEF OperatorCall
  <2>5. CASE Reroute(t)
    <3>1. \E r \in Routes : RecordRouting(j, r)
      BY <2>5 DEF Reroute, RouteOf, j
    <3> QED
      BY <1>1, <2>1, <3>1 DEF OperatorCall
  <2>6. CASE Enqueue(t)
    <3>1. UNCHANGED storeVars \/ \E r \in Routes, c \in Contents : EnsureJob(j, r, c)
      BY <2>6 DEF Enqueue, RouteOf, j
    <3> QED
      BY <1>1, <2>1, <3>1 DEF OperatorCall
  <2> QED
    BY <1>4, <2>2, <2>3, <2>4, <2>5, <2>6 DEF Applies
<1>5. ASSUME NEW t \in Threads, Locked(t) PROVE [StoreNext]_storeVars
  <2>1. CASE Request(t)
    <3>1. Its(t) \in Jobs /\ CommandOf[caller[t].comment] \in Commands
      BY <1>2, <2>1 DEF Request, Calls
    <3>2. UNCHANGED storeVars \/ RequestControl(Its(t), CommandOf[caller[t].comment])
      BY <2>1 DEF Request
    <3> QED
      BY <1>1, <3>1, <3>2 DEF OperatorCall
  <2>2. CASE AcquireControl(t) \/ Recheck(t) \/ Record(t) \/ Release(t)
    BY <2>2 DEF AcquireControl, Recheck, Record, Release, Quiet
  <2> QED
    BY <1>4, <1>5, <2>1, <2>2 DEF Locked
<1>6. CASE Around
  <2>1. ASSUME NEW j \in Jobs, JobRuns(j) PROVE StoreNext
    <3>1. CASE ClaimNext(j, CHOOSE o \in Owners : TRUE)
      BY <1>1, <3>1 DEF WorkerCall
    <3>2. ASSUME NEW s \in Outcomes, Transition(j, s, TRUE) PROVE StoreNext
      <4>1. <<s, TRUE>> \in TransitionCalls
        OBVIOUS
      <4>2. WorkerCall(j)
        BY <3>2, <4>1 DEF WorkerCall
      <4> QED
        BY <1>1, <4>2
    <3> QED
      BY <2>1, <3>1, <3>2 DEF JobRuns
  <2>2. ASSUME NEW j \in Jobs, OpenOrClose(j) PROVE UNCHANGED storeVars
    BY <2>2 DEF OpenOrClose
  <2> QED
    BY <1>6, <2>1, <2>2 DEF Around, Comment, Expire
<1>7. ASSUME NEW o \in Owners, Crash(o) PROVE UNCHANGED storeVars
  BY <1>7 DEF Crash
<1>8. CASE UNCHANGED inboxVars
  BY <1>8 DEF inboxVars
<1> QED
  BY <1>3, <1>5, <1>6, <1>7, <1>8, StepCases

-----------------------------------------------------------------------------
(* Types. *)

LEMMA InitHolds == InboxInit => StoreInit /\ InboxInv
<1> SUFFICES ASSUME InboxInit PROVE StoreInit /\ InboxInv
  OBVIOUS
<1>1. StoreInit
  BY DEF InboxInit, StoreInit
<1>2. CallersOK /\ \A t \in Threads : caller[t].pc = "idle"
  BY WaitingType DEF InboxInit, CallersOK
<1>3. LedgerOK /\ LocksOK
  BY InboxAssumption DEF InboxInit, LedgerOK, LocksOK
<1>4. Holding /\ Exclusive /\ StillNew
  BY <1>2 DEF Holding, Exclusive, StillNew, InLock, Sent, Calls
<1>5. Accounted /\ AppliedTwiceOnlyIfCut
  BY DEF InboxInit, Accounted, AppliedTwiceOnlyIfCut
<1> QED
  BY <1>1, <1>2, <1>3, <1>4, <1>5, StoreTypeInit DEF InboxInv

LEMMA CallersStep ==
  ASSUME CallersOK, LedgerOK, StoreTypeOK', [InboxNext]_inboxVars
  PROVE  CallersOK'
<1>1. ASSUME NEW t \in Threads, Locked(t) PROVE CallersOK'
  BY <1>1, AcquireFacts, RecheckFacts, RequestFacts, AppliesFacts, RecordFacts, ReleaseFacts
     DEF Locked
<1>2. CASE Around
  BY <1>2, AroundFacts DEF CallersOK
<1>3. CASE UNCHANGED inboxVars
  BY <1>3 DEF inboxVars, CallersOK
<1> QED
  BY <1>1, <1>2, <1>3, StepCases, OutsideFacts, CrashFacts

\* The labels a command leaves are routing labels.
LEMMA LabelledType ==
  ASSUME NEW labels \in SUBSET RoutingLabels, NEW cmd
  PROVE  Labelled(labels, cmd) \in SUBSET RoutingLabels
<1>1. Agent("paused") \in RoutingLabels /\ Agent("ready") \in RoutingLabels
  BY DEF RoutingLabels
<1> QED
  BY <1>1 DEF Labelled

LEMMA LedgerStep ==
  ASSUME CallersOK, LedgerOK, StoreTypeOK', [InboxNext]_inboxVars
  PROVE  LedgerOK'
<1> USE InboxAssumption
<1> DEFINE Issues == [Jobs -> [open : BOOLEAN, labels : SUBSET RoutingLabels]]
<1>1. ASSUME inbox' = inbox \/ \E c \in Comments : inbox' = inbox \cup {c},
             applied' = applied \/ applied' \in [Comments -> Nat],
             issue' = issue \/ issue' \in Issues
      PROVE  LedgerOK'
  BY <1>1 DEF LedgerOK
<1> HIDE DEF Issues
<1>2. ASSUME NEW t \in Threads, SetLabels(t) PROVE LedgerOK'
  <2> DEFINE j == Its(t) labels == Labelled(issue[j].labels, CommandOf[caller[t].comment])
  <2>1. j \in Jobs
    BY <1>2 DEF SetLabels, Calls, CallersOK, Its
  <2>2. labels \in SUBSET RoutingLabels
    BY <2>1, LabelledType DEF LedgerOK
  <2>3. issue' = issue \/ issue' = [issue EXCEPT ![j].labels = labels]
    BY <1>2 DEF SetLabels
  <2> HIDE DEF labels, j
  <2>4. issue' = issue \/ issue' \in Issues
    BY <2>1, <2>2, <2>3 DEF LedgerOK, Issues
  <2> QED
    BY <1>1, <1>2, <2>4 DEF SetLabels, ledger
<1>3. ASSUME NEW t \in Threads, Request(t) PROVE LedgerOK'
  <2>1. UNCHANGED <<inbox, issue>>
    BY <1>3 DEF Request
  <2>2. applied' \in [Comments -> Nat]
    BY <1>3, RequestFacts
  <2> QED
    BY <1>1, <2>1, <2>2
<1>4. ASSUME NEW t \in Threads,
             Revalidate(t) \/ Refuse(t) \/ Accept(t) \/ Reroute(t) \/ Enqueue(t)
      PROVE  LedgerOK'
  BY <1>1, <1>4 DEF Revalidate, Refuse, Accept, Reroute, Enqueue, Quiet, ledger
<1>5. ASSUME NEW t \in Threads, AcquireControl(t) \/ Recheck(t) \/ Record(t) \/ Release(t)
      PROVE  LedgerOK'
  BY <1>1, <1>5 DEF AcquireControl, Recheck, Record, Release, Quiet, ledger
<1>6. ASSUME NEW t \in Threads, Outside(t) PROVE LedgerOK'
  BY <1>1, <1>6 DEF Outside, CheckDelivery, ReconcileStarts, WebhookArrives, Quiet, ledger
<1>7. ASSUME NEW o \in Owners, Crash(o) PROVE LedgerOK'
  BY <1>1, <1>7 DEF Crash
<1>8. CASE Around
  <2>1. ASSUME NEW j \in Jobs, OpenOrClose(j) PROVE LedgerOK'
    <3> DEFINE b == ~issue[j].open
    <3>1. issue' = [issue EXCEPT ![j].open = b] /\ b \in BOOLEAN
      BY <2>1 DEF OpenOrClose
    <3> HIDE DEF b
    <3>2. issue' \in Issues
      BY <3>1 DEF LedgerOK, Issues
    <3> QED
      BY <1>1, <2>1, <3>2 DEF OpenOrClose, ledger
  <2>2. ASSUME NEW j \in Jobs, JobRuns(j) PROVE LedgerOK'
    BY <1>1, <2>2 DEF JobRuns, ledger
  <2>3. CASE Expire \/ \E c \in Comments : Comment(c)
    BY <1>1, <2>3 DEF Expire, Comment, ledger
  <2> QED
    BY <1>8, <2>1, <2>2, <2>3 DEF Around
<1>9. CASE UNCHANGED inboxVars
  BY <1>1, <1>9 DEF inboxVars
<1> QED
  BY <1>2, <1>3, <1>4, <1>5, <1>6, <1>7, <1>8, <1>9, StepCases DEF Locked, Applies

LEMMA LocksStep ==
  ASSUME CallersOK, LedgerOK, LocksOK, StoreTypeOK', [InboxNext]_inboxVars
  PROVE  LocksOK'
<1> DEFINE Rows == [name : {"control"} \X Comments, owner : Owners, live : BOOLEAN]
<1>1. ASSUME locks' \subseteq Rows PROVE LocksOK'
  BY <1>1 DEF LocksOK
<1>2. locks \subseteq Rows
  BY DEF LocksOK
<1>3. ASSUME NEW t \in Threads, AcquireControl(t) PROVE LocksOK'
  <2>1. Unexpired \subseteq Rows
    BY <1>2 DEF Unexpired
  <2>2. caller[t].comment \in Comments /\ ProcessOf[t] \in Owners
    BY <1>3, InboxAssumption DEF AcquireControl, Calls, CallersOK
  <2>3. RowOf(t) \in Rows
    BY <2>2 DEF RowOf, ControlLock
  <2>4. locks' \subseteq Unexpired \cup {RowOf(t)}
    BY <1>3 DEF AcquireControl, AcquireOperationLock, OperationLockRefused, RowOf
  <2> QED
    BY <1>1, <2>1, <2>3, <2>4
<1>4. ASSUME NEW t \in Threads, Release(t) PROVE LocksOK'
  BY <1>1, <1>2, <1>4 DEF Release, ReleaseOperationLock
<1>5. ASSUME NEW t \in Threads, Outside(t) \/ Recheck(t) \/ Request(t) \/ Applies(t) \/ Record(t)
      PROVE  LocksOK'
  BY <1>1, <1>2, <1>5, OutsideFacts, RecheckFacts, RequestFacts, AppliesFacts, RecordFacts
<1>6. CASE Around
  <2>1. ASSUME NEW l \in locks, LockExpires(l) PROVE locks' \subseteq Rows
    <3>1. [l EXCEPT !.live = FALSE] \in Rows
      BY <1>2
    <3> QED
      BY <1>2, <2>1, <3>1 DEF LockExpires
  <2>2. CASE Expire
    BY <1>1, <2>1, <2>2 DEF Expire
  <2>3. ASSUME NEW j \in Jobs, OpenOrClose(j) \/ JobRuns(j) PROVE LocksOK'
    BY <1>1, <1>2, <2>3 DEF OpenOrClose, JobRuns
  <2>4. ASSUME NEW c \in Comments, Comment(c) PROVE LocksOK'
    BY <1>1, <1>2, <2>4 DEF Comment
  <2> QED
    BY <1>6, <2>2, <2>3, <2>4 DEF Around
<1>7. ASSUME NEW o \in Owners, Crash(o) PROVE LocksOK'
  BY <1>1, <1>2, <1>7, CrashFacts
<1>8. CASE UNCHANGED inboxVars
  BY <1>1, <1>2, <1>8 DEF inboxVars
<1> QED
  BY <1>3, <1>4, <1>5, <1>6, <1>7, <1>8, StepCases DEF Locked

-----------------------------------------------------------------------------
(* Locks. *)

\* A thread that is still, or keeps its comment, keeps its lock too if its row
\* stays; nobody else comes in.
LEMMA KeepsLocks ==
  ASSUME Holding, Exclusive,
         \A u \in Threads : InLock(u)' => /\ InLock(u) /\ caller'[u].comment = caller[u].comment
                                         /\ ProcessOf[u] \in up' /\ RowOf(u) \in locks'
  PROVE  Holding' /\ Exclusive'
<1>1. \A u \in Threads : InLock(u)' => RowOf(u)' = RowOf(u)
  BY DEF RowOf, ControlLock
<1>2. Holding'
  BY <1>1 DEF Holding
<1>3. Exclusive'
  BY DEF Exclusive
<1> QED
  BY <1>2, <1>3

\* A command is in the hands of at most one thread, whose lock is live.
LEMMA LockStep ==
  ASSUME CallersOK, LedgerOK, StoreTypeOK', Holding, Exclusive, [InboxNext]_inboxVars
  PROVE  Holding' /\ Exclusive'
<1>1. ASSUME NEW t \in Threads, Outside(t) PROVE Holding' /\ Exclusive'
  <2>1. ~InLock(t)'
    BY <1>1, OutsideFacts DEF InLock, Sent
  <2>2. UNCHANGED <<locks, up>> /\ Others(t)
    BY <1>1, OutsideFacts
  <2> QED
    BY <2>1, <2>2, KeepsLocks DEF Others, InLock, Holding
<1>2. ASSUME NEW t \in Threads, Recheck(t) \/ Request(t) \/ Applies(t) \/ Record(t)
      PROVE  Holding' /\ Exclusive'
  <2>1. InLock(t) /\ caller'[t].comment = caller[t].comment
    BY <1>2, RecheckFacts, RequestFacts, AppliesFacts, RecordFacts DEF InLock, At
  <2>2. UNCHANGED <<locks, up>> /\ Others(t)
    BY <1>2, RecheckFacts, RequestFacts, AppliesFacts, RecordFacts
  <2> QED
    BY <2>1, <2>2, KeepsLocks DEF Others, InLock, Holding
<1>3. ASSUME NEW t \in Threads, Alive(t), AcquireControl(t) PROVE Holding' /\ Exclusive'
  <2>1. /\ Others(t) /\ UNCHANGED up /\ ~InLock(t)
        /\ Unexpired \subseteq locks'
    BY <1>3, AcquireFacts
  <2>2. \A u \in Threads : InLock(u) => RowOf(u) \in Unexpired
    BY DEF Holding, Unexpired, RowOf
  <2>3. CASE caller'[t].pc \in {"idle", "check"}
    <3>1. ~InLock(t)'
      BY <2>3 DEF InLock, Sent
    <3> QED
      BY <2>1, <2>2, <3>1, KeepsLocks DEF Others, InLock, Holding
  <2>4. CASE At(t, "recheck") /\ ~Held(ControlLock(t)) /\ locks' = Unexpired \cup {RowOf(t)}
    <3>1. \A u \in Threads : InLock(u) => caller[u].comment # caller[t].comment
      BY <2>4 DEF Holding, Held, RowOf, ControlLock
    <3>2. \A u \in Threads : InLock(u)' => u = t \/ InLock(u)
      BY <2>1 DEF Others, InLock
    <3>3. \A u \in Threads : caller'[u].comment = caller[u].comment
      BY <2>1, <2>4 DEF Others, At
    <3>4. \A u \in Threads : RowOf(u)' = RowOf(u)
      BY <3>3 DEF RowOf, ControlLock
    <3>5. Holding'
      BY <1>3, <2>1, <2>2, <2>4, <3>2, <3>4 DEF Holding, Alive
    <3>6. Exclusive'
      BY <3>1, <3>2, <3>3 DEF Exclusive
    <3> QED
      BY <3>5, <3>6
  <2> QED
    BY <1>3, <2>3, <2>4, AcquireFacts
<1>4. ASSUME NEW t \in Threads, Release(t) PROVE Holding' /\ Exclusive'
  <2>1. /\ Others(t) /\ UNCHANGED up /\ InLock(t)
        /\ ReleaseOperationLock(ControlLock(t), ProcessOf[t])
    BY <1>4, ReleaseFacts
  <2>2. ~InLock(t)'
    BY <1>4, ReleaseFacts DEF InLock, Sent
  <2>3. ASSUME NEW u \in Threads, u # t, InLock(u) PROVE RowOf(u) \in locks'
    <3>1. RowOf(u) \in locks /\ caller[u].comment # caller[t].comment
      BY <2>1, <2>3 DEF Holding, Exclusive
    <3>2. RowOf(u).name # ControlLock(t)
      BY <3>1 DEF RowOf, ControlLock
    <3> QED
      BY <2>1, <3>1, <3>2 DEF ReleaseOperationLock
  <2> QED
    BY <2>1, <2>2, <2>3, KeepsLocks DEF Others, InLock, Holding
<1>5. CASE Around
  <2>1. UNCHANGED <<caller, up>> /\ \A l \in locks : l.owner \in up => l \in locks'
    BY <1>5, AroundFacts
  <2>2. \A u \in Threads : InLock(u) => RowOf(u) \in locks'
    BY <2>1 DEF Holding, RowOf
  <2> QED
    BY <2>1, <2>2, KeepsLocks DEF InLock, Holding
<1>6. ASSUME NEW o \in Owners, Crash(o) PROVE Holding' /\ Exclusive'
  <2>1. UNCHANGED locks /\ up' = up \ {o}
    BY <1>6, CrashFacts
  <2>2. \A u \in Threads : InLock(u)' => ProcessOf[u] # o /\ caller'[u] = caller[u]
    BY <1>6, CrashFacts DEF InLock, Sent
  <2> QED
    BY <2>1, <2>2, KeepsLocks DEF InLock, Holding
<1>7. CASE UNCHANGED inboxVars
  BY <1>7, KeepsLocks DEF inboxVars, InLock, Holding
<1> QED
  BY <1>1, <1>2, <1>3, <1>4, <1>5, <1>6, <1>7, StepCases DEF Locked

-----------------------------------------------------------------------------
(* Commands. *)

\* Steps that neither send nor record a command.
LEMMA KeepsCount ==
  ASSUME StillNew, Accounted, AppliedTwiceOnlyIfCut,
         UNCHANGED <<recorded, applied>>, cut \subseteq cut',
         \A u \in Threads :
           /\ Calls(u, "request")' => /\ caller'[u].comment = caller[u].comment
                                      /\ Calls(u, "request") \/ caller[u].comment \notin recorded
           /\ GoingOn(u) => \/ GoingOn(u)' /\ caller'[u].comment = caller[u].comment
                            \/ caller[u].comment \in cut'
  PROVE  StillNew' /\ Accounted' /\ AppliedTwiceOnlyIfCut'
<1>1. StillNew'
  BY DEF StillNew
<1>2. Accounted'
  BY DEF Accounted
<1>3. AppliedTwiceOnlyIfCut'
  BY DEF AppliedTwiceOnlyIfCut
<1> QED
  BY <1>1, <1>2, <1>3

\* A command is sent by the one thread that saw, under the lock, that it was
\* not recorded.
LEMMA CountStep ==
  ASSUME CallersOK, LedgerOK, StoreTypeOK', Exclusive,
         StillNew, Accounted, AppliedTwiceOnlyIfCut, [InboxNext]_inboxVars
  PROVE  StillNew' /\ Accounted' /\ AppliedTwiceOnlyIfCut'
<1>1. ASSUME NEW t \in Threads, UNCHANGED <<recorded, applied, cut>>, Others(t), ~GoingOn(t),
             caller'[t].pc # "request"
      PROVE  StillNew' /\ Accounted' /\ AppliedTwiceOnlyIfCut'
  BY <1>1, KeepsCount DEF Others, GoingOn, Calls
<1>2. ASSUME NEW t \in Threads, Outside(t) \/ AcquireControl(t)
      PROVE  StillNew' /\ Accounted' /\ AppliedTwiceOnlyIfCut'
  <2>1. UNCHANGED <<recorded, applied, cut>> /\ Others(t) /\ ~InLock(t)
    BY <1>2, OutsideFacts, AcquireFacts
  <2>2. ~GoingOn(t)
    BY <2>1 DEF GoingOn, InLock, Calls
  <2>3. caller'[t].pc # "request"
    BY <1>2, OutsideFacts, AcquireFacts DEF At
  <2> QED
    BY <1>1, <2>1, <2>2, <2>3
<1>3. ASSUME NEW t \in Threads, Recheck(t)
      PROVE  StillNew' /\ Accounted' /\ AppliedTwiceOnlyIfCut'
  BY <1>3, RecheckFacts, KeepsCount DEF Others, GoingOn, Calls, At
<1>4. ASSUME NEW t \in Threads, Request(t)
      PROVE  StillNew' /\ Accounted' /\ AppliedTwiceOnlyIfCut'
  <2> DEFINE c == caller[t].comment
  <2>1. /\ Others(t) /\ caller[t].pc = "request" /\ At(t, "labels")
        /\ UNCHANGED <<recorded, cut>>
        /\ \A d \in Comments : d # c => applied'[d] = applied[d]
        /\ applied'[c] > 1 => applied[c] > 0
    BY <1>4, RequestFacts
  <2>2. c \in Comments /\ InLock(t) /\ ~GoingOn(t) /\ GoingOn(t)'
    BY <2>1 DEF CallersOK, InLock, GoingOn, Calls, Sent, At
  <2>3. StillNew'
    BY <2>1 DEF StillNew, Others, Calls, At
  <2>4. Accounted'
    <3>1. ASSUME NEW d \in Comments, d # c, applied'[d] > 0
          PROVE  \/ d \in recorded' \cup cut'
                 \/ \E u \in Threads : caller'[u].comment = d /\ GoingOn(u)'
      <4>1. d \in recorded \cup cut \/ \E u \in Threads : caller[u].comment = d /\ GoingOn(u)
        BY <2>1, <3>1 DEF Accounted
      <4> QED
        BY <2>1, <2>2, <4>1 DEF Others, GoingOn, Calls
    <3> QED
      BY <2>1, <2>2, <3>1 DEF Accounted, At
  <2>5. AppliedTwiceOnlyIfCut'
    <3>1. ASSUME applied[c] > 0 PROVE c \in cut
      <4>1. c \notin recorded
        BY <2>1 DEF StillNew, Calls
      <4>2. ASSUME NEW u \in Threads, caller[u].comment = c, GoingOn(u) PROVE FALSE
        <5>1. InLock(u)
          BY <4>2 DEF GoingOn, InLock, Calls
        <5> QED
          BY <2>2, <4>2, <5>1 DEF Exclusive
      <4> QED
        BY <2>2, <3>1, <4>1, <4>2 DEF Accounted
    <3> QED
      BY <2>1, <3>1 DEF AppliedTwiceOnlyIfCut
  <2> QED
    BY <2>3, <2>4, <2>5
<1>5. ASSUME NEW t \in Threads, Applies(t)
      PROVE  StillNew' /\ Accounted' /\ AppliedTwiceOnlyIfCut'
  <2>1. /\ Others(t) /\ GoingOn(t)' /\ caller'[t].comment = caller[t].comment
        /\ UNCHANGED <<recorded, applied, cut>>
    BY <1>5, AppliesFacts DEF ledger
  <2>2. caller'[t].pc # "request"
    BY <2>1 DEF GoingOn, Calls, Sent
  <2> QED
    BY <2>1, <2>2, KeepsCount DEF Others, GoingOn, Calls
<1>6. ASSUME NEW t \in Threads, Record(t)
      PROVE  StillNew' /\ Accounted' /\ AppliedTwiceOnlyIfCut'
  <2> DEFINE c == caller[t].comment
  <2>1. /\ Others(t) /\ InLock(t) /\ At(t, "release")
        /\ recorded' = recorded \cup {c} /\ UNCHANGED <<applied, cut>>
    BY <1>6, RecordFacts
  <2>2. StillNew'
    <3>1. ASSUME NEW u \in Threads, Calls(u, "request")' PROVE caller'[u].comment \notin recorded'
      <4>1. u # t /\ caller'[u] = caller[u]
        BY <2>1, <3>1 DEF Others, At, Calls
      <4>2. InLock(u) /\ Calls(u, "request")
        BY <3>1, <4>1 DEF InLock, Calls
      <4>3. caller[u].comment # c
        BY <2>1, <4>1, <4>2 DEF Exclusive
      <4> QED
        BY <2>1, <4>1, <4>2, <4>3 DEF StillNew
    <3> QED
      BY <3>1 DEF StillNew
  <2>3. Accounted'
    <3>1. ASSUME NEW d \in Comments, applied[d] > 0
          PROVE  \/ d \in recorded' \cup cut
                 \/ \E u \in Threads : caller'[u].comment = d /\ GoingOn(u)'
      <4>1. d \in recorded \cup cut \/ \E u \in Threads : caller[u].comment = d /\ GoingOn(u)
        BY <3>1 DEF Accounted
      <4> QED
        BY <2>1, <4>1 DEF Others, GoingOn, Calls
    <3> QED
      BY <2>1, <3>1 DEF Accounted
  <2>4. AppliedTwiceOnlyIfCut'
    BY <2>1 DEF AppliedTwiceOnlyIfCut
  <2> QED
    BY <2>2, <2>3, <2>4
<1>7. ASSUME NEW t \in Threads, Release(t)
      PROVE  StillNew' /\ Accounted' /\ AppliedTwiceOnlyIfCut'
  <2>1. /\ Others(t) /\ caller'[t].pc \in {"idle", "check"}
        /\ UNCHANGED <<recorded, applied>> /\ cut \subseteq cut'
        /\ GoingOn(t) => caller[t].comment \in cut'
    BY <1>7, ReleaseFacts
  <2> QED
    BY <2>1, KeepsCount DEF Others, GoingOn, Calls
<1>8. CASE Around
  BY <1>8, AroundFacts, KeepsCount DEF GoingOn, Calls
<1>9. ASSUME NEW o \in Owners, Crash(o)
      PROVE  StillNew' /\ Accounted' /\ AppliedTwiceOnlyIfCut'
  <2>1. /\ UNCHANGED <<recorded, applied>> /\ cut \subseteq cut'
        /\ \A u \in Threads :
              \/ caller'[u] = caller[u]
              \/ /\ caller'[u].pc = "idle"
                 /\ GoingOn(u) => caller[u].comment \in cut'
    BY <1>9, CrashFacts
  <2> QED
    BY <2>1, KeepsCount DEF GoingOn, Calls
<1>10. CASE UNCHANGED inboxVars
  BY <1>10, KeepsCount DEF inboxVars, GoingOn, Calls
<1> QED
  BY <1>2, <1>3, <1>4, <1>5, <1>6, <1>7, <1>8, <1>9, <1>10, StepCases DEF Locked

-----------------------------------------------------------------------------
LEMMA InboxInvStep ==
  InboxInv /\ [InboxNext]_inboxVars => InboxInv' /\ [StoreNext]_storeVars
<1> SUFFICES ASSUME InboxInv, [InboxNext]_inboxVars PROVE InboxInv' /\ [StoreNext]_storeVars
  OBVIOUS
<1>1. [StoreNext]_storeVars
  BY StoreStep DEF InboxInv
<1>2. StoreTypeOK'
  BY <1>1, StoreTypeStep DEF InboxInv
<1> QED
  BY <1>1, <1>2, CallersStep, LedgerStep, LocksStep, LockStep, CountStep DEF InboxInv

LEMMA InboxSafe == Spec => []InboxInv
  BY InitHolds, InboxInvStep, PTL DEF Spec

\* Commands, replays and intake call the store as its specification lets clients
\* call it, however threads and processes interleave: what is proved of the store
\* holds here.
THEOREM InboxImplementsStore == Spec => StoreSpec
  BY InitHolds, InboxInvStep, PTL DEF Spec, StoreSpec

\* Rows, issues and locks keep their domains, for any threads and processes: the
\* tables jobs and operation_locks (store.py) and the labels control sets.
THEOREM InboxTypeCorrect == Spec => []InboxTypeOK
<1>1. InboxInv => InboxTypeOK
  BY DEF InboxInv, InboxTypeOK, LedgerOK, LocksOK
<1> QED
  BY <1>1, InboxSafe, PTL

\* apply_control_comment sends a command to the store a second time only after an
\* exception or a crash cut off the first application, for any number of comments,
\* threads and processes, webhooks and replays, failures of GitHub and crashes.
THEOREM CommandAppliedOnce == Spec => []AppliedTwiceOnlyIfCut
<1>1. InboxInv => AppliedTwiceOnlyIfCut
  BY DEF InboxInv
<1> QED
  BY <1>1, InboxSafe, PTL

\* The theorems about routing speak of the routing of this module.
LEMMA SameRoute ==
  ASSUME NEW open, NEW labels, NEW available
  PROVE  RoutingFacts!route(open, labels, available) = route(open, labels, available)
<1>1. \A x : RoutingFacts!Agent(x) = Agent(x) /\ RoutingFacts!Review(x) = Review(x)
  BY DEF Agent, Review, RoutingFacts!Agent, RoutingFacts!Review
<1>2. /\ RoutingFacts!Implementers(labels) = Implementers(labels)
      /\ RoutingFacts!Reviewers(labels) = Reviewers(labels)
  BY <1>1 DEF Implementers, Reviewers, RoutingFacts!Implementers, RoutingFacts!Reviewers
<1>3. \A S : RoutingFacts!OneOf(S) = OneOf(S) /\ RoutingFacts!Single(S) = Single(S)
  BY DEF OneOf, Single, RoutingFacts!OneOf, RoutingFacts!Single
<1>4. \A p : RoutingFacts!ChooseReviewer(p, available) = ChooseReviewer(p, available)
  BY <1>3 DEF ChooseReviewer, RoutingFacts!ChooseReviewer
<1>5. RoutingFacts!RequestedReviewer(labels, available) = RequestedReviewer(labels, available)
  BY <1>2, <1>3, <1>4 DEF RequestedReviewer, RoutingFacts!RequestedReviewer
<1>6. RoutingFacts!MayRun(open, labels) <=> MayRun(open, labels)
  BY <1>1 DEF MayRun, RoutingFacts!MayRun
<1>7. RoutingFacts!Selects(labels, available) <=> Selects(labels, available)
  BY <1>1, <1>2, <1>3, <1>5 DEF Selects, RoutingFacts!Selects
<1> QED
  BY <1>1, <1>2, <1>3, <1>5, <1>6, <1>7
     DEF route, Ineligible, RoutingFacts!route, RoutingFacts!Ineligible

\* Whatever commands and humans do to labels, the guard before a push accepts the
\* issue again as long as they stay as they were when it was accepted (github.py,
\* guard_code_mutation).
THEOREM GuardNeverRefuses == Spec => []GuardAgrees
<1>1. InboxInv => GuardAgrees
  <2> SUFFICES ASSUME InboxInv, NEW j \in Jobs
               PROVE  GuardAgreesOn(issue[j].open, issue[j].labels)
    BY DEF GuardAgrees
  <2>1. issue[j].open \in BOOLEAN
    BY DEF InboxInv, LedgerOK
  <2>2. RoutingFacts!GuardAgreesOn(issue[j].open, issue[j].labels)
    BY <2>1, RoutingFacts!GuardAgreesEverywhere
  <2> QED
    BY <2>2, SameRoute
       DEF GuardAgreesOn, RoutingFacts!GuardAgreesOn, StillRouted, RoutingFacts!StillRouted
<1> QED
  BY <1>1, InboxSafe, PTL
=============================================================================
