----------------------------- MODULE JobStates -----------------------------
(***************************************************************************)
(* The states of a durable job (models.py, JobState) and the table of      *)
(* transitions Store.transition accepts (store.py, ALLOWED_TRANSITIONS).   *)
(* Absent is not a JobState: it stands for "no row for this issue yet".    *)
(***************************************************************************)

QUEUED         == "queued"
RUNNING        == "running"
NEEDS_GUIDANCE == "needs-guidance"
PR_OPEN        == "pr-open"
REVIEWING      == "reviewing"
BLOCKED        == "blocked"
FAILED         == "failed"
CANCELED       == "canceled"
DONE           == "done"
Absent         == "absent"

JobState == {QUEUED, RUNNING, NEEDS_GUIDANCE, PR_OPEN, REVIEWING,
             BLOCKED, FAILED, CANCELED, DONE}

ACTIVE_STATES == {RUNNING, REVIEWING}

\* States in which the automation has stopped and waits for a human, or ended.
StoppedStates == {NEEDS_GUIDANCE, BLOCKED, FAILED, CANCELED, DONE}

ALLOWED_TRANSITIONS ==
  [s \in JobState |->
     CASE s = QUEUED         -> {RUNNING, NEEDS_GUIDANCE, PR_OPEN, BLOCKED, FAILED, CANCELED}
       [] s = RUNNING        -> {QUEUED, NEEDS_GUIDANCE, PR_OPEN, BLOCKED, FAILED, CANCELED}
       [] s = NEEDS_GUIDANCE -> {QUEUED, CANCELED, FAILED}
       [] s = PR_OPEN        -> {QUEUED, REVIEWING, DONE, CANCELED}
       [] s = REVIEWING      -> {PR_OPEN, QUEUED, DONE, FAILED, CANCELED}
       [] s = BLOCKED        -> {QUEUED, CANCELED}
       [] s = FAILED         -> {QUEUED, CANCELED}
       [] s = CANCELED       -> {QUEUED}
       [] s = DONE           -> {}]
=============================================================================
