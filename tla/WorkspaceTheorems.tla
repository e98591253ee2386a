------------------------- MODULE WorkspaceTheorems -------------------------
(***************************************************************************)
(* Proofs about Workspace, for any jobs, commits and interference: work is *)
(* never overwritten or lost, and a pull request holds what it describes.  *)
(*                                                                         *)
(* The inductive invariant WorkspaceInv relates the local branch, the one  *)
(* on GitHub and what the pull request vouches for, phase by phase.        *)
(***************************************************************************)
EXTENDS Workspace, TLAPS

\* An open pull request has its branch on GitHub and its worktree's branch here.
PullHasBranch(j) == j \in pull => local[j] # None /\ remote[j] # None

\* Evidence is about commits of the worktree.
VouchedIsLocal(j) == vouched[j] \subseteq Content(local[j])

\* The work of an open pull request is on GitHub, but for a run between a commit
\* and its push, and for what a run left behind that was cut off there.
WorkArrived(j) ==
  j \in pull /\ j \notin cut /\ ~Unpushed(j) => local[j] \subseteq Content(remote[j])

\* What the comparison found, and what follows the push, stays true: nobody takes
\* commits away without taking the branch.
StillMatches(j) ==
  \/ In(j, "guard") /\ run[j].matches
  \/ In(j, "open")
  => remote[j] = None \/ local[j] \subseteq Content(remote[j])

VouchedIsThere(j) == vouched[j] \subseteq Content(remote[j]) \/ j \in cut

PartsOK(j) ==
  /\ PullHasBranch(j) /\ VouchedIsLocal(j) /\ WorkArrived(j)
  /\ StillMatches(j) /\ VouchedIsThere(j)

WorkspaceInv == WorkspaceTypeOK /\ \A j \in Jobs : PartsOK(j)

-----------------------------------------------------------------------------
(* Types. *)

LEMMA InitHolds == WorkspaceInit => WorkspaceInv
  BY WorkspaceAssumption
     DEF WorkspaceInit, WorkspaceInv, WorkspaceTypeOK, CloneOK, GitHubOK, RunsOK, InWorktree,
         RunRecord, Phases, BeforeCheckout, Branch, Idle, PartsOK, PullHasBranch,
         VouchedIsLocal, WorkArrived, StillMatches, VouchedIsThere, In, Content, Unpushed

\* Sets of commits are branches, and None is not one of them.
LEMMA Branches ==
  /\ None \in Branch /\ None \notin SUBSET Commits
  /\ \A b \in SUBSET Commits : b \in Branch /\ b # None
  /\ \A b \in Branch : b # None => b \in SUBSET Commits
  /\ \A b \in Branch : Content(b) \in SUBSET Commits
  BY WorkspaceAssumption DEF Branch, Content

\* What a new commit is new to.
LEMMA NewCommit ==
  ASSUME NEW c \in Commits, New(c), NEW j \in Jobs
  PROVE  c \notin Content(local[j])
  BY DEF New, Used

\* A local branch is made from branches.
LEMMA StartsFromBranch ==
  ASSUME CloneOK, NEW j \in Jobs
  PROVE  /\ StartingPoint(j) \in Branch /\ StartingPoint(j) # None
         /\ local[j] # None => StartingPoint(j) = local[j]
         /\ Content(local[j]) \subseteq Content(StartingPoint(j))
  BY Branches DEF StartingPoint, CloneOK, Content

OthersRunOn(j) == \A i \in Jobs \ {j} : run'[i] = run[i]

LEMMA GotoRun ==
  ASSUME RunsOK, NEW j \in Jobs, NEW pc \in Phases, Goto(j, pc)
  PROVE  /\ RunsOK' /\ OthersRunOn(j)
         /\ run'[j].pc = pc /\ run'[j].matches = run[j].matches
  BY DEF RunsOK, RunRecord, Goto, OthersRunOn

LEMMA EndsRun ==
  ASSUME RunsOK, NEW j \in Jobs, Ends(j)
  PROVE  /\ RunsOK' /\ OthersRunOn(j)
         /\ run'[j].pc = "idle"
         /\ cut' = IF Unpushed(j) THEN cut \cup {j} ELSE cut
  BY WorkspaceAssumption DEF RunsOK, RunRecord, Ends, OthersRunOn, Idle, Phases, BeforeCheckout

LEMMA StartRun ==
  ASSUME RunsOK, NEW j \in Jobs, Start(j)
  PROVE  RunsOK' /\ OthersRunOn(j) /\ run'[j].pc = "cache"
<1> DEFINE First(review, adopted) ==
      [pc |-> "cache", reviewed |-> review, adopted |-> adopted,
       matches |-> FALSE, repairs |-> 0]
<1>1. \A review, adopted \in BOOLEAN :
        First(review, adopted) \in RunRecord /\ First(review, adopted).pc = "cache"
  BY WorkspaceAssumption DEF RunRecord, Phases, BeforeCheckout
<1>2. PICK review \in BOOLEAN : run' = [run EXCEPT ![j] = First(review, j \in pull)]
  BY Zenon DEF Start
<1>3. (j \in pull) \in BOOLEAN
  OBVIOUS
<1>4. First(review, j \in pull) \in RunRecord /\ First(review, j \in pull).pc = "cache"
  BY <1>1, <1>3, Zenon
<1> HIDE DEF First
<1>5. QED
  BY <1>2, <1>4 DEF RunsOK, OthersRunOn

LEMMA CompareRun ==
  ASSUME RunsOK, NEW j \in Jobs, Compare(j)
  PROVE  /\ RunsOK' /\ OthersRunOn(j)
         /\ run'[j].pc = "guard" /\ run'[j].matches = BranchMatches(j)
  BY DEF RunsOK, RunRecord, Compare, BranchMatches, OthersRunOn, Phases

LEMMA ReviewRun ==
  ASSUME RunsOK, NEW j \in Jobs, run[j].repairs < MaxRepairs,
         run' = [run EXCEPT ![j].pc = "repair", ![j].repairs = @ + 1]
  PROVE  RunsOK' /\ OthersRunOn(j) /\ run'[j].pc = "repair"
  BY WorkspaceAssumption DEF RunsOK, RunRecord, OthersRunOn, Phases

\* A step of a run, by its kind: what it does to the run of its job.
LEMMA RunStepRun ==
  ASSUME RunsOK, NEW j \in Jobs, RunStep(j) \/ CutOff(j)
  PROVE  RunsOK' /\ OthersRunOn(j)
<1> USE DEF Phases, BeforeCheckout
<1>1. CASE Start(j)
  BY <1>1, StartRun
<1>2. CASE FindCache(j)
  BY <1>2, GotoRun, EndsRun DEF FindCache
<1>3. CASE Clone(j)
  BY <1>3, GotoRun, EndsRun DEF Clone
<1>4. CASE Cloned(j)
  BY <1>4, GotoRun, EndsRun DEF Cloned
<1>5. CASE Fetch(j)
  BY <1>5, GotoRun, EndsRun DEF Fetch
<1>6. CASE Checkout(j)
  BY <1>6, GotoRun, EndsRun DEF Checkout, AfterCheckout
<1>7. CASE Implement(j)
  BY <1>7, GotoRun, EndsRun DEF Implement
<1>8. CASE Commit(j)
  BY <1>8, GotoRun, EndsRun DEF Commit
<1>9. CASE Compare(j)
  BY <1>9, CompareRun
<1>10. CASE Guard(j)
  BY <1>10, GotoRun, EndsRun DEF Guard
<1>11. CASE Push(j)
  BY <1>11, GotoRun, EndsRun DEF Push
<1>12. CASE OpenPull(j)
  BY <1>12, GotoRun, EndsRun DEF OpenPull, AfterPull
<1>13. CASE Review(j)
  BY <1>13, EndsRun, ReviewRun DEF Review
<1>14. CASE Repair(j)
  BY <1>14, GotoRun, EndsRun DEF Repair
<1>15. CASE RepairCommit(j)
  BY <1>15, GotoRun, EndsRun DEF RepairCommit
<1>16. CASE RepairPush(j)
  BY <1>16, GotoRun, EndsRun DEF RepairPush
<1>17. CASE Evidence(j)
  BY <1>17, GotoRun, EndsRun DEF Evidence
<1>18. CASE CutOff(j)
  BY <1>18, GotoRun, EndsRun DEF CutOff
<1> QED
  BY <1>1, <1>2, <1>3, <1>4, <1>5, <1>6, <1>7, <1>8, <1>9, <1>10, <1>11, <1>12, <1>13, <1>14, <1>15, <1>16, <1>17, <1>18 DEF RunStep

\* The branch of a worktree in use is made of commits, and so are its pushes.
LEMMA LocalCommits ==
  ASSUME WorkspaceTypeOK, NEW j \in Jobs, run[j].pc \notin BeforeCheckout
  PROVE  /\ tree[j] \in {"cut", "ready"}
         /\ local[j] \in SUBSET Commits
         /\ local[j] # None /\ Content(local[j]) = local[j]
  BY Branches DEF WorkspaceTypeOK, CloneOK, InWorktree, Content

\* A commit adds to the branch of its worktree.
LEMMA CommitAdds ==
  ASSUME WorkspaceTypeOK, NEW j \in Jobs, run[j].pc \notin BeforeCheckout, CommitAll(j)
  PROVE  /\ local' \in [Jobs -> Branch] /\ dirty' = dirty \ {j}
         /\ \A i \in Jobs \ {j} : local'[i] = local[i]
         /\ local'[j] # None /\ Content(local'[j]) = local'[j]
         /\ local[j] \subseteq local'[j] /\ local[j] # local'[j]
<1>1. PICK c \in Commits : New(c) /\ local' = [local EXCEPT ![j] = @ \cup {c}]
  BY DEF CommitAll
<1>2. c \notin local[j] /\ local[j] \cup {c} \in SUBSET Commits
  BY <1>1, NewCommit, LocalCommits
<1>3. local[j] \cup {c} \in Branch /\ local[j] \cup {c} # None
  BY <1>2, Branches
<1>4. local \in [Jobs -> Branch] /\ dirty' = dirty \ {j}
  BY DEF WorkspaceTypeOK, CloneOK, CommitAll
<1>5. QED
  BY <1>1, <1>2, <1>3, <1>4 DEF Content

LEMMA TablesStep ==
  ASSUME WorkspaceTypeOK, NEW j \in Jobs, RunStep(j) \/ CutOff(j)
  PROVE  CloneOK' /\ GitHubOK'
<1> USE Branches, EndsRun
    DEF WorkspaceTypeOK, CloneOK, GitHubOK, repository, github, In
<1>1. CASE Start(j)
  BY <1>1 DEF Start
<1>2. CASE FindCache(j)
  BY <1>2 DEF FindCache
<1>3. CASE Clone(j)
  BY <1>3 DEF Clone
<1>4. CASE Cloned(j)
  BY <1>4 DEF Cloned
<1>5. CASE Fetch(j)
  BY <1>5 DEF Fetch
<1>6. CASE Checkout(j)
  BY <1>6, StartsFromBranch DEF Checkout
<1>7. CASE Implement(j)
  BY <1>7 DEF Implement
<1>8. CASE Commit(j)
  BY <1>8, CommitAdds DEF Commit, BeforeCheckout
<1>9. CASE Compare(j)
  BY <1>9 DEF Compare
<1>10. CASE Guard(j)
  BY <1>10 DEF Guard
<1>11. CASE Push(j)
  BY <1>11, LocalCommits DEF BeforeCheckout, Push, PushHead
<1>12. CASE OpenPull(j)
  BY <1>12, LocalCommits DEF BeforeCheckout, OpenPull, AfterPull
<1>13. CASE Review(j)
  BY <1>13, LocalCommits DEF BeforeCheckout, Review
<1>14. CASE Repair(j)
  BY <1>14 DEF Repair
<1>15. CASE RepairCommit(j)
  BY <1>15, CommitAdds DEF RepairCommit, BeforeCheckout
<1>16. CASE RepairPush(j)
  BY <1>16, LocalCommits DEF BeforeCheckout, RepairPush, PushHead
<1>17. CASE Evidence(j)
  BY <1>17, LocalCommits DEF BeforeCheckout, Evidence
<1>18. CASE CutOff(j)
  BY <1>18, StartsFromBranch DEF CutOff, HalfCheckout
<1> QED
  BY <1>1, <1>2, <1>3, <1>4, <1>5, <1>6, <1>7, <1>8, <1>9, <1>10, <1>11, <1>12, <1>13, <1>14, <1>15, <1>16, <1>17, <1>18 DEF RunStep

\* A step concerns one job.
SameElsewhere(j) ==
  \A i \in Jobs \ {j} :
    /\ run'[i] = run[i] /\ tree'[i] = tree[i] /\ local'[i] = local[i]
    /\ remote'[i] = remote[i] /\ vouched'[i] = vouched[i]
    /\ i \in pull' <=> i \in pull
    /\ i \in cut' <=> i \in cut
    /\ i \in dirty' <=> i \in dirty

LEMMA RunStepElsewhere ==
  ASSUME WorkspaceTypeOK, NEW j \in Jobs, RunStep(j) \/ CutOff(j)
  PROVE  SameElsewhere(j)
<1> USE RunStepRun, EndsRun
    DEF WorkspaceTypeOK, CloneOK, GitHubOK, SameElsewhere, OthersRunOn, repository, github
<1>1. CASE Start(j)
  BY <1>1 DEF RunStep, Start
<1>2. CASE FindCache(j)
  BY <1>2 DEF RunStep, FindCache
<1>3. CASE Clone(j)
  BY <1>3 DEF RunStep, Clone
<1>4. CASE Cloned(j)
  BY <1>4 DEF RunStep, Cloned
<1>5. CASE Fetch(j)
  BY <1>5 DEF RunStep, Fetch
<1>6. CASE Checkout(j)
  BY <1>6 DEF RunStep, Checkout
<1>7. CASE Implement(j)
  BY <1>7 DEF RunStep, Implement
<1>8. CASE Commit(j)
  BY <1>8 DEF RunStep, Commit, CommitAll
<1>9. CASE Compare(j)
  BY <1>9 DEF RunStep, Compare
<1>10. CASE Guard(j)
  BY <1>10 DEF RunStep, Guard
<1>11. CASE Push(j)
  BY <1>11 DEF RunStep, Push, PushHead
<1>12. CASE OpenPull(j)
  BY <1>12 DEF RunStep, OpenPull, AfterPull
<1>13. CASE Review(j)
  BY <1>13 DEF RunStep, Review
<1>14. CASE Repair(j)
  BY <1>14 DEF RunStep, Repair
<1>15. CASE RepairCommit(j)
  BY <1>15 DEF RunStep, RepairCommit, CommitAll
<1>16. CASE RepairPush(j)
  BY <1>16 DEF RunStep, RepairPush, PushHead
<1>17. CASE Evidence(j)
  BY <1>17 DEF RunStep, Evidence
<1>18. CASE CutOff(j)
  BY <1>18 DEF RunStep, CutOff, HalfCheckout
<1> QED
  BY <1>1, <1>2, <1>3, <1>4, <1>5, <1>6, <1>7, <1>8, <1>9, <1>10, <1>11, <1>12, <1>13, <1>14, <1>15, <1>16, <1>17, <1>18 DEF RunStep

-----------------------------------------------------------------------------
(* The parts of the invariant, for the job that a step is about. *)

\* What a step does for the other jobs is nothing.
LEMMA ElsewhereHolds ==
  ASSUME NEW j \in Jobs, SameElsewhere(j), NEW i \in Jobs \ {j}, InWorktree(i), PartsOK(i)
  PROVE  InWorktree(i)' /\ PartsOK(i)'
  BY DEF SameElsewhere, InWorktree, PartsOK, PullHasBranch, VouchedIsLocal, WorkArrived,
         StillMatches, VouchedIsThere, In, Unpushed, Content

\* The worktree a run ends up in, or works in.
LEMMA WorktreeStep ==
  ASSUME WorkspaceTypeOK, NEW j \in Jobs, RunStep(j) \/ CutOff(j)
  PROVE  InWorktree(j)'
<1> USE GotoRun, EndsRun, Branches
    DEF WorkspaceTypeOK, InWorktree, repository, github, In, Phases, BeforeCheckout
<1>1. CASE Start(j)
  BY <1>1, StartRun DEF Start
<1>2. CASE FindCache(j)
  BY <1>2 DEF FindCache
<1>3. CASE Clone(j)
  BY <1>3 DEF Clone
<1>4. CASE Cloned(j)
  BY <1>4 DEF Cloned
<1>5. CASE Fetch(j)
  BY <1>5 DEF Fetch
<1>6. CASE Checkout(j)
  <2>1. CASE tree[j] = "none"
    BY <1>6, <2>1, StartsFromBranch DEF Checkout, AfterCheckout, CloneOK
  <2>2. CASE tree[j] # "none"
    BY <1>6, <2>2 DEF Checkout, AfterCheckout
  <2>3. QED
    BY <2>1, <2>2
<1>7. CASE Implement(j)
  BY <1>7 DEF Implement
<1>8. CASE Commit(j)
  BY <1>8, CommitAdds DEF Commit
<1>9. CASE Compare(j)
  BY <1>9, CompareRun DEF Compare
<1>10. CASE Guard(j)
  BY <1>10 DEF Guard
<1>11. CASE Push(j)
  BY <1>11 DEF Push
<1>12. CASE OpenPull(j)
  BY <1>12 DEF OpenPull, AfterPull
<1>13. CASE Review(j)
  BY <1>13, ReviewRun DEF Review
<1>14. CASE Repair(j)
  BY <1>14 DEF Repair
<1>15. CASE RepairCommit(j)
  BY <1>15, CommitAdds DEF RepairCommit
<1>16. CASE RepairPush(j)
  BY <1>16 DEF RepairPush
<1>17. CASE Evidence(j)
  BY <1>17 DEF Evidence
<1>18. CASE CutOff(j)
  BY <1>18, StartsFromBranch DEF CutOff, HalfCheckout, CloneOK
<1> QED
  BY <1>1, <1>2, <1>3, <1>4, <1>5, <1>6, <1>7, <1>8, <1>9, <1>10, <1>11, <1>12, <1>13, <1>14, <1>15, <1>16, <1>17, <1>18 DEF RunStep

\* What a run's steps leave true of the branches of its job.
LEMMA PartsStep ==
  ASSUME WorkspaceTypeOK, NEW j \in Jobs, PartsOK(j), RunStep(j) \/ CutOff(j)
  PROVE  PartsOK(j)'
<1> USE GotoRun, EndsRun
    DEF PartsOK, PullHasBranch, VouchedIsLocal, WorkArrived, StillMatches, VouchedIsThere,
        repository, github, In, Unpushed, Phases, BeforeCheckout
<1>t. RunsOK
  BY DEF WorkspaceTypeOK
<1>1. CASE Start(j)
  BY <1>1, <1>t, StartRun DEF Start
<1>2. CASE FindCache(j)
  BY <1>2, <1>t DEF FindCache
<1>3. CASE Clone(j)
  BY <1>3, <1>t DEF Clone
<1>4. CASE Cloned(j)
  BY <1>4, <1>t DEF Cloned
<1>5. CASE Fetch(j)
  BY <1>5, <1>t DEF Fetch
<1>6. CASE Checkout(j)
  BY <1>6, <1>t, StartsFromBranch DEF Checkout, AfterCheckout, WorkspaceTypeOK, CloneOK
<1>7. CASE Implement(j)
  BY <1>7, <1>t DEF Implement
<1>8. CASE Commit(j)
  BY <1>8, <1>t, CommitAdds, LocalCommits DEF Commit
<1>9. CASE Compare(j)
  <2>1. OthersRunOn(j) /\ run'[j].pc = "guard" /\ run'[j].matches = BranchMatches(j)
    BY <1>9, <1>t, CompareRun
  <2>2. run'[j].matches => remote[j] = local[j]
    BY <2>1, Zenon DEF BranchMatches
  <2>3. Content(local[j]) = local[j]
    BY <1>9, LocalCommits DEF Compare
  <2>4. QED
    BY <1>9, <2>1, <2>2, <2>3 DEF Compare
<1>10. CASE Guard(j)
  BY <1>10, <1>t DEF Guard
<1>11. CASE Push(j)
  BY <1>11, <1>t, LocalCommits DEF Push, PushHead, WorkspaceTypeOK, GitHubOK, Content
<1>12. CASE OpenPull(j)
  BY <1>12, <1>t, LocalCommits DEF OpenPull, AfterPull, WorkspaceTypeOK, GitHubOK
<1>13. CASE Review(j)
  BY <1>13, <1>t, ReviewRun, LocalCommits DEF Review, WorkspaceTypeOK, GitHubOK
<1>14. CASE Repair(j)
  BY <1>14, <1>t DEF Repair
<1>15. CASE RepairCommit(j)
  BY <1>15, <1>t, CommitAdds, LocalCommits DEF RepairCommit
<1>16. CASE RepairPush(j)
  BY <1>16, <1>t, LocalCommits DEF RepairPush, PushHead, WorkspaceTypeOK, GitHubOK, Content
<1>17. CASE Evidence(j)
  BY <1>17, <1>t, LocalCommits DEF Evidence, WorkspaceTypeOK, GitHubOK
<1>18. CASE CutOff(j)
  BY <1>18, <1>t, StartsFromBranch DEF CutOff, HalfCheckout, WorkspaceTypeOK, CloneOK
<1> QED
  BY <1>1, <1>2, <1>3, <1>4, <1>5, <1>6, <1>7, <1>8, <1>9, <1>10, <1>11, <1>12, <1>13, <1>14, <1>15, <1>16, <1>17, <1>18 DEF RunStep

-----------------------------------------------------------------------------
(* Humans. *)

HumanStep(j) == HumanPushes(j) \/ HumanDeletes(j) \/ Orphan(j)

LEMMA HumanStepHolds ==
  ASSUME WorkspaceTypeOK, NEW j \in Jobs, PartsOK(j), HumanStep(j)
  PROVE  WorkspaceTypeOK' /\ PartsOK(j)' /\ SameElsewhere(j)
<1> USE Branches
    DEF WorkspaceTypeOK, CloneOK, GitHubOK, RunsOK, InWorktree, repository, PartsOK,
        PullHasBranch, VouchedIsLocal, WorkArrived, StillMatches, VouchedIsThere, In, Unpushed,
        SameElsewhere
<1>1. CASE HumanPushes(j)
  <2>1. PICK c \in Commits : remote' = [remote EXCEPT ![j] = @ \cup {c}]
    BY <1>1 DEF HumanPushes
  <2>2. remote[j] \in SUBSET Commits /\ remote[j] # None
    BY <1>1 DEF HumanPushes
  <2>3. remote[j] \cup {c} \in Branch /\ remote[j] \cup {c} # None
    BY <2>2
  <2>4. QED
    BY <1>1, <2>1, <2>2, <2>3 DEF HumanPushes, Content
<1>2. CASE HumanDeletes(j)
  BY <1>2 DEF HumanDeletes, Content
<1>3. CASE Orphan(j)
  <2>1. PICK c \in Commits : remote' = [remote EXCEPT ![j] = {c}]
    BY <1>3 DEF Orphan
  <2>2. {c} \in Branch /\ {c} # None
    BY <2>1
  <2>3. run[j].pc \in BeforeCheckout /\ vouched[j] = {}
    BY <1>3 DEF Orphan, Content
  <2>4. QED
    BY <1>3, <2>1, <2>2, <2>3 DEF Orphan, Content, BeforeCheckout
<1>4. QED
  BY <1>1, <1>2, <1>3 DEF HumanStep

-----------------------------------------------------------------------------
(* The invariant. *)

LEMMA JobStepHolds ==
  ASSUME WorkspaceInv, NEW j \in Jobs, RunStep(j) \/ CutOff(j) \/ HumanStep(j)
  PROVE  WorkspaceInv' /\ SameElsewhere(j)
<1>1. SameElsewhere(j)
  BY RunStepElsewhere, HumanStepHolds DEF WorkspaceInv
<1>2. \A i \in Jobs \ {j} : InWorktree(i)' /\ PartsOK(i)'
  BY <1>1, ElsewhereHolds DEF WorkspaceInv, WorkspaceTypeOK
<1>3. CASE RunStep(j) \/ CutOff(j)
  <2>1. CloneOK' /\ GitHubOK' /\ RunsOK' /\ InWorktree(j)' /\ PartsOK(j)'
    BY <1>3, TablesStep, RunStepRun, WorktreeStep, PartsStep DEF WorkspaceInv, WorkspaceTypeOK
  <2>2. QED
    BY <1>1, <1>2, <2>1 DEF WorkspaceInv, WorkspaceTypeOK
<1>4. CASE HumanStep(j)
  BY <1>1, <1>2, <1>4, HumanStepHolds DEF WorkspaceInv
<1>5. QED
  BY <1>3, <1>4

LEMMA StutterHolds ==
  ASSUME WorkspaceInv, UNCHANGED workspaceVars
  PROVE  WorkspaceInv'
  BY DEF WorkspaceInv, workspaceVars, repository, github, WorkspaceTypeOK, CloneOK, GitHubOK,
         RunsOK, InWorktree, PartsOK, PullHasBranch, VouchedIsLocal, WorkArrived, StillMatches,
         VouchedIsThere, In, Unpushed

LEMMA StepHolds == WorkspaceInv /\ [WorkspaceNext]_workspaceVars => WorkspaceInv'
  BY JobStepHolds, StutterHolds DEF WorkspaceNext, HumanStep

LEMMA InvHolds == WorkspaceSpec => []WorkspaceInv
  BY InitHolds, StepHolds, PTL DEF WorkspaceSpec

\* The clone, the worktrees, the branches and the runs keep their types, for any
\* number of jobs, commits and repairs.
THEOREM WorkspaceTypeCorrect == WorkspaceSpec => []WorkspaceTypeOK
<1>1. WorkspaceInv => WorkspaceTypeOK
  BY DEF WorkspaceInv
<1>2. QED
  BY <1>1, InvHolds, PTL

\* Evidence and reviews are about pushed commits, unless a run was cut off
\* between a commit and its push.
THEOREM EvidenceIsThere == WorkspaceSpec => []UnpushedOnlyIfCut
<1>1. WorkspaceInv => UnpushedOnlyIfCut
  BY DEF WorkspaceInv, PartsOK, VouchedIsThere, UnpushedOnlyIfCut
<1>2. QED
  BY <1>1, InvHolds, PTL

-----------------------------------------------------------------------------
(* The action properties. *)

\* What one step does to the branches of its job.
OnlyGrows(j) == remote'[j] # None => Content(remote[j]) \subseteq remote'[j]
KeepsWork(j) ==
  /\ Content(local[j]) \subseteq Content(local'[j])
  /\ j \in dirty \ dirty' => Content(local'[j]) # Content(local[j])
HoldsWork(j) == j \in pull' \ pull => local[j] \subseteq Content(remote[j])

LEMMA RunStepKeeps ==
  ASSUME WorkspaceInv, NEW j \in Jobs, RunStep(j) \/ CutOff(j)
  PROVE  OnlyGrows(j) /\ KeepsWork(j) /\ HoldsWork(j)
<1> USE DEF OnlyGrows, KeepsWork, HoldsWork, repository, github, In, BeforeCheckout
<1>t. WorkspaceTypeOK /\ CloneOK /\ GitHubOK /\ PartsOK(j)
  BY DEF WorkspaceInv, WorkspaceTypeOK
<1>c. remote[j] # None => Content(remote[j]) = remote[j]
  BY DEF Content
<1>1. CASE Start(j) \/ FindCache(j) \/ Clone(j) \/ Cloned(j) \/ Fetch(j)
  BY <1>1, <1>c DEF Start, FindCache, Clone, Cloned, Fetch
<1>2. CASE Implement(j) \/ Compare(j) \/ Guard(j) \/ Review(j) \/ Repair(j) \/ Evidence(j)
  BY <1>2, <1>c DEF Implement, Compare, Guard, Review, Repair, Evidence
<1>3. CASE Checkout(j)
  BY <1>3, <1>t, <1>c, StartsFromBranch DEF Checkout, CloneOK
<1>4. CASE Commit(j) \/ RepairCommit(j)
  BY <1>4, <1>t, <1>c, CommitAdds, LocalCommits DEF Commit, RepairCommit
<1>5. CASE Push(j) \/ RepairPush(j)
  BY <1>5, <1>t, <1>c, LocalCommits DEF Push, RepairPush, PushHead, GitHubOK
<1>6. CASE OpenPull(j)
  BY <1>6, <1>t, <1>c DEF OpenPull, PartsOK, StillMatches
<1>7. CASE CutOff(j)
  BY <1>7, <1>t, <1>c, StartsFromBranch DEF CutOff, HalfCheckout, CloneOK
<1>8. QED
  BY <1>1, <1>2, <1>3, <1>4, <1>5, <1>6, <1>7 DEF RunStep

LEMMA HumanStepKeeps ==
  ASSUME WorkspaceInv, NEW j \in Jobs, HumanStep(j)
  PROVE  OnlyGrows(j) /\ KeepsWork(j) /\ HoldsWork(j)
<1> USE DEF OnlyGrows, KeepsWork, HoldsWork, repository, Content
<1>t. GitHubOK
  BY DEF WorkspaceInv, WorkspaceTypeOK
<1>1. CASE HumanPushes(j)
  BY <1>1, <1>t DEF HumanPushes, GitHubOK
<1>2. CASE HumanDeletes(j)
  BY <1>2, <1>t DEF HumanDeletes, GitHubOK
<1>3. CASE Orphan(j)
  BY <1>3, <1>t DEF Orphan, GitHubOK
<1>4. QED
  BY <1>1, <1>2, <1>3 DEF HumanStep

LEMMA ElsewhereKeeps ==
  ASSUME NEW j \in Jobs, SameElsewhere(j), NEW i \in Jobs \ {j}
  PROVE  OnlyGrows(i) /\ KeepsWork(i) /\ HoldsWork(i)
  BY DEF SameElsewhere, OnlyGrows, KeepsWork, HoldsWork, Content

LEMMA StepKeeps ==
  ASSUME WorkspaceInv, [WorkspaceNext]_workspaceVars, NEW i \in Jobs
  PROVE  OnlyGrows(i) /\ KeepsWork(i) /\ HoldsWork(i)
<1>1. ASSUME NEW j \in Jobs, RunStep(j) \/ CutOff(j) \/ HumanStep(j)
      PROVE  OnlyGrows(i) /\ KeepsWork(i) /\ HoldsWork(i)
  BY <1>1, RunStepKeeps, HumanStepKeeps, ElsewhereKeeps, JobStepHolds
<1>2. CASE UNCHANGED workspaceVars
  BY <1>2 DEF workspaceVars, repository, github, OnlyGrows, KeepsWork, HoldsWork, Content
<1>3. QED
  BY <1>1, <1>2 DEF WorkspaceNext, HumanStep

\* Whoever pushes what, the generated branch only loses commits with the branch.
THEOREM BranchesOnlyGrow == WorkspaceSpec => NothingOverwritten
<1>1. WorkspaceInv /\ [WorkspaceNext]_workspaceVars
        => \A j \in Jobs : remote'[j] # None => Content(remote[j]) \subseteq remote'[j]
  BY StepKeeps DEF OnlyGrows
<1>2. QED
  BY <1>1, InvHolds, PTL DEF WorkspaceSpec, NothingOverwritten

\* Wherever runs are cut off, later ones keep the commits and changes they left.
THEOREM WorkNeverLost == WorkspaceSpec => WorkKept
<1>1. WorkspaceInv /\ [WorkspaceNext]_workspaceVars
        => \A j \in Jobs :
             /\ Content(local[j]) \subseteq Content(local'[j])
             /\ j \in dirty \ dirty' => Content(local'[j]) # Content(local[j])
  BY StepKeeps DEF KeepsWork
<1>2. QED
  BY <1>1, InvHolds, PTL DEF WorkspaceSpec, WorkKept

\* A pull request is opened on a branch that holds the work it describes.
THEOREM PullsHoldWork == WorkspaceSpec => PullHoldsWork
<1>1. WorkspaceInv /\ [WorkspaceNext]_workspaceVars
        => \A j \in pull' \ pull : local[j] \subseteq Content(remote[j])
  <2>1. SUFFICES ASSUME WorkspaceInv, [WorkspaceNext]_workspaceVars, NEW j \in pull' \ pull
                 PROVE  local[j] \subseteq Content(remote[j])
    OBVIOUS
  <2>2. WorkspaceInv'
    BY <2>1, StepHolds
  <2>3. j \in Jobs
    BY <2>2 DEF WorkspaceInv, WorkspaceTypeOK, GitHubOK
  <2>4. QED
    BY <2>1, <2>3, StepKeeps DEF HoldsWork
<1>2. QED
  BY <1>1, InvHolds, PTL DEF WorkspaceSpec, PullHoldsWork
=============================================================================
