----------------------------- MODULE Workspace -----------------------------
(***************************************************************************)
(* The Git side of a run (workspace.py and the artifact half of            *)
(* run_claimed and _review): the clone shared by the jobs of a repository, *)
(* the worktree a job keeps between runs, its generated branch here and on *)
(* GitHub, and the pull request.  Runs are cut off anywhere and repeated.  *)
(*                                                                         *)
(* A branch is the set of its commits: one branch fast-forwards to another *)
(* when it is a subset.  {} is the default branch, which stays as it is.   *)
(* A job has one run at a time (its lease; see Service); jobs with other   *)
(* concurrency keys run beside it on the same clone.                       *)
(*                                                                         *)
(* External: git, which refuses pushes that are no fast-forward and leaves *)
(* what it was writing when it is killed; humans on GitHub; agents.        *)
(***************************************************************************)
EXTENDS Naturals

CONSTANTS
  Jobs,        \* the jobs of one repository
  Commits,     \* bound: commit ids
  None,        \* no branch
  MaxRepairs,  \* scheduler.max_review_repairs
  Humans       \* bound: the <<deed, job>> pairs humans do to generated branches

ASSUME WorkspaceAssumption ==
  /\ Commits \subseteq Nat /\ \A b \in SUBSET Commits : b # None
  /\ MaxRepairs \in Nat
  /\ Humans \subseteq {"push", "delete", "orphan"} \X Jobs

VARIABLES
  cache,     \* repositories/<key>: "none", "cut" (a clone that has not ended), "ready"
  known,     \* its remote-tracking refs of the generated branches
  tree,      \* runs/<job>: "none", "broken", "cut" (a stale index lock), "ready"
  local,     \* the generated branch of each job in the clone, HEAD of its worktree
  dirty,     \* the worktrees with uncommitted changes
  remote,    \* the generated branches on GitHub
  pull,      \* the jobs with an open pull request
  vouched,   \* what the validation or a clean review in the pull request is about
  cut,       \* jobs whose last run ended between a commit and its push (history)
  run        \* the local variables of each job's run

repository == <<cache, known, tree, local, dirty>>
github == <<remote, pull, vouched>>
workspaceVars == <<repository, github, cut, run>>

Branch == {None} \cup SUBSET Commits
Idle == [pc |-> "idle", reviewed |-> FALSE, adopted |-> FALSE, matches |-> FALSE, repairs |-> 0]

In(j, pc) == run[j].pc = pc
Goto(j, pc) == run' = [run EXCEPT ![j].pc = pc]

Content(b) == IF b = None THEN {} ELSE b
Used ==
  UNION {Content(local[j]) \cup Content(remote[j]) \cup vouched[j] : j \in Jobs}
\* A commit nobody has made.
New(c) == c \in Commits \ Used /\ \A d \in Commits \ Used : c <= d

WorkspaceInit ==
  /\ cache = "none" /\ known = [j \in Jobs |-> None]
  /\ tree = [j \in Jobs |-> "none"] /\ local = [j \in Jobs |-> None] /\ dirty = {}
  /\ remote = [j \in Jobs |-> None] /\ pull = {}
  /\ vouched = [j \in Jobs |-> {}]
  /\ cut = {} /\ run = [j \in Jobs |-> Idle]

Unpushed(j) == run[j].pc \in {"compare", "guard", "push", "repairPush"}

\* The run is over, by whatever handler; nothing it left behind is cleaned up.
Ends(j) ==
  /\ run' = [run EXCEPT ![j] = Idle]
  /\ cut' = IF Unpushed(j) THEN cut \cup {j} ELSE cut

-----------------------------------------------------------------------------
(* Adoption and checkout. *)

\* A claim, and find_open_pr.  Retries change review_required as the labels do.
\* An open pull request of a job that needs no review is worked on only for a
\* retry; without one the run is over at once.
Start(j) ==
  /\ In(j, "idle")
  /\ \E review \in BOOLEAN :
       run' = [run EXCEPT ![j] =
                 [pc |-> "cache", reviewed |-> review, adopted |-> j \in pull,
                  matches |-> FALSE, repairs |-> 0]]
  /\ UNCHANGED <<repository, github, cut>>

\* The repository is cloned unless there is a .git.
FindCache(j) ==
  /\ In(j, "cache")
  /\ Goto(j, IF cache = "none" THEN "clone" ELSE "fetch")
  /\ UNCHANGED <<repository, github, cut>>

\* gh repo clone; others see a .git from its beginning on, and it refuses a
\* directory that another run has begun to fill.
Clone(j) ==
  /\ In(j, "clone")
  /\ \/ cache = "none" /\ cache' = "cut" /\ Goto(j, "cloning") /\ UNCHANGED cut
     \/ cache # "none" /\ Ends(j) /\ UNCHANGED cache
  /\ UNCHANGED <<known, tree, local, dirty, github>>

Cloned(j) ==
  /\ In(j, "cloning")
  /\ cache' = "ready"
  /\ Goto(j, "fetch")
  /\ UNCHANGED <<known, tree, local, dirty, github, cut>>

\* git fetch --prune; it may complete what a clone has left undone, or not.
Fetch(j) ==
  /\ In(j, "fetch")
  /\ \/ /\ cache # "none"
        /\ cache' = "ready"
        /\ known' = remote
        /\ Goto(j, "checkout") /\ UNCHANGED cut
     \/ cache # "ready" /\ Ends(j) /\ UNCHANGED <<cache, known>>
  /\ UNCHANGED <<tree, local, dirty, github>>

\* What the worktree starts from: the local branch, the one on GitHub as
\* fetched, or the default branch.
StartingPoint(j) ==
  IF local[j] # None THEN local[j]
  ELSE IF known[j] # None THEN known[j]
  ELSE {}

AfterCheckout(j) == IF run[j].adopted /\ run[j].reviewed THEN "review" ELSE "implement"

\* Mutant of Checkout: the worktree is made anew for each run.
CheckoutAnew(j) ==
  /\ In(j, "checkout")
  /\ tree' = [tree EXCEPT ![j] = "ready"]
  /\ local' = [local EXCEPT ![j] = Content(known[j])]
  /\ dirty' = dirty \ {j}
  /\ Goto(j, AfterCheckout(j))
  /\ UNCHANGED <<cache, known, github, cut>>

\* Mutant of Checkout: a directory is taken for a worktree.
CheckoutAny(j) ==
  /\ In(j, "checkout")
  /\ IF tree[j] = "none"
       THEN /\ tree' = [tree EXCEPT ![j] = "ready"]
            /\ local' = [local EXCEPT ![j] = StartingPoint(j)]
       ELSE UNCHANGED <<tree, local>>
  /\ Goto(j, AfterCheckout(j))
  /\ UNCHANGED <<cache, known, dirty, github, cut>>

\* An existing worktree is used as it is.
Checkout(j) ==
  /\ In(j, "checkout")
  /\ \/ /\ tree[j] = "none"
        /\ tree' = [tree EXCEPT ![j] = "ready"]
        /\ local' = [local EXCEPT ![j] = StartingPoint(j)]
        /\ Goto(j, AfterCheckout(j)) /\ UNCHANGED cut
     \/ /\ tree[j] \in {"cut", "ready"}
        /\ Goto(j, AfterCheckout(j)) /\ UNCHANGED <<tree, local, cut>>
     \/ tree[j] = "broken" /\ Ends(j) /\ UNCHANGED <<tree, local>>
  /\ UNCHANGED <<cache, known, dirty, github>>

-----------------------------------------------------------------------------
(* Implementation: commit, compare, guard, push, pull request. *)

\* The agent's turns and the validation; a run that fails stops here.
Implement(j) ==
  /\ In(j, "implement")
  /\ \/ dirty' = dirty \cup {j}
     \/ UNCHANGED dirty
  /\ \/ Goto(j, "commit") /\ UNCHANGED cut
     \/ Ends(j)
  /\ UNCHANGED <<cache, known, tree, local, github>>

\* git add --all; git commit.
CommitAll(j) ==
  /\ tree[j] = "ready"
  /\ \E c \in Commits : New(c) /\ local' = [local EXCEPT ![j] = @ \cup {c}]
  /\ dirty' = dirty \ {j}

\* has_changes, commits_ahead of the default branch.
Commit(j) ==
  /\ In(j, "commit")
  /\ \/ j \in dirty /\ CommitAll(j) /\ Goto(j, "compare") /\ UNCHANGED cut
     \/ /\ j \in dirty /\ tree[j] = "cut"
        /\ Ends(j) /\ UNCHANGED <<local, dirty>>
     \/ /\ j \notin dirty /\ local[j] # {}
        /\ Goto(j, "compare") /\ UNCHANGED <<local, dirty, cut>>
     \/ /\ j \notin dirty /\ local[j] = {}
        /\ Ends(j) /\ UNCHANGED <<local, dirty>>
  /\ UNCHANGED <<cache, known, tree, github>>

\* Mutant of BranchMatches: a branch of the right name will do.
BranchExists(j) == remote[j] # None

BranchMatches(j) == remote[j] = local[j]

\* remote_branch_exists and remote_matches.
Compare(j) ==
  /\ In(j, "compare")
  /\ run' = [run EXCEPT ![j].matches = BranchMatches(j), ![j].pc = "guard"]
  /\ UNCHANGED <<repository, github, cut>>

\* guard_code_mutation, as far as the branch is concerned.
Guard(j) ==
  /\ In(j, "guard")
  /\ IF remote[j] = None \/ run[j].matches \/ run[j].adopted
     THEN Goto(j, IF run[j].matches THEN "open" ELSE "push") /\ UNCHANGED cut
     ELSE Ends(j)
  /\ UNCHANGED <<repository, github>>

\* Mutant of PushHead: git push --force.
PushHeadForced(j) == remote' = [remote EXCEPT ![j] = local[j]]

\* git push <url> HEAD:refs/heads/<branch>.
PushHead(j) ==
  /\ Content(remote[j]) \subseteq local[j]
  /\ remote' = [remote EXCEPT ![j] = local[j]]

Push(j) ==
  /\ In(j, "push")
  /\ \/ PushHead(j) /\ Goto(j, "open") /\ cut' = cut \ {j}
     \/ /\ ~(Content(remote[j]) \subseteq local[j])
        /\ Ends(j) /\ UNCHANGED remote
  /\ UNCHANGED <<repository, pull, vouched>>

AfterPull(j) ==
  IF run[j].reviewed THEN Goto(j, "review") /\ UNCHANGED cut ELSE Ends(j)

\* create_draft_pr and update_pr_validation: the evidence is about HEAD.
OpenPull(j) ==
  /\ In(j, "open")
  /\ \/ /\ remote[j] # None
        /\ pull' = pull \cup {j}
        /\ vouched' = [vouched EXCEPT ![j] = local[j]]
        /\ AfterPull(j)
     \/ remote[j] = None /\ Ends(j) /\ UNCHANGED <<pull, vouched>>
  /\ UNCHANGED <<repository, remote>>

-----------------------------------------------------------------------------
(* Review and repair. *)

\* The reviewer reads the diff from the base to HEAD of the worktree; a review
\* without findings is posted on the pull request.
Review(j) ==
  /\ In(j, "review")
  /\ \/ /\ j \in pull
        /\ vouched' = [vouched EXCEPT ![j] = local[j]]
        /\ Ends(j) /\ UNCHANGED <<dirty>>
     \/ Ends(j) /\ UNCHANGED <<vouched, dirty>>
     \/ /\ run[j].repairs < MaxRepairs
        /\ run' = [run EXCEPT ![j].pc = "repair", ![j].repairs = @ + 1]
        /\ UNCHANGED <<vouched, dirty, cut>>
  /\ UNCHANGED <<cache, known, tree, local, remote, pull>>

\* A repair turn and its validation; a repair that fails leaves its changes.
Repair(j) ==
  /\ In(j, "repair")
  /\ \/ dirty' = dirty \cup {j}
     \/ UNCHANGED dirty
  /\ \/ Goto(j, "repairCommit") /\ UNCHANGED cut
     \/ Ends(j)
  /\ UNCHANGED <<cache, known, tree, local, github>>

\* Mutant of RepairCommit: the push is left to the next repair.
RepairCommitOnly(j) ==
  /\ In(j, "repairCommit")
  /\ \/ j \in dirty /\ CommitAll(j) /\ Goto(j, "evidence") /\ UNCHANGED cut
     \/ j \in dirty /\ tree[j] = "cut" /\ Ends(j) /\ UNCHANGED <<local, dirty>>
     \/ j \notin dirty /\ Goto(j, "evidence") /\ UNCHANGED <<local, dirty, cut>>
  /\ UNCHANGED <<cache, known, tree, github>>

RepairCommit(j) ==
  /\ In(j, "repairCommit")
  /\ \/ j \in dirty /\ CommitAll(j) /\ Goto(j, "repairPush") /\ UNCHANGED cut
     \/ j \in dirty /\ tree[j] = "cut" /\ Ends(j) /\ UNCHANGED <<local, dirty>>
     \/ j \notin dirty /\ Goto(j, "evidence") /\ UNCHANGED <<local, dirty, cut>>
  /\ UNCHANGED <<cache, known, tree, github>>

\* The guard allows the branch; it may refuse for other reasons.
RepairPush(j) ==
  /\ In(j, "repairPush")
  /\ \/ PushHead(j) /\ Goto(j, "evidence") /\ cut' = cut \ {j}
     \/ /\ ~(Content(remote[j]) \subseteq local[j])
        /\ Ends(j) /\ UNCHANGED remote
  /\ UNCHANGED <<repository, pull, vouched>>

Evidence(j) ==
  /\ In(j, "evidence")
  /\ \/ /\ j \in pull
        /\ vouched' = [vouched EXCEPT ![j] = local[j]]
        /\ Goto(j, "review") /\ UNCHANGED cut
     \/ j \notin pull /\ Ends(j) /\ UNCHANGED vouched
  /\ UNCHANGED <<repository, remote, pull>>

-----------------------------------------------------------------------------
(* What cuts a run off. *)

\* git worktree add, killed: before anything, with the branch only, with a
\* directory it will not use again, or in the middle of writing the files, the
\* rest of which git then reports as deleted.
HalfCheckout(j) ==
  /\ tree[j] = "none"
  /\ local' = [local EXCEPT ![j] = StartingPoint(j)]
  /\ \E left \in {"none", "broken", "cut"} :
       /\ tree' = [tree EXCEPT ![j] = left]
       /\ dirty' = IF left = "cut" THEN dirty \cup {j} ELSE dirty

\* A command fails, and git removes what it had begun; or the process dies, or
\* a timeout kills the command.
CutOff(j) ==
  /\ ~In(j, "idle")
  /\ \/ In(j, "checkout") /\ HalfCheckout(j)
     \/ UNCHANGED <<tree, local, dirty>>
  /\ \/ In(j, "cloning") /\ cache = "cut" /\ cache' = "none"
     \/ UNCHANGED cache
  /\ Ends(j)
  /\ UNCHANGED <<known, github>>

-----------------------------------------------------------------------------
(* Humans on GitHub. *)

\* A commit on top of the generated branch.
HumanPushes(j) ==
  /\ <<"push", j>> \in Humans /\ remote[j] # None
  /\ \E c \in Commits : New(c) /\ remote' = [remote EXCEPT ![j] = @ \cup {c}]
  /\ UNCHANGED <<repository, pull, vouched, cut, run>>

\* The pull request is closed and its branch deleted.
HumanDeletes(j) ==
  /\ <<"delete", j>> \in Humans /\ remote[j] # None
  /\ remote' = [remote EXCEPT ![j] = None]
  /\ pull' = pull \ {j}
  /\ vouched' = [vouched EXCEPT ![j] = {}]
  /\ UNCHANGED <<repository, cut, run>>

\* A branch of the generated name that the job knows nothing of.
Orphan(j) ==
  /\ <<"orphan", j>> \in Humans /\ remote[j] = None /\ local[j] = None
  /\ \E c \in Commits : New(c) /\ remote' = [remote EXCEPT ![j] = {c}]
  /\ UNCHANGED <<repository, pull, vouched, cut, run>>

-----------------------------------------------------------------------------
RunStep(j) ==
  \/ Start(j) \/ FindCache(j) \/ Clone(j) \/ Cloned(j) \/ Fetch(j) \/ Checkout(j)
  \/ Implement(j) \/ Commit(j) \/ Compare(j) \/ Guard(j) \/ Push(j) \/ OpenPull(j)
  \/ Review(j) \/ Repair(j) \/ RepairCommit(j) \/ RepairPush(j) \/ Evidence(j)

WorkspaceNext ==
  \/ \E j \in Jobs : RunStep(j) \/ CutOff(j)
  \/ \E j \in Jobs : HumanPushes(j) \/ HumanDeletes(j) \/ Orphan(j)

WorkspaceSpec == WorkspaceInit /\ [][WorkspaceNext]_workspaceVars

-----------------------------------------------------------------------------
(* Properties. *)

BeforeCheckout == {"idle", "cache", "clone", "cloning", "fetch", "checkout"}
Phases ==
  BeforeCheckout \cup
    {"implement", "commit", "compare", "guard", "push", "open",
     "review", "repair", "repairCommit", "repairPush", "evidence"}
RunRecord ==
  [pc : Phases, reviewed : BOOLEAN, adopted : BOOLEAN, matches : BOOLEAN,
   repairs : 0..MaxRepairs]

CloneOK ==
  /\ cache \in {"none", "cut", "ready"}
  /\ known \in [Jobs -> Branch] /\ local \in [Jobs -> Branch]
  /\ tree \in [Jobs -> {"none", "broken", "cut", "ready"}]
  /\ dirty \subseteq Jobs

GitHubOK ==
  /\ remote \in [Jobs -> Branch]
  /\ vouched \in [Jobs -> SUBSET Commits]
  /\ pull \subseteq Jobs /\ cut \subseteq Jobs

RunsOK == run \in [Jobs -> RunRecord]

InWorktree(j) ==
  /\ run[j].pc \notin BeforeCheckout => tree[j] \in {"cut", "ready"}
  /\ tree[j] \in {"cut", "ready"} => local[j] # None

\* The clone, the worktrees, the branches and the runs keep their types, and a
\* run works in a worktree that exists and has its branch.
WorkspaceTypeOK == CloneOK /\ GitHubOK /\ RunsOK /\ \A j \in Jobs : InWorktree(j)

\* Whoever else pushes, and whenever runs are cut off and repeated, a commit
\* leaves the generated branch only when a human deletes the branch.
NothingOverwritten ==
  [][\A j \in Jobs : remote'[j] # None => Content(remote[j]) \subseteq remote'[j]]_workspaceVars

\* Work is never lost in the worktree: later runs go on from the commits and
\* the uncommitted changes of earlier ones.
WorkKept ==
  [][\A j \in Jobs :
       /\ Content(local[j]) \subseteq Content(local'[j])
       /\ j \in dirty \ dirty' => Content(local'[j]) # Content(local[j])]_workspaceVars

\* docs/architecture.md: "an existing remote branch is accepted only when its
\* SHA matches the preserved worktree HEAD": a pull request is opened only on a
\* branch that holds all the work it describes.
PullHoldsWork ==
  [][\A j \in pull' \ pull : local[j] \subseteq Content(remote[j])]_workspaceVars

\* What validation evidence or a clean review on the pull request is about is
\* in the pull request, unless a run was cut off between a commit and its push
\* and none pushed since: a review then reads commits that are not there.
UnpushedOnlyIfCut ==
  \A j \in Jobs : vouched[j] \subseteq Content(remote[j]) \/ j \in cut
=============================================================================
