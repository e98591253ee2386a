SPECIFICATION WorkspaceSpec
CONSTANTS
  j1 = j1
  j2 = j2
  Jobs = {j1, j2}
  Commits = {1, 2}
  None = None
  MaxRepairs = 2
  Humans <- BothTouched
INVARIANTS WorkspaceTypeOK UnpushedOnlyIfCut
PROPERTIES  WorkKept PullHoldsWork
