SPECIFICATION Spec
CONSTANTS
  k1 = k1  p1 = p1  p2 = p2  o1 = o1  o2 = o2
  t1 = t1  t2 = t2  j1 = j1
  Jobs = {j1}
  Keys = {k1}
  Providers = {p1, p2}
  Owners = {o1, o2}
  Routes <- MCRoutes
  Contents = {v1}
  Convs = {}
  None = None
  GlobalLimit = 1
  ProviderLimit <- MCProviderLimit
  AttemptCap = 0
  LegacyAttempts = {}
  Threads = {t1, t2}
  ProcessOf <- MCProcessOf
  Faults = {}
  Comments = {1, 2}
  IssueOf <- OneIssue
  CommandOf <- PauseResume
  Handlers = {t1}
  FirstLabels <- Required
  Reviewing <- SomeReviewer
  HumanCloses = FALSE
  Outcomes = {"pr-open"}
  ApplyCap = 2
INVARIANTS AppliedOnce
