SPECIFICATION Spec
CONSTANTS
  k1 = k1  k2 = k2  p1 = p1  o1 = o1  o2 = o2  w1 = w1  w2 = w2
  t1 = t1  t2 = t2  c1 = c1  c2 = c2  c3 = c3
  Jobs = {j1}
  Keys = {k1, k2}
  Providers = {p1}
  Owners = {o1, o2}
  Routes <- ReviewedRoute
  Contents = {v1}
  Convs = {c1, c2, c3}
  None = None
  GlobalLimit = 2
  ProviderLimit <- MCProviderLimit
  AttemptCap = 3
  LegacyAttempts = {}
  Workers = {w1, w2}
  OwnerOf <- TwoProcesses
  ReviewConv = c1
  MaxAttempts = 2
  MaxCorrections = 1
  MaxRepairs = 1
  Faults = {"crash", "provider"}
  Threads = {t1, t2}
  ProcessOf <- TwoProcessThreads
  Loops = {t1, t2}
  Enqueued = {j1}
  CommandsIn = {}
  Edits = {}
  Reports = FALSE
  Found = {"nothing"}
INVARIANTS LoopSurvives
CHECK_DEADLOCK FALSE
