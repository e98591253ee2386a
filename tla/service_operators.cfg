SPECIFICATION Spec
CONSTANTS
  k1 = k1  k2 = k2  p1 = p1  o1 = o1  o2 = o2  w1 = w1  w2 = w2
  t1 = t1  t2 = t2  c1 = c1  c2 = c2  c3 = c3
  Jobs = {j1}
  Keys = {k1, k2}
  Providers = {p1}
  Owners = {o1}
  Routes <- PlainRoute
  Contents = {v1, v2}
  Convs = {c1, c2}
  None = None
  GlobalLimit = 2
  ProviderLimit <- MCProviderLimit
  AttemptCap = 3
  LegacyAttempts = {}
  Workers = {w1}
  OwnerOf <- OneProcess
  ReviewConv = c1
  MaxAttempts = 2
  MaxCorrections = 0
  MaxRepairs = 0
  Faults = {"github", "unexpected"}
  Threads = {t1}
  ProcessOf <- OneProcessThreads
  Loops = {t1}
  Enqueued = {}
  CommandsIn = {"pause", "resume", "cancel"}
  Edits = {"content"}
  Reports = TRUE
  Found = {"nothing"}
INVARIANTS SpecificationFrozen
PROPERTIES RestartsOnlyOnRequest
CHECK_DEADLOCK FALSE
