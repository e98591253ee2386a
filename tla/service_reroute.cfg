SPECIFICATION Spec
CONSTANTS
  k1 = k1  k2 = k2  p1 = p1  o1 = o1  o2 = o2  w1 = w1  w2 = w2
  t1 = t1  t2 = t2  c1 = c1  c2 = c2  c3 = c3
  Jobs = {j1}
  Keys = {k1, k2}
  Providers = {p1}
  Owners = {o1}
  Routes <- ReviewedKeys
  Contents = {v1}
  Convs = {c1, c2}
  None = None
  GlobalLimit = 2
  ProviderLimit <- MCProviderLimit
  AttemptCap = 2
  LegacyAttempts = {1}
  Workers = {w1, w2}
  OwnerOf <- OneProcess
  ReviewConv = c1
  MaxAttempts = 1
  MaxCorrections = 0
  MaxRepairs = 0
  Faults = {"poll"}
  Threads = {t1}
  ProcessOf <- OneProcessThreads
  Loops = {t1}
  Enqueued = {j1}
  CommandsIn = {"retry"}
  Edits = {"route", "merge"}
  Reports = FALSE
  Found = {"nothing"}
PROPERTIES AttemptsKept ImplementsStore
SYMMETRY WorkerSymmetry
CHECK_DEADLOCK FALSE
