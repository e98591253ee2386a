SPECIFICATION StatusLiveSpec
CONSTANTS
  o1 = o1  o2 = o2  t1 = t1  t2 = t2
  Jobs = {j1}
  Owners = {o1, o2}
  Threads = {t1, t2}
  ProcessOf <- MCProcessOf
  CommentIds = {d1, d2}
  None = None
  Faults = {"github", "crash", "delete"}
INVARIANTS StatusTypeOK OneStatusComment OneStateLabel
PROPERTIES LockFreed
