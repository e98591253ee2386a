SPECIFICATION StoreSpec
CONSTANTS
  k1 = k1
  k2 = k2
  p1 = p1
  Jobs = {j1, j2}
  Keys = {k1, k2}
  Providers = {p1}
  Owners = {o1}
  Routes <- MCRoutes
  Contents = {v1}
  Convs = {}
  None = None
  GlobalLimit = 1
  ProviderLimit <- MCProviderLimit
  AttemptCap = 0
  LegacyAttempts = {}
SYMMETRY Symmetry
PROPERTIES LeasesAreLocks
INVARIANTS StoreTypeOK RunningHasLease StoppedHoldsNoLease 
