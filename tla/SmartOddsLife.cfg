SPECIFICATION FairSpec
CONSTANTS
  c1 = c1
  c2 = c2
  c3 = c3
  k1 = k1
  k2 = k2
  None = None
  Call <- Calls2
  Key <- OneKey
  Input <- LifeInputs
  MonthlyLimit = 2
  ReserveCredits = 1
  LeaseMs = 2
  FetchTimeoutMs = 1
  WaitMs = 1
  EssentialAgeMs = 1
  MonthMs = 100
  MaxCredits = 1
  MaxTime = 4
  MaxResets = 0
  InitialUse = 0
  HeaderSets <- NoHeaders
  LateBilling = FALSE
INVARIANTS UnresolvedHoldsLease InformationalLeavesReserve
PROPERTIES EveryCallEnds CacheNeverGoesBack ResultsAreFinal
CHECK_DEADLOCK FALSE
