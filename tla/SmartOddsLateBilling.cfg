SPECIFICATION Spec
CONSTANTS
  c1 = c1
  c2 = c2
  c3 = c3
  k1 = k1
  k2 = k2
  None = None
  Call <- Calls3
  Key <- TwoKeys
  Input <- RolloverInputs
  MonthlyLimit = 3
  ReserveCredits = 0
  LeaseMs = 1
  FetchTimeoutMs = 1
  WaitMs = 1
  EssentialAgeMs = 1
  MonthMs = 2
  MaxCredits = 2
  MaxTime = 2
  MaxResets = 1
  InitialUse = 0
  HeaderSets <- AllHeaders
  LateBilling = TRUE
INVARIANTS AvailableIsConservative
SYMMETRY CallSymmetry
CHECK_DEADLOCK FALSE
