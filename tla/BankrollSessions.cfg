SPECIFICATION Spec
CONSTANTS
  r1 = r1
  r2 = r2
  r3 = r3
  r4 = r4
  r5 = r5
  k1 = k1
  k2 = k2
  Request = {r1, r2, r3}
  Resets = {r1, r2}
  Key = {k1}
  Odds <- EvenOdds
  None = None
  Stakes = {2}
  ManualReturns <- OddReturns
  Amounts = {3}
  CrashLimit = 0
CHECK_DEADLOCK FALSE
INVARIANT OneActiveSession
