SPECIFICATION TwoAttempts
CONSTANTS
  a1 = a1
  a2 = a2
  a3 = a3
  r1 = r1
  r2 = r2
  m1 = m1
  m2 = m2
  None = None
  Attempt = {a1, a2, a3}
  Run = {r1, r2}
  RunOf <- AttemptRun
  Match = {m1}
  Kickoffs = {2, 4}
  Window = 3
  Lease = 2
  MaxTime = 3
  MaxChanges = 1
SYMMETRY Symmetry
CHECK_DEADLOCK FALSE
INVARIANTS TypeOK LeasesNest BusyForOneLease DecidedOnce CompletedIsTrue
PROPERTIES IsExclusive DecidesInTime
