\* Two forecasts, one of which the table refuses, in both modes, with two faults
\* or shutdowns.
SPECIFICATION Spec
CONSTANTS
  Records = 2
  Kickoff <- MCKickoff
  Conflicting = {1}
  Modes = {"spool", "database"}
  MaxQueue = 2
  MaxConcurrent = 1
  MaxAttempts = 2
  SpoolLimit = 2
  RetryMargin = 0
  ShutdownMs = 1
  None = None
  MaxTime = 2
  MaxFaults = 2
INVARIANTS NothingLost WithinBounds OneJobPerForecast
PROPERTIES InTime DrainIsTrue IsLog
CHECK_DEADLOCK FALSE
