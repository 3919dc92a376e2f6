\* A queue of one: the forecast the table refuses competes for it with the other.
SPECIFICATION FairSpec
CONSTANTS
  Records = 2
  Kickoff <- MCKickoff
  Conflicting = {1}
  Modes = {"spool"}
  MaxQueue = 1
  MaxConcurrent = 1
  MaxAttempts = 2
  SpoolLimit = 2
  RetryMargin = 0
  ShutdownMs = 1
  None = None
  MaxTime = 2
  MaxFaults = 1
PROPERTIES AcceptedEndsStored
CHECK_DEADLOCK FALSE
