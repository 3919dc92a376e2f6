\* A nightly and a weekly run, three matches a day apart, one of which moves or is
\* corrected; a candidate may replace the release and the release may come back.
SPECIFICATION FairSpec
CONSTANTS
  Runs = {r1, r2}
  Nightly = {r1}
  Version = {v0, v1}
  Initial = v0
  Match = {1, 2, 3}
  FutureTest = {1, 2}
  None = None
  TestSize = 1
  Failures = 2
  ResultDelay = 0
  Fresh = 0
  HealthFor = 4
  Night = 1
  Changing = {1}
  FirstKickoff <- OneADay
  MaxTime = 2
  MaxChanges = 1
  MaxChecks = 3
  MaxDossiers = 2
INVARIANTS OneHistory RollbackEarned
PROPERTIES OutcomesDoNotChoose EndsJudged
CHECK_DEADLOCK FALSE
