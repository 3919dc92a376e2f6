\* Two overlapping runs on one match that moves once between two kickoffs; the
\* first kickoff's window closes while that of the second is open.
SPECIFICATION FairSpec
CONSTANTS
  Runs = {r1, r2}
  Steady = {r1}
  Match = {m1}
  Kickoffs = {2, 3}
  Opens = 2
  Closes = 2
  None = None
  MaxTime = 2
  MaxClaims = 2
  MaxMoves = 1
  MaxCrashes = 1
INVARIANTS OneForecastPerKey StoredIsTrue
PROPERTIES ForecastEndsShown
CHECK_DEADLOCK FALSE
