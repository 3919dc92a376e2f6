\* Two concurrent settlement passes that may die, and a corrected
\* result: every bet whose result is known ends.
SPECIFICATION FairSpec
CONSTANTS
  home = home  away = away  lost = lost  won = won  missing = missing
  Family = {A}
  Match = {m1}
  Selection = {home, away}
  Outcome = {lost, missing}
  Odds <- MCOdds
  Verdict <- MCVerdict
  None = None
  OpeningCents = 100
  BasisPoints = {500}
  Percents = {5}
  ManualStakes = {5}
  Settlers = {p, q}
  Kickoffs = {1, 2}
  FirstPolicy = 2
  MaxTime = 2
  MaxBets = 2
  MaxBatch = 1
  MaxChanges = 1
INVARIANTS SettledXorCancelled
PROPERTIES EveryWagerEnds
CHECK_DEADLOCK FALSE
