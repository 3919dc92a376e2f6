\* One family, two matches, three bets by any writers under any policies: the
\* balances, the caps and the refinement of the wallet.
SPECIFICATION Spec
CONSTANTS
  home = home  away = away  lost = lost  won = won  missing = missing
  Family = {A}
  Match = {m1, m2}
  Selection = {home, away}
  Outcome = {lost}
  Odds <- MCOdds
  Verdict <- MCVerdict
  None = None
  OpeningCents = 100
  BasisPoints = {50, 300}
  Percents = {1, 5}
  ManualStakes = {95}
  Settlers = {p}
  Kickoffs = {1}
  FirstPolicy = 1
  MaxTime = 1
  MaxBets = 3
  MaxBatch = 2
  MaxChanges = 0
INVARIANTS LedgerIsJournal CommittedIsPending ExposureCap OneStakePerSelection
PROPERTIES IsWallet
CHECK_DEADLOCK FALSE
