CONSTANTS
  Searches <- MCSearches
  Schedules <- MCSchedules
  Days <- MCDays
  Minutes <- MCMinutes
  SameSpot <- MCSameSpot
  MaxOptions <- MCMaxOptions
  AmbiguityGap <- MCAmbiguityGap
  Inflections <- MCInflections
  Misspellings <- MCMisspellings
  TypeHints <- MCTypeHints
SPECIFICATION ResultsSpec
INVARIANT NothingVanishesSilently
INVARIANT ReliablePointsOnly
INVARIANT AnchorIsNeverGuessed
INVARIANT HoursAreExact
\* A question is answered once.
CHECK_DEADLOCK FALSE
