SPECIFICATION Spec
CONSTANTS
  Calls <- MCCalls
  Configured <- MCConfigured
  Scenarios <- MCScenarios
  MaxSize = 3
  LegPermits = 2
  Geocodes = 1
  TextBudget = 2
INVARIANTS
  FirstAbleAnswers
  RefusalEndsCall
  WarningsTellThePath
  MetricsAddUp
PROPERTIES
  WalkingIsPaced
  AllCallsEnd
