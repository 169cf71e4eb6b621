\* One writer that may die: three cohorts, four events, callers' times in any order.
SPECIFICATION Spec
CONSTANTS
  w1 = w1
  Cohorts <- MCCohorts
  ForecastBatches <- PlainForecasts
  ResolutionBatches <- PlainResolutions
  Times <- MCTimes
  Writers = {w1}
  None = None
  MaxEvents = 4
  MaxCrashes = 1
INVARIANTS
  AlwaysAuditable
  PublishedIsPrefix
  ResolutionsFollowForecasts
\* A full ledger stops.
CHECK_DEADLOCK FALSE
