\* tests/test_ledger.py:106 "complete batches are ... auditable", with a line separator
\* (U+0085, U+2028 or U+2029) in one prompt.
SPECIFICATION Spec
CONSTANTS
  w1 = w1
  Cohorts <- MCCohorts
  ForecastBatches <- BreakingForecasts
  ResolutionBatches <- PlainResolutions
  Times <- MCTimes
  Writers = {w1}
  None = None
  MaxEvents = 4
  MaxCrashes = 1
INVARIANTS
  AlwaysAuditable
\* A full ledger stops.
CHECK_DEADLOCK FALSE
