\* Two overlapping invocations over nineteen datasets; one file or the code is edited, or one dies.
SPECIFICATION Spec
CONSTANTS
  g1 = g1
  g2 = g2
  e1 = e1
  e2 = e2
  Questions = {g1, g2, e1, e2}
  Offset = 1
  SeasonAt <- MCSeasonAt
  Swapped = Swapped
  Invocations = {i1, i2}
  Builds <- MCBuilds
  Honest <- MCHonest
  Dataset <- MCDataset
  ActionTimes = {21}
  Minimum <- MCMinimum
  Batches = 2
  Reviews = {TRUE, FALSE}
  Absent = Absent
  Torn = Torn
  Editable = {"training", "pack", "resolutions", "forecasts", "agreement"}
  MaxFaults = 1
INVARIANTS
  NoHindsightIsTrained
  EvaluationIsUntouched
  PaidOnce
PROPERTIES
  HonestEvidenceReachesReview
\* Every invocation ends.
CHECK_DEADLOCK FALSE
