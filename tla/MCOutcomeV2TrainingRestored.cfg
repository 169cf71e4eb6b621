\* One invocation over nineteen datasets; the snapshot pack is edited and put back meanwhile.
SPECIFICATION Spec
CONSTANTS
  g1 = g1
  g2 = g2
  e1 = e1
  e2 = e2
  Questions = {g1, g2, e1, e2}
  Offset = 1
  SeasonAt <- MCSeasonAt
  Swapped = Swapped
  Invocations = {i1}
  Builds <- MCBuilds
  Honest <- MCHonest
  Dataset <- MCDataset
  ActionTimes = {21}
  Minimum <- MCMinimum
  Batches = 2
  Reviews = {TRUE}
  Absent = Absent
  Torn = Torn
  Editable = {"pack"}
  MaxFaults = 2
INVARIANTS
  RightsCoverWhatIsTrained
\* Every invocation ends.
CHECK_DEADLOCK FALSE
