\* Two games of one season; clocks are off by one; one death, bad run or moved game.
SPECIFICATION Spec
CONSTANTS
  a1 = a1
  a2 = a2
  Games = {a1, a2}
  Seasons = {1}
  SeasonOf <- MCSeasonOf
  Input <- MCInput
  FirstCutoff <- MCFirstCutoff
  Movable = {a2}
  GameLength = 2
  Batches = {x1, x2}
  Plan = Plan
  NoFile = NoFile
  Torn = Torn
  Deadlines = {1, 2}
  MaxTime = 7
  MaxRuns = 3
  Skew = 1
  MaxFaults = 1
SYMMETRY BatchSymmetry
INVARIANTS
  AggregatedForecastsPrecedeCutoffs
  CommitmentsPrecedeInputs
  BaselineKnowsWhatForecastsKnew
\* The clock stops at its bound.
CHECK_DEADLOCK FALSE
