\* A capture whose bytes a dead invocation left half-written is chained as evidence: the
\* collector's promise that a retry reuses "the untouched earlier bytes" is refuted.
SPECIFICATION Spec
CONSTANTS
  g1 = g1
  None = None
  GameIds = {g1}
  Tipoffs <- MCTipoffs
  CUTOFFS <- OneCutoff
  CUTOFF_WINDOW = 1
  POLL_HORIZON_DAYS = 2
  Slots = 1
  DayLength = 2
  MaxTime = 4
  MaxChanges = 0
  MaxCrashes = 1
INVARIANTS
  EvidenceIsWhole
