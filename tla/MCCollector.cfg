\* One game that moves, vanishes or appears once, one report slot, one death.
SPECIFICATION Spec
CONSTANTS
  g1 = g1
  None = None
  GameIds = {g1}
  Tipoffs <- MCTipoffs
  CUTOFFS <- OneCutoff
  CUTOFF_WINDOW = 1
  POLL_HORIZON_DAYS = 2
  Slots = 1
  DayLength = 2
  MaxTime = 4
  MaxChanges = 1
  MaxCrashes = 1
INVARIANTS
  IndexFollowsLedger
  CapturesFollowTheFrozenSchedule
  SidecarsAreEvents
PROPERTIES
  SavedIsNotRepeated
