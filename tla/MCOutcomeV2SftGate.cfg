\* Two candidates, four commands that overlap, one edit or death.
SPECIFICATION Spec
CONSTANTS
  g1 = g1
  g2 = g2
  h1 = h1
  h2 = h2
  Content <- MCContent
  Started <- MCStarted
  Editable = {"code", "runLock", "experiment", "rows", "cohort", "tabularReport", "calibration", "answers", "prompts", "records", "forecasts"}
  Policy <- MCPolicy
  Answered = {"sharp", "failed"}
  Clock = {1, 2}
  Absent = Absent
  Torn = Torn
  MaxBusy = 2
  MaxFaults = 1
INVARIANTS
  SealIsOneCandidate
  ReportIsOfNewGames
  EverySeasonIsWon
PROPERTIES
  LocksAreFinal
