\* One game in each canary, two invocations at once, one death, edit or call that ends badly.
\* The study may end: everything is scored, or a death has left it where nothing can go on.
SPECIFICATION Spec
CONSTANTS
  q1 = q1
  q2 = q2
  Procs = {i1, i2}
  Source <- MCSource
  CohortSize = 1
  Versions = {0, 1, 2}
  Listed = {0, 1}
  Responses = {"valid", "invalid", "nothing", "empty"}
  Edits <- MCEdits
  Absent = Absent
  Torn = Torn
  Edited = Edited
  MaxTrained = 2
  MaxFaults = 1
INVARIANTS
  CalledOnce
  SealedIsTheAttempt
  SamplerIsLocked
  SecondFollowsSmoke
  ScoresAreTheSealedRun
SYMMETRY Symmetric
CHECK_DEADLOCK FALSE
