\* Two games, two overlapping invocations, two deaths: safety, refinement, compilation.
SPECIFICATION FairSpec
CONSTANTS
  GameCount = 2
  r1 = r1
  r2 = r2
  Runners <- MCRunners
  None = None
  MaxCrashes = 2
INVARIANTS
  CallsFollowPrompts
  CompiledOutputsAgree
PROPERTIES
  RuntimeSingleAttempt
  EventuallyCompiled
