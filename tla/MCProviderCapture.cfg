\* Every command is made once: when all have ended and time and faults are spent, nothing is left to do.
CHECK_DEADLOCK FALSE
SPECIFICATION CaptureSpec
SYMMETRY CommandSymmetry
CONSTANTS
  c1 = c1
  c2 = c2
  registered = registered
  unregistered = unregistered
  target = target
  outside = outside
  Absent = Absent
  Torn = Torn
  Commands <- MCCommands
  Requests <- MCRequests
  Registered <- MCRegistered
  Names <- MCNames
  Targets <- MCTargets
  MaxTime = 2
  MaxFaults = 2
INVARIANTS
  ReportedIsKept
  TargetsAreWhole
  BytesPrecedeRetrievedAt
