SPECIFICATION Spec
CONSTANTS
  w = w
  e = e
  t = t
  Null = Null
  Calls = {w, e, t}
  Kind <- MCKind
  Deadline <- MCDeadline
  MaxTime = 2
  ThreadCount = 2
INVARIANTS TypeOK NoEarlyReturn DeadCancelOnlyAfterExpiry StopReachesTimer OnlyEventWaitsLeft
PROPERTIES EventReturned LaunchReturns
CHECK_DEADLOCK FALSE
