SPECIFICATION Spec
CONSTANTS
  s1 = s1
  n1 = n1
  n2 = n2
  n3 = n3
  e1 = e1
  e2 = e2
  Nodes = {n1, n2, n3}
  Events = {e1, e2}
  Sweepers = {}
  Null = Null
  Verdict <- MCVerdict
INVARIANTS TypeOK MutualExclusion ListIntact SingleResume NoLostWakeup StopReachesWaiter EventConserved
\* The calls and events of the instance run out, and a fault stops the process.
CHECK_DEADLOCK FALSE
