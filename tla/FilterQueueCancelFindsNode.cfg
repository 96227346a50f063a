SPECIFICATION Spec
CONSTANTS
  s1 = s1
  n1 = n1
  n2 = n2
  n3 = n3
  e1 = e1
  e2 = e2
  Nodes = {n1, n3}
  Events = {e1, e2}
  Sweepers = {}
  Null = Null
  Verdict <- MCVerdict
INVARIANT CancelFindsNode
CHECK_DEADLOCK FALSE
