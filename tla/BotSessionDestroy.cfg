SPECIFICATION Spec
CONSTANTS
  c1 = c1
  c2 = c2
  c3 = c3
  c4 = c4
  q1 = q1
  q2 = q2
  k1 = k1
  k2 = k2
  Calls = {c1, c2}
  Accounts = {q1, q2}
  Keys = {k1, k2}
  Failures = {"rejected"}
  Overlap = FALSE
  NoId = NoId
  NoKey = NoKey
INVARIANT DestroyEndsSessions
\* The calls of the instance run out and the bot may be destroyed.
CHECK_DEADLOCK FALSE
