SPECIFICATION Spec
CONSTANTS
  Threads = {t1, t2}
  Requests = {r1, r2}
  Monitor = m
  Null = Null
INVARIANT OwnDocument
