SPECIFICATION FairSpec
CONSTANTS
  e1 = e1
  e2 = e2
  e3 = e3
  Events = {e1}
  Rounds = 2
  Stop = Stop
  Nobody = Nobody
PROPERTY CallbacksCancelled
CHECK_DEADLOCK FALSE
