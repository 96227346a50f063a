SPECIFICATION FairSpec
CONSTANTS
  e1 = e1
  e2 = e2
  e3 = e3
  Events = {e1, e2, e3}
  Rounds = 1
  Stop = Stop
  Nobody = Nobody
INVARIANTS TypeOK NothingOutlivesMonitor WaitersAreCancelled
  StopClosesStream ClosesAnswered
PROPERTIES EndedReturns StopReturns
\* The bot may rest after the monitor, and a fault stops the process.
CHECK_DEADLOCK FALSE
