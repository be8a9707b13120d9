\* Schedules that finish within the tick they read the clock in.
CONSTANTS
  Message = {m1, m2, m3}
  Worker = {w1}
  Debounce = 1
  MaxWait = 2
  Lease = 1
  MaxAge = 0
  MaxFailures = 1
  Free = Free
  Other = Other
  NoTurn = NoTurn
SPECIFICATION FairSpec
INVARIANTS NoMessageLeftBehind OneJoinableTurn
PROPERTIES EveryMessageConsidered
CHECK_DEADLOCK FALSE
