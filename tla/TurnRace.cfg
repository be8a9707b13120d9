\* A schedule that waits for the lock while its turn falls due.
CONSTANTS
  Message = {m1, m2}
  Worker = {w1}
  Debounce = 1
  MaxWait = 2
  Lease = 1
  MaxAge = 1
  MaxFailures = 0
  Free = Free
  Other = Other
  NoTurn = NoTurn
SPECIFICATION Spec

INVARIANTS NoMessageLeftBehind
CHECK_DEADLOCK FALSE
