\* Two fair callers with system notices for one message, while the customer
\* opts out and humans open and resolve handoffs.
CONSTANTS
  Worker = {w1, w2}
  Message = {m1}
  Kind = {"SYSTEM_NOTICE"}
  MaxPart = 0
  Request <- Notices
  Lease = 1
  MaxThrottled = 0
  MaxStamp = 1
  LockMayDrop = FALSE
  Free = Free
  NoTurn = NoTurn
SPECIFICATION NoticesSpec
INVARIANTS BatchesDoNotInterleave HandoffExcludesDispatch
PROPERTIES ClaimsAreSettled LockIsReleased
CHECK_DEADLOCK FALSE
