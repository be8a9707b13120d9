\* Delivery: two workers race over one two-part reply through crashes, throttling, lost
\* answers, expired leases.  Sale: two transfers, two proofs, two turns, a handler and an
\* operator.
CONSTANTS
  Worker = {w1, w2}
  Message = {m1}
  Kind = {"HERMES_REPLY"}
  MaxPart = 1
  Request <- Replies
  Lease = 1
  MaxThrottled = 1
  MaxStamp = 1
  LockMayDrop = TRUE
  Free = Free
  NoTurn = NoTurn
  Payment = {p1, p2}
  Proof = {f1, f2}
  Turn = {t1, t2}
  Hook = {h1}
  Operator = {o1}
  NoPayment = NoPayment
  Nobody = Nobody
SPECIFICATION MCSpec
SYMMETRY Symmetric
INVARIANTS AtMostOnce LedgerTellsTruth PartsInOrder OneOpenPayment  
PROPERTIES KeepsPromise DecisionIsFinal
CHECK_DEADLOCK FALSE
