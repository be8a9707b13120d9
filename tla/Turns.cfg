\* Schedules that may wait a tick for the lock after reading the clock; a customer who reads
\* each answer before he writes again, two days with one slot each.
CONSTANTS
  Message = {m1, m2, m3}
  Worker = {w1, w2}
  Debounce = 2
  MaxWait = 3
  Lease = 1
  MaxAge = 1
  MaxFailures = 1
  Free = Free
  Other = Other
  NoTurn = NoTurn
  Turns = {t1}
  Days = 2
  PerDay = 1
  MaxTries = 3
  MaxCrashes = 0
  AnswersArrive = TRUE
SPECIFICATION TurnsSpec
SYMMETRY Symmetric
INVARIANTS OneTurnPerMessage WaitIsBounded OperationsAreAskedFor
PROPERTIES ProcessedIsFinal
CHECK_DEADLOCK FALSE
