\* Two meetings, one of them moved or cancelled after it was made; or one of
\* them, made and then moved or cancelled, through two failures.
CONSTANTS
  Meeting = {1, 2}
  Slot = {1, 2}
  NoSlot = NoSlot
  Op = {1, 2, 3}
  Chat = {c1}
  Scan = {n1}
  Nobody = Nobody
  LeaseOutlivesRun = TRUE
  MaxFailures = 2
SPECIFICATION MCFairSpec
INVARIANTS CalendarAgrees 
PROPERTIES HumansKeepCalendar OperationsSettle
