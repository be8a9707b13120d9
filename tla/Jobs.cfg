\* Campaigns: one recipient, two jobs, one operator at a time.  Reviews: two complaints of
\* one lesson, two supervisors.
CONSTANTS
  Recipient = {r1}
  Job = {j1, j2}
  Operator = {o1}
  Hook = {h1}
  Attempts = 2
  MaxFailures = 1
  Complaint = {f1, f2}
  Lesson = {l1}
  Supervisor = {s1, s2}
  DailyLimit = 1
  PausedAt = 2
  NoComplaint = NoComplaint
  NoLesson = NoLesson
  MaxAccidents = 1
SPECIFICATION JobsSpec
SYMMETRY Symmetric
INVARIANTS AtMostOnce SentIsTrue 
PROPERTIES DecisionsStand
CHECK_DEADLOCK FALSE
