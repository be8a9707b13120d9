CONSTANTS
  u1 = u1
  Agent = {u1}
  User <- OneUser
  Operator = {o1, o2}
  Automation = {s1, s2}
  Scan = {s1, s2}
  Handoff = {h1}
  Event = {1}
  Media = {1}
  MaxFailures = 1
  ReopenRaces = TRUE
  None = None
SPECIFICATION Spec
INVARIANT OneIsInCharge
CHECK_DEADLOCK FALSE
