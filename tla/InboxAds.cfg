\* One event of one customer through two scans and two operators; one milestone on its way
\* to Google, two conversion actions of one account, through a change of the settings or a
\* revocation and a failure or crash.
CONSTANTS
  u1 = u1
  Agent = {u1}
  User <- OneUser
  Operator = {o1, o2}
  Automation = {s1, s2}
  Scan = {s1, s2}
  Handoff = {h1}
  Event = {1}
  Media = {1}
  MaxFailures = 1
  ReopenRaces = FALSE
  None = None
  Milestone = {QUALIFIED}
  Started = STARTED
  Touch = {t1}
  Account = {a1}
  ActionId = {x1, x2}
  Preparer = {p1}
  NoTouch = NoTouch
  NoDestination = NoDestination
  MaxClaims = 1
  MaxChanges = 1
  MaxTroubles = 1
SPECIFICATION MCSpec
INVARIANTS OneIsInCharge  CompletedWereRouted OneDestination
PROPERTIES  CompletedIsFinal EveryEventCompletes EveryUploadSettles
CHECK_DEADLOCK FALSE
