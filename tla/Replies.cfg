\* Two messages, the second of which may be answered by the webhook, two workers that may
\* run a turn twice, one operator, two follow-up tasks; texts of up to two clauses.
CONSTANTS
  u1 = u1
  Agent = {u1}
  User <- OneUser
  Operator = {o1}
  Automation = {w1, w2}
  Worker = {w1, w2}
  Handoff = {h1}
  Inbound = {1, 2}
  Routed = {2}
  Task = {t1, t2}
  Earlier = {"QUOTE"}
  MaxFailures = 1
  None = None
  MaxClauses = 2
  MaxAttempts = 2
SPECIFICATION RepliesSpec
SYMMETRY Symmetric
INVARIANTS OneOpenTask PromisesAreBacked OnlyAuthorizedTerms PriceIsAnswered PromisesAreRecorded
CHECK_DEADLOCK FALSE
