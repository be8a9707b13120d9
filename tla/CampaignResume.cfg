\* A campaign that is paused and resumed while a job is sending.
CONSTANTS
  Recipient = {r1}
  Job = {j1, j2}
  Operator = {o1}
  Hook = {h1}
  Attempts = 2
  MaxFailures = 0
SPECIFICATION Spec
INVARIANTS ReceiverIsHumanManaged
CHECK_DEADLOCK FALSE
