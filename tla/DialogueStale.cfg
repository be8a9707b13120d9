\* A customer who may write again before he is answered, and a run that may die.
CONSTANTS
  Turns = {t1, t2}
  Days = 1
  PerDay = 3
  MaxTries = 2
  MaxCrashes = 1
  AnswersArrive = FALSE
SPECIFICATION HastyTalkSpec
INVARIANTS OperationsAreAskedFor
CHECK_DEADLOCK FALSE
