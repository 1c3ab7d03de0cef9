CONSTANTS
  N = 3
  HasCommand = {1, 3}
  MaxAttempts = 2
SPECIFICATION SupervisorSpec
INVARIANTS SupervisorTypeOK GivesUpExactlyOnce
PROPERTIES DeadServiceIsStarted StopsWhenTold
CHECK_DEADLOCK FALSE
