CONSTANTS
  NNfes = 2
  MaxNfes = 3
  MaxFaults = 2
  MaxChanges = 1
SPECIFICATION Spec
INVARIANTS LogInv FaultIsReported PidfileIsHonest
CHECK_DEADLOCK FALSE
