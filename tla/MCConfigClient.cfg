CONSTANTS
  N = 2
  NEntries = 2
SPECIFICATION Spec
INVARIANTS SuccessMeansInstalled NeverHalfInstalled ResourcesInv PrintsWhatItAsked
PROPERTIES Ends
CHECK_DEADLOCK FALSE
