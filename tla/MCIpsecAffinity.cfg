CONSTANTS
  MaxThreads = 16
SPECIFICATION AffinitySpec
INVARIANTS WorkersApart EveryThreadPlaced
CHECK_DEADLOCK FALSE
