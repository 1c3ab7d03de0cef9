CONSTANTS
  Groups = {g1, g2}
  NNfes = 2
  MaxChanges = 4
SPECIFICATION Spec
INVARIANTS HandlesInv MirroringFollowsLinks ClosesWhatItOpened
PROPERTIES Stops
CHECK_DEADLOCK FALSE
