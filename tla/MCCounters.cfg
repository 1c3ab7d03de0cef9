CONSTANTS
  Polls = 2
  MaxTries = 2
  NRows = 2
  NCols = 1
SPECIFICATION Spec
INVARIANTS ChannelInv AnswersMatch
PROPERTY Ends
CHECK_DEADLOCK FALSE
