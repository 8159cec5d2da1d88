CONSTANTS
  MaxRequests = 5
  Malformed = TRUE
  None = None
SPECIFICATION FairSpec
INVARIANT IInv
INVARIANT RepliesMatch
INVARIANT NoEventAfterFree
PROPERTY CommandsAnswered
CHECK_DEADLOCK FALSE
