CONSTANTS
  Clients = {c1, c2}
  Waiting = {c1}
  Fds = {1, 2}
  MaxRequests = 1
  MaxLoad = 3
  InSize = 2
  OutSize = 2
  None = None
  Other = Other
SPECIFICATION FairSpec
INVARIANT IInv
INVARIANT InputAccounted
PROPERTY BacklogServed
PROPERTY RequestsCalled
CONSTRAINT LoadBound
CHECK_DEADLOCK FALSE
