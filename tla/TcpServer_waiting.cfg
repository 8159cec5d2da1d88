CONSTANTS
  Clients = {c1, c2}
  Readers = {r1}
  Workers = {w1, w2}
  Fds = {1, 2}
  MaxRequests = 2
  Hasty = {}
  InSize = 2
  OutSize = 2
  QueueSize = 2
  None = None
  MaxLoad = 5
SPECIFICATION Spec
INVARIANT IInv
INVARIANT RepliesToTheirClient
PROPERTY OneWriter
INVARIANT RepliesInOrder
SYMMETRY Symmetry
CONSTRAINT LoadBound
CHECK_DEADLOCK FALSE
