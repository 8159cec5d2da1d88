CONSTANTS
  Clients = {c1, c2}
  Hasty = {c2}
  Readers = {r1, r2}
  Workers = {}
  Fds = {1, 2}
  MaxRequests = 2
  InSize = 2
  OutSize = 1
  QueueSize = 2
  None = None
  MaxLoad = 3
SPECIFICATION FairSpec
PROPERTY ConnectionsTaken
PROPERTY RequestsHanded
PROPERTY EndedConnectionsLeave
 
CONSTRAINT LoadBound
CHECK_DEADLOCK FALSE
