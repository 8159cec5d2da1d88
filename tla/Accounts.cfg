CONSTANTS
  Clients = {c1, c2}
  Threads = {w1, w2}
  Gateway = w1
  Mobiles = {m1}
  Default = m1
  Switches = {s1}
  Statuses = {on, off}
  MaxCalls = 3
  MaxExpired = 1
  Done = Done
  None = None
SPECIFICATION FairSpec
INVARIANT RegistrationsKept
INVARIANT OwnDataOnly
INVARIANT TokensArrive
PROPERTY AnswersCurrent
PROPERTY RequestsAnswered
PROPERTY SwitchesFollow
CHECK_DEADLOCK FALSE
