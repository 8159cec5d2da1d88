SPECIFICATION Spec
CONSTANTS
  IOs = {i1, i2, i3}
  None = None
INVARIANTS
  IInv
PROPERTIES
  EventsReachTheirIO
CHECK_DEADLOCK FALSE
