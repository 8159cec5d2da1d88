SPECIFICATION ThreadSpec
INVARIANTS
  QuitOnItsWay
PROPERTIES
  StopReturns
  RunCompletes
CHECK_DEADLOCK FALSE
