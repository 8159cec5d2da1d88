SPECIFICATION FairSpec
CONSTANTS
  Producers = {p1, p2}
  Consumers = {c1, c2}
  Values = {v1, v2}
  Raw = Raw
  Size = 3
CONSTRAINT UntilOverrun
INVARIANTS
  AccessesValid
  IInv
PROPERTIES
  OverrunTakesALap
  ImplementsFifo
  ClaimsComplete
