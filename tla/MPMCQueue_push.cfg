SPECIFICATION Spec
CONSTANTS
  Producers = {p1, p2}
  Consumers = {c1}
  Values = {v1}
  Raw = Raw
  Size = 3
PROPERTIES
  PushFailsOnlyWhenFull
