SPECIFICATION Spec
CONSTANTS
  Capacity = 4
  Bytes = {a, b}
  MaxChunk = 4
INVARIANTS
  ViewsAgree
PROPERTIES
  ImplementsByteQueue
