SPECIFICATION Spec
CONSTANTS
  Senders = {r1, r2}
  Workers = {w1, w2}
  Letters = {l1, l2, l3}
  Size = 3
  None = None
INVARIANTS
  NoLetterStranded
PROPERTIES
  LettersCalled
  StopReturns
CHECK_DEADLOCK FALSE
