SPECIFICATION Spec
CONSTANTS
  Proc = {p1, p2, p3}
  Nobody = nobody
INVARIANTS
  BoxHoldsSenders
PROPERTIES
  SentMeansTakenOnce
  SendEnds
CHECK_DEADLOCK FALSE
