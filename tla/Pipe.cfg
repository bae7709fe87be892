SPECIFICATION Spec
CONSTANTS
  Proc = {p1, p2, p3}
  Table = {t1, t2}
  NFd = 2
  FirstExec = 1
  BufSize = 2
  IobufSize = 3
  ReqLen = {1, 3}
  MaxBytes = 3
  NoTable = notable
SYMMETRY PipeSymmetry
CHECK_DEADLOCK FALSE
INVARIANTS
  NothingFreedInUse
  NobodySleepsInVain
PROPERTIES
  ImplementsChannel
