SPECIFICATION Spec
CONSTANTS
  Proc = {p1, p2}
  Mm = {m1, m2}
  Frame = {f1, f2, f3}
  Slot = {s1, s2}
  MaxData = 1
  NoMm = nomm
  NoFrame = noframe
  NoSlot = noslot
  Untouched = untouched
SYMMETRY VmSymmetry
CHECK_DEADLOCK FALSE
PROPERTIES
  ImplementsMemory
