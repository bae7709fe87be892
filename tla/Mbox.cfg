SPECIFICATION Spec
CONSTANTS
    Proc = {p1, p2, p3}
    MaxSlots = 1
    Size = {1, 2}
    Timeout = {0, 2}
    MaxMsg = 3
    NoMsg = NoMsg
CHECK_DEADLOCK FALSE
SYMMETRY ProcSymmetry
INVARIANTS
    MessageInOnePlace
    ReusedOnlyWhenEmpty
    NobodyStuck
