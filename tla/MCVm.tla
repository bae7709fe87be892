-------------------------------- MODULE MCVm ---------------------------------
EXTENDS Vm, TLC

\* Processes, address spaces, frames and swap entries are interchangeable.
VmSymmetry ==
    Permutations(Proc) \cup Permutations(Mm) \cup Permutations(Frame) \cup Permutations(Slot)
==============================================================================
