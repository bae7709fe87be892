------------------------------- MODULE MCMbox -------------------------------
EXTENDS Mbox, TLC

\* Processes are interchangeable.
ProcSymmetry == Permutations(Proc)
=============================================================================
