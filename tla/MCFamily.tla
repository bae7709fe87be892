------------------------------ MODULE MCFamily ------------------------------
EXTENDS Family, TLC

\* User processes are interchangeable.
UserSymmetry == Permutations(UserProc)
=============================================================================
