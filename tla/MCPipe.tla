------------------------------- MODULE MCPipe --------------------------------
EXTENDS Pipe

\* Processes and tables are interchangeable.
PipeSymmetry == Permutations(Proc) \cup Permutations(Table)
==============================================================================
