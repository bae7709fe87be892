SPECIFICATION FairSpec
CONSTANTS
  Proc = {p1, p2, p3}
  KSem = {k}
  USem = {u}
  InitValue = 0
  Timeout = {0, 1}
  MaxValue = 1
  NoSem = nosem
INVARIANTS
  TokensConserved
  MutexExclusive
  NoLostWakeup
  QueueOfWaiters
  KernelWaitUndisturbed
  ErrorMeansKilledOrFreed
PROPERTIES
  WaitEnds
