SPECIFICATION FairSpec
CONSTANTS
  CPU = {c0, c1}
  Task = {t1, t2, t3}
  KThread = {t1}
  InitTask = t1
  NLevel = 2
  MaxSlice <- Slices
  NoCpu = nocpu
INVARIANTS
  RunnableOnce
  OnCpuIsAlive
  QueuesMatchLinks
  SliceLeft
PROPERTIES
  IdleOnlyWhenEmpty
  TopQueueServed
