SPECIFICATION KernFairSpec
CONSTANTS
  CPU = {c0, c1}
  Task = {t1, t2}
  InitTask = t1
  Mm = {m1}
  KernMm = boot
  Pte = {v1, v2}
  NoEntry = none
INVARIANTS
  BigKernelLock
  OneCpuPerProcess
  TlbCoherence
PROPERTIES
  ShootdownReturns
