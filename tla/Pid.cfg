SPECIFICATION PidSpec
CONSTANTS
  LcpuCount = 2
  MaxProcess = 6
  MaxPid = 9
INVARIANTS
  UniquePid
  WindowIsFree
