CONSTANTS
  Insns = {"syscall"}
  MmapResults <- MCMmapResults
  MprotectResults <- MCMprotectResults
  MaxSignals = 1
  MaxCalls = 2
SPECIFICATION Spec
INVARIANT ResultIsSyscallResult
CHECK_DEADLOCK FALSE
