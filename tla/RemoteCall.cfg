CONSTANTS
  Insns = {"syscall", "other"}
  MmapResults <- MCMmapResults
  MprotectResults <- MCMprotectResults
  MaxSignals = 1
  MaxCalls = 2
SPECIFICATION FairSpec
INVARIANTS
  TypeOK
  RegsOwnedByTracee
PROPERTIES
  CallEnds
CHECK_DEADLOCK FALSE
