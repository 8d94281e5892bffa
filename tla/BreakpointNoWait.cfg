CONSTANTS
  b1 = b1
  b2 = b2
  W = 2
  Addr <- MCAddr
  Text <- MCText
  Bps <- MCBps
  BpAddr <- MCBpAddr
  Junk <- MCJunk
  WaitsForStop = FALSE
  DisablesOnlyEnabled = TRUE
  DisablesBeforeDetach = FALSE
  MaxRuns = 3
SPECIFICATION Spec
INVARIANTS
  OtherBytesIntact
CHECK_DEADLOCK FALSE
