CONSTANTS
  W = 2
  N = 6
  Text <- MCText
  Bytes = {0, 7}
  Lens = {1, 3}
  BufCap = 6
  AlignedCalls = FALSE
  MaxCalls = 1
SPECIFICATION Spec
INVARIANT
  WriteConfined
CHECK_DEADLOCK FALSE
