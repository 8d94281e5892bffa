CONSTANTS
  t1 = t1
  t2 = t2
  Threads = {t1}
  PIPE_BUF = 48
  Caps <- MCCaps
  IdentLen = 4
  MsgLens = {20}
  Files <- MCFiles
  MaxCalls = 1
  MaxTime = 2
  Requires = {0, 2}
  LogVerbose = 1
  LogSilent = FALSE
  Dumps = {}
  B16BUF = 289
SPECIFICATION Spec
INVARIANTS
  MsgConfined
CHECK_DEADLOCK FALSE
