CONSTANTS
  t1 = t1
  t2 = t2
  Threads = {t1, t2}
  PIPE_BUF = 48
  Caps <- MCCaps
  IdentLen = 4
  MsgLens = {0, 15}
  Files <- MCFiles
  MaxCalls = 1
  MaxTime = 2
  Requires = {0, 2}
  LogVerbose = 1
  LogSilent = FALSE
  Dumps <- MCDumps
  B16BUF = 289
SPECIFICATION Spec
INVARIANTS
  TimestampSinceStart
CHECK_DEADLOCK FALSE
