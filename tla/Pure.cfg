SPECIFICATION Spec
INVARIANTS
  ClassAgnostic
  FoundIsOccurrence
  BaseIsLoadBias
  GoodLibcAccepted
  LibcBaseIsBias
  JumpEncodes
  ZeroBasedClamped
  OneBasedClamped
  FreeListExact
  WriteConfined
  BufferConfined
  RoundTrip
  PokeUndoable
  PeekStrSound
  AnchorClamps
  LogTypeOK
  LineWellFormed
  B16Complete
  BreakpointTypeOK
  TextIntact
  TrapStopNamesBreakpoint
  NoTrapKill
PROPERTY
  ImplementsRemoteCallAbs
