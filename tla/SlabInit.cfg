CONSTANTS
  W = 4
  Total = 4
  MaxHeld = 4
  FromSlabInit = TRUE
SPECIFICATION Spec
INVARIANT
  FreeListExact
