CONSTANTS
  W = 4
  ByteBits = 2
  Anchor = anchor
  Vals = {a, b}
  MaxIdx = 3
  MaxArgs = 2
SPECIFICATION Spec
INVARIANT
  ElementsAfterAnchor
