CONSTANTS
  MapsChoices <- MCMapsChoices
  PathParts <- MCPathParts
  Addrs = {4096, 12288, 70000}
  JunkVals = {0, 7777}
  IntBits = 8
  JmpEnds = {0, 10, 132, 133, 134}
SPECIFICATION Spec
INVARIANTS
  CaveIsAnonymous
