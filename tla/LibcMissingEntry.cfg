CONSTANTS
  Wanted <- MCWanted
  StrPos <- MCStrPos
  SymValue <- MCSymValue
  JunkVals <- MCJunkVals
  MapsChoices <- MCMapsGood
  SecChoices <- MCSecGood
  MaxSections = 3
  StringChoices <- MCStrings
  EntryChoices <- MCEntriesMissing
SPECIFICATION Spec
INVARIANT
  SymbolsResolved
