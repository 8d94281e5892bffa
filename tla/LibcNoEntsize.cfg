CONSTANTS
  Wanted <- MCWanted
  StrPos <- MCStrPos
  SymValue <- MCSymValue
  JunkVals <- MCJunkVals
  MapsChoices <- MCMapsGood
  SecChoices <- MCSecNoEntsize
  MaxSections = 3
  StringChoices <- MCStrings
  EntryChoices <- MCEntriesAll
SPECIFICATION Spec
INVARIANT
  NoCrash
