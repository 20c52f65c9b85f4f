CONSTANTS
  MaxLen = 4
  MaxOffset = 4
  MaxPosition = 2
  MaxSignals = 1
  Views <- MCViews
  MaxDepth = 2
SPECIFICATION ViewSpec
INVARIANTS
  TypeOK
  ReadsItsWindow
PROPERTIES
  IsRangeRead
  EveryReadEnds
