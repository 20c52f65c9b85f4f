CONSTANTS
  MaxLen = 3
  MaxOffset = 4
SPECIFICATION Spec
INVARIANTS
  RangeIsRead
  ThrowsOnlyIfResized
PROPERTIES
  EveryReadEnds
