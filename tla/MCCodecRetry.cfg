CONSTANTS
  MaxChunk = 3
  MaxChunks = 3
  MaxCap = 18
  Heads = {"block", "end", "other"}
SPECIFICATION Spec
INVARIANTS
  Bzip2ExpansionIsBounded
  RetriesGiveTheAnswer
  ErrorsLeaveDst
PROPERTIES
  CallerSettles
CHECK_DEADLOCK FALSE
