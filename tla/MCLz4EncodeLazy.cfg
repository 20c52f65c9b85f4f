CONSTANTS
  Nibble = 2
  MinMatch = 3
  Slack = 2
  Alphabet = {0, 1}
  MaxInput = 12
  Caps = {20}
  LastLiterals = 2
  MfLimit = 5
  MaxOffset = 6
  Attempts = 8
  LazyLength = 6
  U32 = 1000
  Buckets = {0, 1}
  Hash <- MCHash
SPECIFICATION EncSpec
CHECK_DEADLOCK FALSE
INVARIANTS
  LazyMatchEmitted
