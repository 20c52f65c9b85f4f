CONSTANTS
  Nibble = 2
  MinMatch = 3
  Slack = 2
  Alphabet = {0, 1}
  MaxInput = 12
  Caps = {4, 8, 15, 20}
  LastLiterals = 2
  MfLimit = 5
  MaxOffset = 6
  Attempts = 3
  LazyLength = 6
  U32 = 1000
  Buckets = {0, 1}
  Hash <- MCHash
  Windows = 1
  Usize = 1000
  Unset = Unset
SPECIFICATION RoundSpec
CHECK_DEADLOCK FALSE
INVARIANTS
  TypeOK
  MatchIsValid
  NeverTooSmall
  RoundTrip
PROPERTIES
  Termination
