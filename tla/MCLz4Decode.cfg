CONSTANTS
  Nibble = 2
  MinMatch = 4
  Slack = 1
  MaxSrc = 6
  Caps = {2, 8, 14}
  MaxPrefix = 2
  Usize = 15
  Unset = Unset
SPECIFICATION Spec
CHECK_DEADLOCK FALSE
INVARIANTS
  TypeOK
  SizeBound
  DecodedIsDefined
  WindowKept
  TailUntouched
  TrapsOnlyBeyondUsize
