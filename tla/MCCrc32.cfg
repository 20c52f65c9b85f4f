CONSTANTS
  Width = 32
  ByteBits = 8
  Poly <- MCPoly
  Messages <- MCMessages
SPECIFICATION CrcSpec
INVARIANTS
  ReturnsTheRemainder
CHECK_DEADLOCK FALSE
