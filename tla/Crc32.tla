------------------------------- MODULE Crc32 -------------------------------
(***************************************************************************)
(* imageforge_crc32 of native/src/imageforge_core.rs, called by the JNI    *)
(* function crc32: the reflected, table-free loop, one bit per step.  A    *)
(* register is its bits, the lowest first.                                 *)
(***************************************************************************)
EXTENDS Integers, Sequences

CONSTANTS
  Width,     \* the bits of the register, 32
  ByteBits,  \* the bits of a byte, 8
  Poly,      \* 0xEDB88320, the lowest bit first
  Messages   \* bound: the byte arrays summed, each byte its bits

ASSUME CrcAssumption ==
  /\ Width \in Nat \ {0} /\ ByteBits \in 1 .. Width
  /\ Poly \in [1 .. Width -> {0, 1}]
  /\ Messages \subseteq Seq([1 .. ByteBits -> {0, 1}])

VARIABLES
  data,
  crc,
  pos,   \* the bytes taken
  bits,  \* the bits of the last one still to shift
  phase  \* "running" or "returned"

crcVars == << data, crc, pos, bits, phase >>

Ones == [k \in 1 .. Width |-> 1]
Zeros == [k \in 1 .. Width |-> 0]
Xor(a, b) == [k \in 1 .. Width |-> (a[k] + b[k]) % 2]
Not(a) == Xor(a, Ones)

(* A byte widened to the register: it meets the lowest bits. *)
Widened_High(byte) == [k \in 1 .. Width |-> IF k > Width - ByteBits THEN byte[k - Width + ByteBits] ELSE 0]
Widened(byte) == [k \in 1 .. Width |-> IF k <= ByteBits THEN byte[k] ELSE 0]
ShiftRight(a) == [k \in 1 .. Width |-> IF k < Width THEN a[k + 1] ELSE 0]

(* For an empty array the JNI function answers itself, with 0. *)
CrcInit ==
  /\ data \in Messages
  /\ crc = IF data = << >> THEN Zeros ELSE Ones
  /\ pos = 0 /\ bits = 0
  /\ phase = IF data = << >> THEN "returned" ELSE "running"

TakeByte ==
  /\ phase = "running" /\ bits = 0 /\ pos < Len(data)
  /\ crc' = Xor(crc, Widened(data[pos + 1]))
  /\ pos' = pos + 1
  /\ bits' = ByteBits
  /\ UNCHANGED << data, phase >>

(* The mask is all ones exactly if the lowest bit is set. *)
ShiftBit ==
  /\ phase = "running" /\ bits > 0
  /\ crc' = Xor(ShiftRight(crc), IF crc[1] = 1 THEN Poly ELSE Zeros)
  /\ bits' = bits - 1
  /\ UNCHANGED << data, pos, phase >>

Return ==
  /\ phase = "running" /\ bits = 0 /\ pos = Len(data)
  /\ crc' = Not(crc)
  /\ phase' = "returned"
  /\ UNCHANGED << data, pos, bits >>

CrcNext == TakeByte \/ ShiftBit \/ Return
CrcSpec == CrcInit /\ [][CrcNext]_crcVars

-----------------------------------------------------------------------------
(***************************************************************************)
(* The reference: division of polynomials over two elements.  The message, *)
(* each byte with its lowest bit first, is multiplied by x^Width; its      *)
(* first Width bits, and the remainder, are complemented.  Bits are        *)
(* numbered from 0 in the order in which they are divided.                 *)
(***************************************************************************)
MessageLength == ByteBits * Len(data)
MessageBit(k) ==
  IF k < MessageLength THEN data[k \div ByteBits + 1][(k % ByteBits) + 1] ELSE 0
DividendBit(k) == IF k < Width THEN 1 - MessageBit(k) ELSE MessageBit(k)

(* One step of the division, the highest power first: Poly read from its other end. *)
Divided(r, bit) ==
  LET shifted == [k \in 1 .. Width |-> IF k < Width THEN r[k + 1] ELSE bit]
  IN  IF r[1] = 1 THEN Xor(shifted, Poly) ELSE shifted

(* What is left after each step. *)
Remainders ==
  LET rem[k \in 0 .. MessageLength + Width] ==
        IF k = 0 THEN Zeros ELSE Divided(rem[k - 1], DividendBit(k - 1))
  IN  rem
Remainder == Remainders[MessageLength + Width]

(***************************************************************************)
(* The loop computes the CRC-32 of the standard, for an empty array too,   *)
(* which never reaches it.                                                 *)
(***************************************************************************)
ReturnsTheRemainder == phase = "returned" => crc = Not(Remainder)
=============================================================================
