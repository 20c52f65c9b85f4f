------------------------------ MODULE Lz4Format ------------------------------
(***************************************************************************)
(* The LZ4 block format shared by the decoder and the encoder of           *)
(* native/src/imageforge_core.rs.                                          *)
(*                                                                         *)
(* A block is a sequence of bytes.  Every width of the format follows from *)
(* the base of a nibble, so the model scales the format instead of         *)
(* abstracting it away: the code has Nibble = 16, hence 256 byte values,   *)
(* run mask 15 and length bytes up to 255.  A small Nibble makes the       *)
(* boundary cases (a length equal to the run mask, a length byte equal to  *)
(* its maximum) happen in blocks of a few bytes.                           *)
(***************************************************************************)
EXTENDS Integers, Sequences

CONSTANTS
  Nibble,    \* values of a half byte (16 in the code)
  MinMatch,  \* LZ4_MIN_MATCH: the shortest match, 4 in the code
  Slack      \* the constant term of imageforge_lz4_block_max_size, 16 in the code

Byte == Nibble * Nibble
ByteMax == Byte - 1
RunMask == Nibble - 1
Bytes == 0 .. ByteMax

(***************************************************************************)
(* The last conjunct holds of the code's numbers with a wide margin:       *)
(* 15 + 4 <= 3 * 255.                                                      *)
(***************************************************************************)
ASSUME FormatAssumption ==
  /\ Nibble \in Nat /\ Nibble >= 2
  /\ MinMatch \in Nat \ {0}
  /\ Slack \in Nat
  /\ RunMask + MinMatch <= 3 * ByteMax

(* The literal and the match half of a token. *)
LiteralNibble(token) == token \div Nibble
MatchNibble(token) == token % Nibble

Capped(length) == IF length >= RunMask THEN RunMask ELSE length
Token(literalLen, matchCode) == Capped(literalLen) * Nibble + Capped(matchCode)

(* A 16-bit little-endian match offset is two bytes. *)
OffsetBytes(offset) == << offset % Byte, offset \div Byte >>
OffsetOf(low, high) == low + Byte * high

(***************************************************************************)
(* imageforge_lz4_block_max_size: what the code promises as the worst case *)
(* size of a decompressed block.                                           *)
(***************************************************************************)
BlockMaxSize_NibbleBase(srcLen) == srcLen * RunMask + Slack
BlockMaxSize(srcLen) == srcLen * ByteMax + Slack
=============================================================================
