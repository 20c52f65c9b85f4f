------------------------------ MODULE MCCrc32 ------------------------------
(***************************************************************************)
(* Model checking instance of Crc32 with the real width and polynomial:    *)
(* every message of one byte, and of two and five bytes out of a few.      *)
(***************************************************************************)
EXTENDS Crc32

(* The digits of 0xEDB88320 from the last to the first, the lowest bit of each first. *)
MCPoly == << 0,0,0,0, 0,1,0,0, 1,1,0,0, 0,0,0,1, 0,0,0,1, 1,1,0,1, 1,0,1,1, 0,1,1,1 >>

Bytes == [1 .. 8 -> {0, 1}]
Zero == [k \in 1 .. 8 |-> 0]
Some == { Zero, [k \in 1 .. 8 |-> 1], [k \in 1 .. 8 |-> k % 2], [k \in 1 .. 8 |-> IF k = 8 THEN 1 ELSE 0] }

MCMessages ==
  {<< >>} \cup { << b >> : b \in Bytes } \cup { << b, c >> : b \in Some, c \in Some }
  \cup { << Zero, b, c, b, c >> : b \in Some, c \in Some }
=============================================================================
