--------------------------- MODULE MCLz4RoundTrip ---------------------------
(***************************************************************************)
(* Model checking instance of Lz4RoundTrip: every input over two bytes up  *)
(* to MaxInput, long enough for two matches and for lengths of more than   *)
(* one extension byte, into destinations that fill up in a sequence, in    *)
(* the last literals, exactly, and not at all.                             *)
(***************************************************************************)
EXTENDS Lz4RoundTrip

MCHash == [w \in [1 .. MinMatch -> Alphabet] |-> w[1]]
=============================================================================
