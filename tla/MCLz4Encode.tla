---------------------------- MODULE MCLz4Encode ----------------------------
(***************************************************************************)
(* Model checking instance of Lz4Encode.  The hash is the first byte of a  *)
(* probe: texts that differ later share a bucket, so walks meet candidates *)
(* that do not match.                                                      *)
(***************************************************************************)
EXTENDS Lz4Encode

MCHash == [w \in [1 .. MinMatch -> Alphabet] |-> w[1]]
=============================================================================
