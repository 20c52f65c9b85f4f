---------------------------- MODULE MCLz4Decode ----------------------------
(***************************************************************************)
(* Model checking instance of Lz4Decode: every block of at most MaxSrc     *)
(* bytes over a four-valued byte, every window up to MaxPrefix bytes, and  *)
(* three destinations: too small for a match, too small for the longest    *)
(* match, and large enough for a length that wraps the narrow usize.       *)
(***************************************************************************)
EXTENDS Lz4Decode
=============================================================================
