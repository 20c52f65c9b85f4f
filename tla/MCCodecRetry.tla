---------------------------- MODULE MCCodecRetry ----------------------------
(***************************************************************************)
(* Model checking instance of CodecRetry: streams of up to three chunks of *)
(* up to three bytes, damaged before any of them, behind the last or not,  *)
(* and buffers from none at all to more than is needed.                    *)
(***************************************************************************)
EXTENDS CodecRetry
=============================================================================
