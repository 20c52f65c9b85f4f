---------------------------- MODULE Lz4RoundTrip ----------------------------
(***************************************************************************)
(* The encoder and the decoder of one block, composed: the bytes           *)
(* imageforge_lz4_compress_block returns are handed to the decoder with a  *)
(* destination of exactly the size of the input, after a window of any     *)
(* size, the way a stream of independent blocks is decoded.                *)
(***************************************************************************)
EXTENDS Lz4Encode

CONSTANTS
  Windows,  \* bound: the sizes of the window the decoder is given
  Usize,    \* usize::MAX + 1
  Unset     \* a destination byte nothing has been written to

(* Blocks and destinations are in memory: their sizes are numbers of usize. *)
ASSUME RoundAssumption ==
  /\ Windows \in Nat /\ Usize \in Nat
  /\ 2 * MaxInput + Slack + 2 < Usize
  /\ MaxInput + Windows < Usize
  /\ Unset \notin Bytes

VARIABLES blk, dst, sp, dp, lit, mat, off, tok, pc, decoding

decVars == << blk, dst, sp, dp, lit, mat, off, tok, pc >>
roundVars == << encVars, decVars, decoding >>

(* A block of an input of MaxInput bytes is never longer than twice that. *)
Decoder == INSTANCE Lz4Decode WITH
             MaxSrc <- 2 * MaxInput + Slack,
             Caps <- 0 .. MaxInput + Windows,
             MaxPrefix <- Windows

Idle == [src |-> << >>, cap |-> 0, prefix |-> 0]

RoundInit ==
  /\ Init
  /\ Decoder!StartOn(Idle)
  /\ decoding = FALSE

Encode ==
  /\ ~ decoding
  /\ EncNext
  /\ UNCHANGED << decVars, decoding >>

HandOver ==
  /\ ~ decoding /\ epc = "ok"
  /\ decoding' = TRUE
  /\ \E w \in 0 .. Windows :
       LET call == [src |-> enc, cap |-> w + N, prefix |-> w] IN
       /\ blk' = call
       /\ dst' = [k \in 0 .. call.cap - 1 |->
                    IF k < w THEN Decoder!WindowByte(k) ELSE Unset]
  /\ UNCHANGED << encVars, sp, dp, lit, mat, off, tok, pc >>

Decode ==
  /\ decoding
  /\ Decoder!Next
  /\ UNCHANGED << encVars, decoding >>

RoundNext == Encode \/ HandOver \/ Decode

(* One thread encodes, then decodes. *)
RoundSpec == RoundInit /\ [][RoundNext]_roundVars /\ WF_roundVars(RoundNext)

-----------------------------------------------------------------------------
(***************************************************************************)
(* Encoder and decoder are inverse.  Every block the encoder produces is   *)
(* accepted into a buffer with no spare byte, decodes to exactly the       *)
(* input, and does so after any window, because no match of it reaches     *)
(* before its own first byte.  None of its lengths stops the process.      *)
(***************************************************************************)
RoundTrip ==
  decoding =>
    /\ pc \notin {"none", "trap"}
    /\ pc = "done" => /\ dp = blk.cap
                      /\ \A k \in 0 .. N - 1 : dst[blk.prefix + k] = At(k)
=============================================================================
