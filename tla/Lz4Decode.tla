------------------------------ MODULE Lz4Decode ------------------------------
(***************************************************************************)
(* The LZ4 block decoder lz4_decompress_block_with_prefix and its C entry  *)
(* point imageforge_lz4_decompress_block, one action per stage of the      *)
(* loop body.  Positions are zero-based as in the code; dst is the         *)
(* caller's buffer, whose first blk.prefix bytes hold the window of the    *)
(* previous block and whose other bytes are undefined (Unset).             *)
(*                                                                         *)
(* Sums are sums of usize and wrap in the release build that is shipped.   *)
(* A range that only passed its check because of that panics when it is    *)
(* used, and a panic out of an extern function aborts the process: trap.   *)
(***************************************************************************)
EXTENDS Lz4Format

CONSTANTS
  MaxSrc,     \* bound: the longest block given to the decoder
  Caps,       \* bound: the sizes of the destination
  MaxPrefix,  \* bound: the largest window the caller passes
  Usize,      \* usize::MAX + 1
  Unset       \* a destination byte nothing has been written to

ASSUME DecodeAssumption ==
  /\ Usize \in Nat \ {0} /\ Caps \subseteq 0 .. Usize - 1
  /\ MaxSrc \in Nat /\ MaxSrc + 2 < Usize /\ MaxPrefix \in Nat
  /\ Unset \notin Bytes

VARIABLES
  blk,   \* the call: [src, cap, prefix]
  dst,   \* the destination buffer
  sp,    \* next source position
  dp,    \* next destination position
  lit,   \* literal_len of the sequence being decoded
  mat,   \* match_len of it
  off,   \* match offset of it
  tok,   \* token of it
  pc     \* stage of the loop body

decVars == << blk, dst, sp, dp, lit, mat, off, tok, pc >>

SeqsUpTo(S, n) == UNION { [1 .. k -> S] : k \in 0 .. n }

Blocks == [src : SeqsUpTo(Bytes, MaxSrc), cap : Caps, prefix : 0 .. MaxPrefix]

(* The bytes of the window: which ones does not matter, each names its place. *)
WindowByte(k) == k % Byte

SrcAt(k) == blk.src[k + 1]
SrcLen == Len(blk.src)

Stages == {"enter", "token", "litExt", "lits", "offset", "matchExt", "copy", "done", "none", "trap"}

(***************************************************************************)
(* The state in which the decoder starts on the call b.                    *)
(***************************************************************************)
StartOn(b) ==
  /\ blk = b
  /\ dst = [k \in 0 .. b.cap - 1 |-> IF k < b.prefix THEN WindowByte(k) ELSE Unset]
  /\ sp = 0 /\ dp = 0 /\ lit = 0 /\ mat = 0 /\ off = 0 /\ tok = 0
  /\ pc = "enter"

Init == \E b \in Blocks : StartOn(b)

Reject ==
  /\ pc' = "none"
  /\ UNCHANGED << blk, dst, sp, dp, lit, mat, off, tok >>

(* What the aborted copy left in dst nobody reads. *)
Trap ==
  /\ pc' = "trap"
  /\ UNCHANGED << blk, dst, sp, dp, lit, mat, off, tok >>

Wrap(n) == n % Usize

-----------------------------------------------------------------------------
(* A window longer than the destination is refused before anything is read. *)
Enter_NoWindowSkip ==
  /\ pc = "enter"
  /\ IF blk.prefix > blk.cap
     THEN Reject
     ELSE /\ pc' = "token"
          /\ UNCHANGED << blk, dst, sp, dp, lit, mat, off, tok >>

Enter ==
  /\ pc = "enter"
  /\ IF blk.prefix > blk.cap
     THEN Reject
     ELSE /\ dp' = blk.prefix
          /\ pc' = "token"
          /\ UNCHANGED << blk, dst, sp, lit, mat, off, tok >>

(* The loop condition; a block may be empty, or end after a match. *)
EndOfBlock ==
  /\ pc = "token" /\ sp >= SrcLen
  /\ pc' = "done"
  /\ UNCHANGED << blk, dst, sp, dp, lit, mat, off, tok >>

ReadToken ==
  /\ pc = "token" /\ sp < SrcLen
  /\ tok' = SrcAt(sp)
  /\ lit' = LiteralNibble(SrcAt(sp))
  /\ sp' = sp + 1
  /\ pc' = IF lit' = RunMask THEN "litExt" ELSE "lits"
  /\ UNCHANGED << blk, dst, dp, mat, off >>

ReadLiteralExtension ==
  /\ pc = "litExt"
  /\ IF sp >= SrcLen
     THEN Reject
     ELSE /\ lit' = Wrap(lit + SrcAt(sp))
          /\ sp' = sp + 1
          /\ pc' = IF SrcAt(sp) = ByteMax THEN "litExt" ELSE "lits"
          /\ UNCHANGED << blk, dst, dp, mat, off, tok >>

(* The last sequence of a block has no match: the block ends with its literals. *)
CopyLiterals_NoCapCheck ==
  /\ pc = "lits"
  /\ IF sp + lit > SrcLen
     THEN Reject
     ELSE /\ dst' = [k \in DOMAIN dst |->
                       IF k \in dp .. dp + lit - 1 THEN SrcAt(sp + k - dp) ELSE dst[k]]
          /\ sp' = sp + lit
          /\ dp' = dp + lit
          /\ pc' = IF sp + lit >= SrcLen THEN "done" ELSE "offset"
          /\ UNCHANGED << blk, lit, mat, off, tok >>

CopyLiterals_NoSourceCheck ==
  /\ pc = "lits"
  /\ IF Wrap(dp + lit) > blk.cap
     THEN Reject
     ELSE IF sp + lit > SrcLen \/ dp + lit > blk.cap
     THEN Trap
     ELSE /\ dst' = [k \in DOMAIN dst |->
                       IF k \in dp .. dp + lit - 1 THEN SrcAt(sp + k - dp) ELSE dst[k]]
          /\ sp' = sp + lit
          /\ dp' = dp + lit
          /\ pc' = IF sp + lit >= SrcLen THEN "done" ELSE "offset"
          /\ UNCHANGED << blk, lit, mat, off, tok >>

CopyLiterals ==
  /\ pc = "lits"
  /\ IF Wrap(sp + lit) > SrcLen \/ Wrap(dp + lit) > blk.cap
     THEN Reject
     ELSE IF sp + lit > SrcLen \/ dp + lit > blk.cap
     THEN Trap
     ELSE /\ dst' = [k \in DOMAIN dst |->
                       IF k \in dp .. dp + lit - 1 THEN SrcAt(sp + k - dp) ELSE dst[k]]
          /\ sp' = sp + lit
          /\ dp' = dp + lit
          /\ pc' = IF sp + lit >= SrcLen THEN "done" ELSE "offset"
          /\ UNCHANGED << blk, lit, mat, off, tok >>

(* An offset of zero, or one that reaches before the window, is malformed. *)
ReadOffset ==
  /\ pc = "offset"
  /\ IF sp + 2 > SrcLen
     THEN Reject
     ELSE LET o == OffsetOf(SrcAt(sp), SrcAt(sp + 1)) IN
          IF o = 0 \/ o > dp
          THEN Reject
          ELSE /\ off' = o
               /\ sp' = sp + 2
               /\ mat' = MatchNibble(tok)
               /\ pc' = IF mat' = RunMask THEN "matchExt" ELSE "copy"
               /\ UNCHANGED << blk, dst, dp, lit, tok >>

ReadMatchExtension ==
  /\ pc = "matchExt"
  /\ IF sp >= SrcLen
     THEN Reject
     ELSE /\ mat' = Wrap(mat + SrcAt(sp))
          /\ sp' = sp + 1
          /\ pc' = IF SrcAt(sp) = ByteMax THEN "matchExt" ELSE "copy"
          /\ UNCHANGED << blk, dst, dp, lit, off, tok >>

(***************************************************************************)
(* The copy is byte by byte and may overlap itself: byte k of the match is *)
(* byte k modulo the offset of the text it refers to.                      *)
(***************************************************************************)
CopyMatch_Overshoot ==
  /\ pc = "copy"
  /\ LET length == Wrap(mat + MinMatch) IN
     IF Wrap(dp + length) > blk.cap
     THEN Reject
     ELSE IF dp + length > blk.cap
     THEN Trap
     ELSE /\ dst' = [k \in DOMAIN dst |->
                       IF k \in dp .. dp + length
                       THEN dst[dp - off + ((k - dp) % off)] ELSE dst[k]]
          /\ dp' = dp + length
          /\ pc' = "token"
          /\ UNCHANGED << blk, sp, lit, mat, off, tok >>

CopyMatch_OneLate ==
  /\ pc = "copy"
  /\ LET length == Wrap(mat + MinMatch) IN
     IF Wrap(dp + length) > blk.cap
     THEN Reject
     ELSE IF dp + length > blk.cap
     THEN Trap
     ELSE /\ dst' = [k \in DOMAIN dst |->
                       IF k \in dp .. dp + length - 1
                       THEN dst[dp - off + 1 + ((k - dp) % off)] ELSE dst[k]]
          /\ dp' = dp + length
          /\ pc' = "token"
          /\ UNCHANGED << blk, sp, lit, mat, off, tok >>

CopyMatch ==
  /\ pc = "copy"
  /\ LET length == Wrap(mat + MinMatch) IN
     IF Wrap(dp + length) > blk.cap
     THEN Reject
     ELSE IF dp + length > blk.cap
     THEN Trap
     ELSE /\ dst' = [k \in DOMAIN dst |->
                       IF k \in dp .. dp + length - 1
                       THEN dst[dp - off + ((k - dp) % off)] ELSE dst[k]]
          /\ dp' = dp + length
          /\ pc' = "token"
          /\ UNCHANGED << blk, sp, lit, mat, off, tok >>

Next ==
  \/ Enter \/ EndOfBlock \/ ReadToken \/ ReadLiteralExtension \/ CopyLiterals
  \/ ReadOffset \/ ReadMatchExtension \/ CopyMatch

Spec == Init /\ [][Next]_decVars

-----------------------------------------------------------------------------
(***************************************************************************)
(* Every variable stays in its range; the destination keeps its size.      *)
(***************************************************************************)
TypeOK ==
  /\ blk \in [src : Seq(Bytes), cap : Nat, prefix : Nat]
  /\ dst \in [0 .. blk.cap - 1 -> Bytes \cup {Unset}]
  /\ sp \in 0 .. SrcLen /\ dp \in 0 .. blk.cap
  /\ lit \in Nat /\ mat \in Nat /\ off \in Nat
  /\ tok \in Bytes
  /\ pc \in Stages

(***************************************************************************)
(* A decoded block never exceeds the size imageforge_lz4_block_max_size    *)
(* promises to a caller that sizes its buffer with it: no mixture of       *)
(* tokens, length bytes and overlapping matches expands further.           *)
(***************************************************************************)
SizeBound == pc = "done" => dp - blk.prefix <= BlockMaxSize(SrcLen)

(***************************************************************************)
(* Everything before the write position is a byte the block or the window  *)
(* supplied.  A match, however it overlaps itself or reaches back into the *)
(* window, never copies an undefined byte of the caller's buffer.          *)
(***************************************************************************)
DecodedIsDefined == pc # "enter" /\ pc # "none" => \A k \in 0 .. dp - 1 : dst[k] \in Bytes

(***************************************************************************)
(* The window a dependent block is decoded against is only read: it is     *)
(* still there, byte for byte, whatever the block did.                     *)
(***************************************************************************)
WindowKept == \A k \in 0 .. blk.cap - 1 : k < blk.prefix => dst[k] = WindowByte(k)

(***************************************************************************)
(* The destination is filled from left to right without holes or           *)
(* overshoot: what lies at or after the write position is untouched.       *)
(***************************************************************************)
TailUntouched ==
  \A k \in 0 .. blk.cap - 1 : k >= dp /\ k >= blk.prefix => dst[k] = Unset

(***************************************************************************)
(* A block stops the process only if the lengths it can encode, behind     *)
(* what is read or written already, reach the end of usize: on a 32-bit    *)
(* ABI none of less than 8 million bytes does, into less than 2 GiB.       *)
(***************************************************************************)
TrapsOnlyBeyondUsize ==
  pc = "trap" => \/ blk.cap + ByteMax * SrcLen >= Usize
                 \/ SrcLen + ByteMax * SrcLen >= Usize
=============================================================================
