----------------------------- MODULE CodecRetry -----------------------------
(***************************************************************************)
(* imageforge_xz_decompress and imageforge_bzip2_decompress, and a caller  *)
(* that does what their result codes are for: on -2 it calls again with a  *)
(* larger buffer.  The decoders are libraries, known by how the code calls *)
(* them: they hand out the content in chunks and may fail between two.     *)
(*                                                                         *)
(* A stream is its codec, its head, where its chunks end and, if it is     *)
(* damaged, the number of chunks before the damage.  Byte p is written p.  *)
(***************************************************************************)
EXTENDS Integers, Sequences

CONSTANTS
  MaxChunk,   \* bound: the largest chunk; the chunk buffer of the code
  MaxChunks,  \* bound: the chunks of a stream
  MaxCap,     \* bound: the largest buffer the caller has
  Heads       \* what may follow the bzip2 file header

ASSUME RetryAssumption ==
  /\ MaxChunk \in Nat \ {0} /\ MaxChunks \in Nat
  /\ MaxCap >= 2 * MaxChunk * MaxChunks
  /\ Heads \subseteq {"block", "end", "other"}

VARIABLES
  stream,
  cap,       \* dst_cap of the running call
  expanded,  \* the content expanded in this call
  taken,     \* the chunks taken from the decoder in this call
  dst,       \* the buffer; Untouched bytes are not written in this call
  result,    \* what the last call returned
  pc         \* "start", "reading", "returned" or, the caller's last word, "settled"

retryVars == << stream, cap, expanded, taken, dst, result, pc >>

Unharmed == MaxChunks + 1

(* What the first n chunks of a stream expand to. *)
EndOf(s, n) == IF n = 0 THEN 0 ELSE s.ends[n]
Content(s, n) == [k \in 1 .. EndOf(s, n) |-> k]

Streams ==
  { s \in [ codec : {"xz", "bzip2"}, head : Heads, damagedAt : 0 .. Unharmed,
            ends : UNION { [1 .. n -> 1 .. n * MaxChunk] : n \in 0 .. MaxChunks } ] :
      /\ \A n \in DOMAIN s.ends : s.ends[n] - EndOf(s, n - 1) \in 1 .. MaxChunk
      /\ s.damagedAt # Unharmed => s.damagedAt <= Len(s.ends)
      /\ s.codec = "xz" => s.head = "block"
      /\ s.head = "end" => s.ends = << >>
      /\ s.head = "other" => s.damagedAt = 0 }

Untouched == 0
FreshBuffer(n) == [k \in 1 .. n |-> Untouched]

Begin(c) ==
  /\ cap' = c
  /\ expanded' = << >> /\ taken' = 0
  /\ dst' = FreshBuffer(c)
  /\ pc' = "start"

Init ==
  /\ stream \in Streams
  /\ cap \in 0 .. MaxChunk
  /\ expanded = << >> /\ taken = 0
  /\ dst = FreshBuffer(cap)
  /\ result = 0
  /\ pc = "start"

Return(n) ==
  /\ result' = n
  /\ pc' = "returned"
  /\ UNCHANGED << stream, cap, expanded, taken >>

ReturnError(n) == Return(n) /\ UNCHANGED dst

-----------------------------------------------------------------------------
(* bzip2_header_ok: the file header and the magic of a first block. *)
HeaderOk == stream.head = "block"

Start ==
  /\ pc = "start"
  /\ IF stream.codec = "bzip2" /\ ~ HeaderOk
     THEN ReturnError(-1)
     ELSE pc' = "reading" /\ UNCHANGED << stream, cap, expanded, taken, dst, result >>

AtDamage == taken = stream.damagedAt
AtEnd == ~ AtDamage /\ taken = Len(stream.ends)

DecoderFails_AsksForRoom ==
  /\ pc = "reading" /\ AtDamage
  /\ ReturnError(-2)

DecoderFails ==
  /\ pc = "reading" /\ AtDamage
  /\ ReturnError(-1)

(* xz is read to its end before the length is looked at, bzip2 chunk by chunk. *)
TakeChunk_Straight ==
  /\ pc = "reading" /\ ~ AtDamage /\ ~ AtEnd
  /\ taken' = taken + 1
  /\ expanded' = Content(stream, taken + 1)
  /\ IF stream.codec = "bzip2" /\ Len(expanded') > cap
     THEN result' = -2 /\ pc' = "returned" /\ UNCHANGED dst
     ELSE /\ dst' = [k \in DOMAIN dst |-> IF k \in DOMAIN expanded' THEN expanded'[k] ELSE dst[k]]
          /\ UNCHANGED << result, pc >>
  /\ UNCHANGED << stream, cap >>

TakeChunk_ChecksAtEnd ==
  /\ pc = "reading" /\ ~ AtDamage /\ ~ AtEnd
  /\ taken' = taken + 1
  /\ expanded' = Content(stream, taken + 1)
  /\ UNCHANGED << stream, cap, dst, result, pc >>

TakeChunk ==
  /\ pc = "reading" /\ ~ AtDamage /\ ~ AtEnd
  /\ taken' = taken + 1
  /\ expanded' = Content(stream, taken + 1)
  /\ IF stream.codec = "bzip2" /\ Len(expanded') > cap
     THEN result' = -2 /\ pc' = "returned"
     ELSE UNCHANGED << result, pc >>
  /\ UNCHANGED << stream, cap, dst >>

CopyOut_Truncates ==
  /\ pc = "reading" /\ AtEnd
  /\ Return(IF Len(expanded) > cap THEN cap ELSE Len(expanded))
  /\ dst' = [k \in DOMAIN dst |-> IF k \in DOMAIN expanded THEN expanded[k] ELSE dst[k]]

CopyOut_Unchecked ==
  /\ pc = "reading" /\ AtEnd
  /\ Return(Len(expanded))
  /\ dst' = expanded \o SubSeq(dst, Len(expanded) + 1, cap)

CopyOut ==
  /\ pc = "reading" /\ AtEnd
  /\ IF Len(expanded) > cap
     THEN ReturnError(-2)
     ELSE /\ Return(Len(expanded))
          /\ dst' = [k \in DOMAIN dst |-> IF k \in DOMAIN expanded THEN expanded[k] ELSE dst[k]]

(* The caller: "retry with a larger buffer", otherwise it takes the answer. *)
Retry ==
  /\ pc = "returned" /\ result = -2
  /\ \E c \in {cap + 1, 2 * cap} : c > cap /\ c <= MaxCap /\ Begin(c)
  /\ UNCHANGED << stream, result >>

Settle ==
  /\ pc = "returned" /\ result # -2
  /\ pc' = "settled"
  /\ UNCHANGED << stream, cap, expanded, taken, dst, result >>

Next == Start \/ DecoderFails \/ TakeChunk \/ CopyOut \/ Retry \/ Settle

(* A call is one thread and the decoders return; the caller keeps its word. *)
Spec == Init /\ [][Next]_retryVars /\ WF_retryVars(Next)

-----------------------------------------------------------------------------
(***************************************************************************)
(* However far a stream would expand, neither decompressor writes past the *)
(* buffer of the caller, and bzip2 holds no more than one chunk above what *)
(* fits in it: the chunk that passes it is the last one taken, and the     *)
(* answer is -2.  What xz holds is bounded by its stream alone.            *)
(***************************************************************************)
Bzip2ExpansionIsBounded ==
  /\ Len(dst) = cap
  /\ stream.codec = "bzip2" =>
       /\ Len(expanded) <= cap + MaxChunk
       /\ Len(expanded) > cap => pc = "returned" /\ result = -2

(***************************************************************************)
(* Asking again and again with larger buffers gives what one call with     *)
(* room enough gives: the content, whole, or -1 for a damaged stream, also *)
(* for one whose damage lies behind every buffer so far.  The stream bzip2 *)
(* makes of an empty input is refused like a damaged one: it has no block, *)
(* its header is followed by the end of the stream.                        *)
(***************************************************************************)
Malformed(s) == s.damagedAt # Unharmed
EmptyBzip2(s) == s.head = "end"

RetriesGiveTheAnswer ==
  pc = "settled" =>
    IF Malformed(stream) \/ EmptyBzip2(stream) THEN result = -1
    ELSE /\ result = Len(Content(stream, Len(stream.ends)))
         /\ SubSeq(dst, 1, result) = Content(stream, Len(stream.ends))

(***************************************************************************)
(* A call that gives an error has written nothing: what the caller had in  *)
(* its buffer is there when it retries or gives up.                        *)
(***************************************************************************)
ErrorsLeaveDst == pc \in {"returned", "settled"} /\ result < 0 => dst = FreshBuffer(cap)

(***************************************************************************)
(* A caller that retries comes to an end, whatever the stream.             *)
(***************************************************************************)
CallerSettles == <>(pc = "settled")
=============================================================================
