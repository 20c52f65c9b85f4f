----------------------------- MODULE RangeSource -----------------------------
(***************************************************************************)
(* What a ByteSource over a file promises: a range read is answered in one *)
(* step, with the bytes of the range in order, and fewer than were asked   *)
(* for only where the file ends.  The file belongs to another application  *)
(* and may be resized at any moment; byte p of it is written p.            *)
(***************************************************************************)
EXTENDS Integers, Sequences

CONSTANTS
  MaxLen,      \* bound: the longest the file gets
  MaxOffset,   \* bound: the largest offset and length requested
  MaxPosition  \* the largest position the source can address

VARIABLES
  fileLen,  \* the length of the file now
  size,     \* the size the source was created with
  call,     \* the running request [offset, length]
  shortest, \* history: the least length of the file since the request began
  answer    \* its outcome, Pending while there is none

rangeVars == << fileLen, size, call, shortest, answer >>

Requests == [offset : 0 .. MaxOffset, length : 0 .. MaxOffset]
Pending == [status |-> "pending", bytes |-> << >>]
Failed(status) == [status |-> status, bytes |-> << >>]
Ok(bytes) == [status |-> "ok", bytes |-> bytes]

(* The part of a request that lies in the source. *)
Actual(c, sz) ==
  IF c.offset >= sz THEN 0
  ELSE IF sz - c.offset < c.length THEN sz - c.offset ELSE c.length

FileBytes(offset, n) == [k \in 1 .. n |-> offset + k - 1]

Complete(c, sz, n) == n = Actual(c, sz)
CutShort(c, sz, n) == n < Actual(c, sz) /\ shortest <= c.offset + n

RangeInit ==
  /\ fileLen \in 0 .. MaxLen
  /\ size = fileLen
  /\ call \in Requests
  /\ shortest = fileLen
  /\ answer = Pending

Resize ==
  /\ fileLen' \in 0 .. MaxLen
  /\ shortest' = IF fileLen' < shortest THEN fileLen' ELSE shortest
  /\ UNCHANGED << size, call, answer >>

AnswerBytes ==
  /\ answer = Pending
  /\ \E n \in 0 .. Actual(call, size) :
       /\ Complete(call, size, n) \/ CutShort(call, size, n)
       /\ answer' = Ok(FileBytes(call.offset, n))
  /\ UNCHANGED << fileLen, size, call, shortest >>

(***************************************************************************)
(* An error of the device, at any time; outOfRange only if the range       *)
(* begins or ends past what the source can address.                        *)
(***************************************************************************)
AnswerError ==
  /\ answer = Pending
  /\ \/ /\ Actual(call, size) > 0
        /\ answer' = Failed("io")
     \/ /\ \/ call.offset > MaxPosition
           \/ call.offset + Actual(call, size) - 1 > MaxPosition
        /\ answer' = Failed("outOfRange")
  /\ UNCHANGED << fileLen, size, call, shortest >>

(* The caller takes the answer and reads another range of the same source. *)
NextCall ==
  /\ answer # Pending
  /\ call' \in Requests
  /\ shortest' = fileLen
  /\ answer' = Pending
  /\ UNCHANGED << fileLen, size >>

RangeNext == Resize \/ AnswerBytes \/ AnswerError \/ NextCall

RangeSpec == RangeInit /\ [][RangeNext]_rangeVars
=============================================================================
