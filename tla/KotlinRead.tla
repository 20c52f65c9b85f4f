----------------------------- MODULE KotlinRead -----------------------------
(***************************************************************************)
(* UriByteSource.read: the range read of the Kotlin side.  It asks the     *)
(* document for its size twice and then reads until its buffer is full,    *)
(* the file ends or the channel gives nothing; the document may be resized *)
(* between any two of these.  Byte p of it is written p.                   *)
(***************************************************************************)
EXTENDS Integers, Sequences, FiniteSets, FiniteSetsExt

CONSTANTS
  MaxLen,    \* bound: the longest the document gets
  MaxOffset  \* bound: the largest offset and length requested

ASSUME KotlinAssumption == MaxLen \in Nat /\ MaxOffset \in Nat

VARIABLES
  fileLen,   \* the length of the document now
  call,      \* the running request [offset, length]
  shortest,  \* history: the least length since the request began
  resized,   \* history: the length has changed since
  actual,    \* the size of the buffer
  buffer,    \* what it holds
  count,     \* what the last channel.read returned
  status     \* "begun", "checked", "reading", "ok", "illegal", "threw" or "io"

kotlinVars == << fileLen, call, shortest, resized, actual, buffer, count, status >>
Document == << fileLen, call, shortest, resized >>

Requests == [offset : -1 .. MaxOffset, length : -1 .. MaxOffset]
EndOfStream == -1

Begin ==
  /\ call' \in Requests
  /\ shortest' = fileLen /\ resized' = FALSE
  /\ actual' = 0 /\ buffer' = << >> /\ count' = 1
  /\ status' = "begun"

Init ==
  /\ fileLen \in 0 .. MaxLen /\ shortest = fileLen /\ resized = FALSE
  /\ call \in Requests
  /\ actual = 0 /\ buffer = << >> /\ count = 1
  /\ status = "begun"

(* statSize, or the size of the channel: the length of the document now. *)
size == fileLen

CheckRange_SizeUnasked ==
  /\ status = "begun"
  /\ status' = IF call.offset < 0 \/ call.length < 0 THEN "illegal"
               ELSE IF call.length = 0 THEN "ok" ELSE "checked"
  /\ UNCHANGED << Document, actual, buffer, count >>

CheckRange ==
  /\ status = "begun"
  /\ status' = IF call.offset < 0 \/ call.length < 0 THEN "illegal"
               ELSE IF call.length = 0 \/ call.offset >= size THEN "ok" ELSE "checked"
  /\ UNCHANGED << Document, actual, buffer, count >>

(* A buffer of a negative size cannot be allocated. *)
Allocate ==
  /\ status = "checked"
  /\ LET n == Min({call.length, size - call.offset})
     IN  IF n < 0 THEN status' = "threw" /\ UNCHANGED actual
         ELSE status' = "reading" /\ actual' = n
  /\ UNCHANGED << Document, buffer, count >>

(* A document without a statSize is asked through a channel, which may fail. *)
SizeFails ==
  /\ \/ status = "begun" /\ call.offset >= 0 /\ call.length > 0
     \/ status = "checked"
  /\ status' = "io"
  /\ UNCHANGED << Document, actual, buffer, count >>

position == call.offset + Len(buffer)
Reading == status = "reading" /\ Len(buffer) < actual /\ count > 0

Transfer_AtOffset ==
  /\ Reading
  /\ \E n \in 1 .. actual - Len(buffer) :
       /\ call.offset + n <= fileLen
       /\ count' = n
       /\ buffer' = buffer \o [k \in 1 .. n |-> call.offset + k - 1]
  /\ UNCHANGED << Document, actual, status >>

Transfer ==
  /\ Reading
  /\ \E n \in 1 .. actual - Len(buffer) :
       /\ position + n <= fileLen
       /\ count' = n
       /\ buffer' = buffer \o [k \in 1 .. n |-> position + k - 1]
  /\ UNCHANGED << Document, actual, status >>

(* The end of the document, or a channel that gives nothing: the loop is left. *)
AtEnd_Retries ==
  /\ Reading /\ position >= fileLen
  /\ UNCHANGED kotlinVars

AtEnd ==
  /\ Reading /\ position >= fileLen
  /\ count' = EndOfStream
  /\ UNCHANGED << Document, actual, buffer, status >>

GivesNothing ==
  /\ Reading
  /\ count' = 0
  /\ UNCHANGED << Document, actual, buffer, status >>

ChannelFails ==
  /\ Reading
  /\ status' = "io"
  /\ UNCHANGED << Document, actual, buffer, count >>

Finish ==
  /\ status = "reading" /\ ~ Reading
  /\ status' = "ok"
  /\ UNCHANGED << Document, actual, buffer, count >>

Resize ==
  /\ fileLen' \in 0 .. MaxLen \ {fileLen}
  /\ shortest' = Min({shortest, fileLen'}) /\ resized' = TRUE
  /\ UNCHANGED << call, actual, buffer, count, status >>

NextCall ==
  /\ status \in {"ok", "illegal", "threw", "io"}
  /\ Begin
  /\ UNCHANGED fileLen

Progress == CheckRange \/ Allocate \/ Transfer \/ AtEnd \/ Finish
Next == Progress \/ SizeFails \/ GivesNothing \/ ChannelFails \/ Resize \/ NextCall

(* The IO thread runs and the channel returns; no fault or lack is assumed to help. *)
Spec == Init /\ [][Next]_kotlinVars /\ WF_kotlinVars(Progress)

-----------------------------------------------------------------------------
(***************************************************************************)
(* A read that succeeds has the bytes of its range in order, and all that  *)
(* were in the document from the first check to the end of the read,       *)
(* unless the channel gave nothing.                                        *)
(***************************************************************************)
RangeIsRead ==
  status = "ok" =>
    /\ buffer = [k \in 1 .. Len(buffer) |-> call.offset + k - 1]
    /\ Len(buffer) <= call.length
    /\ count # 0 => Len(buffer) >= Min({call.length, shortest - call.offset})

(***************************************************************************)
(* The two sizes disagree only when the document was resized between them: *)
(* no request by itself makes the buffer negative.                         *)
(***************************************************************************)
ThrowsOnlyIfResized == status = "threw" => resized /\ shortest < call.offset

(***************************************************************************)
(* Every read ends, also of a document that is resized for ever, and with  *)
(* no fault of the channel to end it.                                      *)
(***************************************************************************)
EveryReadEnds == (status \in {"begun", "checked", "reading"}) ~> (status \notin {"begun", "checked", "reading"})
=============================================================================
