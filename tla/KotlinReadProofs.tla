--------------------------- MODULE KotlinReadProofs ---------------------------
(***************************************************************************)
(* The range read of the Kotlin side, for every document, request and      *)
(* history of resizes.                                                     *)
(*                                                                         *)
(* The size is asked for twice; what holds of the first answer holds of    *)
(* the second only if the document was not resized, and that is all the    *)
(* invariant carries over (Checked).  The buffer then promises no less     *)
(* than what was in the document throughout (Room), and a channel that has *)
(* met the end of the document has met it at or behind shortest (Ended).   *)
(***************************************************************************)
EXTENDS KotlinRead, SequenceTheorems, TLAPS

InRange ==
  /\ fileLen \in Nat /\ shortest \in Nat /\ shortest <= fileLen
  /\ call \in Requests
  /\ resized \in BOOLEAN
  /\ actual \in Nat /\ buffer \in Seq(Int)
  /\ count \in Nat \cup {EndOfStream}

Least == IF call.length <= shortest - call.offset THEN call.length ELSE shortest - call.offset

Untouched == status \in {"begun", "checked"} => buffer = << >> /\ count = 1

Checked ==
  status = "checked" =>
    /\ call.offset >= 0 /\ call.length > 0
    /\ resized \/ call.offset < fileLen

Room == status = "reading" => Len(buffer) <= actual /\ actual <= call.length /\ Least <= actual

Ended == count = EndOfStream => shortest <= position

(* The bytes of the range, in order, whatever stage the read is in. *)
InOrder == \A k \in 1 .. Len(buffer) : buffer[k] = call.offset + k - 1

Full == status = "ok" => Len(buffer) <= call.length /\ (count # 0 => Least <= Len(buffer))

IInv ==
  /\ InRange /\ Untouched /\ Checked /\ Room /\ Ended /\ InOrder /\ Full
  /\ ThrowsOnlyIfResized

-----------------------------------------------------------------------------
LEMMA MinOfTwo ==
  ASSUME NEW a \in Int, NEW b \in Int
  PROVE  Min({a, b}) = IF a <= b THEN a ELSE b
<1>1. Min({a, b}) = CHOOSE x \in {a, b} : \A y \in {a, b} : x <= y
  BY DEF Min
<1>2. \E x \in {a, b} : \A y \in {a, b} : x <= y
  OBVIOUS
<1>3. Min({a, b}) \in {a, b} /\ \A y \in {a, b} : Min({a, b}) <= y
  BY <1>1, <1>2
<1> QED
  BY <1>3

LEMMA RequestFacts ==
  ASSUME InRange
  PROVE  /\ call.offset \in Int /\ call.length \in Int
         /\ Len(buffer) \in Nat /\ position \in Int /\ Least \in Int
  BY LenProperties, KotlinAssumption DEF InRange, Requests, position, Least

LEMMA InitEstablishes == Init => IInv
<1> SUFFICES ASSUME Init PROVE IInv
  OBVIOUS
<1>1. buffer = << >> /\ buffer \in Seq(Int) /\ Len(buffer) = 0
  BY EmptySeq DEF Init
<1>2. fileLen \in Nat /\ shortest = fileLen /\ count = 1 /\ status = "begun"
  BY KotlinAssumption DEF Init
<1>3. InRange
  <2>1. resized \in BOOLEAN
    BY DEF Init
  <2> QED
    BY <1>1, <1>2, <2>1 DEF Init, InRange
<1>4. Ended
  BY <1>2 DEF Ended, EndOfStream
<1>5. InOrder
  BY <1>1 DEF InOrder
<1> QED
  BY <1>1, <1>2, <1>3, <1>4, <1>5 DEF IInv, Untouched, Checked, Room, Full, ThrowsOnlyIfResized

LEMMA CheckRangeKeeps ==
  ASSUME IInv, CheckRange
  PROVE  IInv'
<1>1. /\ UNCHANGED << fileLen, call, shortest, resized, actual, buffer, count >>
      /\ status = "begun" /\ buffer = << >> /\ count = 1 /\ Len(buffer) = 0
      /\ status' \in {"illegal", "ok", "checked"}
  BY EmptySeq DEF CheckRange, Document, IInv, Untouched
<1>2. position' = position /\ Least' = Least
  BY <1>1 DEF position, Least
<1>3. InRange' /\ Untouched' /\ InOrder' /\ Ended' /\ Room' /\ ThrowsOnlyIfResized'
  BY <1>1, <1>2
     DEF IInv, InRange, Untouched, InOrder, Ended, Room, ThrowsOnlyIfResized
<1>4. Checked'
  BY <1>1, RequestFacts DEF CheckRange, Checked, size, IInv, InRange
<1>5. Full'
  BY <1>1, <1>2, RequestFacts DEF CheckRange, Full, Least, size, IInv, InRange
<1> QED
  BY <1>3, <1>4, <1>5 DEF IInv

LEMMA AllocateKeeps ==
  ASSUME IInv, Allocate
  PROVE  IInv'
<1> DEFINE n == Min({call.length, size - call.offset})
<1>1. /\ UNCHANGED << fileLen, call, shortest, resized, buffer, count >>
      /\ status = "checked" /\ buffer = << >> /\ count = 1 /\ Len(buffer) = 0
  BY EmptySeq DEF Allocate, Document, IInv, Untouched
<1>2. /\ call.offset \in Int /\ call.length \in Int /\ call.length > 0 /\ call.offset >= 0
      /\ fileLen \in Nat /\ shortest \in Nat /\ shortest <= fileLen
  BY <1>1, RequestFacts DEF IInv, InRange, Checked
<1>3. n = IF call.length <= fileLen - call.offset THEN call.length ELSE fileLen - call.offset
  BY <1>2, MinOfTwo DEF size
<1>4. position' = position /\ Least' = Least
  BY <1>1 DEF position, Least
<1>5. \/ n < 0 /\ status' = "threw" /\ actual' = actual
      \/ n >= 0 /\ status' = "reading" /\ actual' = n
  BY <1>2, <1>3 DEF Allocate
<1>6. /\ n \in Int /\ n <= call.length /\ Least <= n
      /\ n < 0 => fileLen < call.offset
  BY <1>2, <1>3 DEF Least
<1> HIDE DEF n
<1>7. InRange' /\ Untouched' /\ InOrder' /\ Ended' /\ Checked' /\ Full'
  BY <1>1, <1>4, <1>5, <1>6 DEF IInv, InRange, Untouched, InOrder, Ended, Checked, Full
<1>8. Room'
  BY <1>1, <1>4, <1>5, <1>6 DEF Room
<1>9. ThrowsOnlyIfResized'
  <2>1. n < 0 => resized /\ shortest < call.offset
    BY <1>1, <1>2, <1>6 DEF IInv, Checked
  <2> QED
    BY <1>1, <1>5, <1>6, <2>1 DEF ThrowsOnlyIfResized
<1> QED
  BY <1>7, <1>8, <1>9 DEF IInv

LEMMA TransferKeeps ==
  ASSUME IInv, Transfer
  PROVE  IInv'
<1>1. PICK n \in 1 .. actual - Len(buffer) :
        /\ position + n <= fileLen
        /\ count' = n
        /\ buffer' = buffer \o [k \in 1 .. n |-> position + k - 1]
  BY DEF Transfer
<1>2. /\ UNCHANGED << fileLen, call, shortest, resized, actual, status >>
      /\ status = "reading"
  BY DEF Transfer, Document, Reading
<1>3. /\ buffer \in Seq(Int) /\ Len(buffer) \in Nat /\ actual \in Nat /\ position \in Int
      /\ n \in Nat /\ n >= 1 /\ Len(buffer) + n <= actual
  BY RequestFacts DEF IInv, InRange
<1> DEFINE more == [k \in 1 .. n |-> position + k - 1]
<1>4. more \in Seq(Int) /\ Len(more) = n /\ \A k \in 1 .. n : more[k] = position + k - 1
  BY <1>3
<1> HIDE DEF more
<1>5. /\ buffer' \in Seq(Int) /\ Len(buffer') = Len(buffer) + n
      /\ \A k \in 1 .. Len(buffer) + n :
           buffer'[k] = IF k <= Len(buffer) THEN buffer[k] ELSE more[k - Len(buffer)]
  <2>1. buffer' = buffer \o more
    BY <1>1 DEF more
  <2>2. /\ buffer \o more \in Seq(Int) /\ Len(buffer \o more) = Len(buffer) + Len(more)
        /\ \A k \in 1 .. Len(buffer) + Len(more) :
             (buffer \o more)[k] = IF k <= Len(buffer) THEN buffer[k] ELSE more[k - Len(buffer)]
    BY <1>3, <1>4, ConcatProperties
  <2> QED
    BY <1>4, <2>1, <2>2
<1>6. InOrder'
  <2> SUFFICES ASSUME NEW k \in 1 .. Len(buffer) + n PROVE buffer'[k] = call.offset + k - 1
    BY <1>2, <1>5 DEF InOrder
  <2>1. CASE k <= Len(buffer)
    <3>1. k \in 1 .. Len(buffer)
      BY <1>3, <2>1
    <3>2. buffer[k] = call.offset + k - 1
      BY <3>1 DEF IInv, InOrder
    <3> QED
      BY <1>5, <2>1, <3>2
  <2>2. CASE k > Len(buffer)
    <3>1. k - Len(buffer) \in 1 .. n
      BY <1>3, <2>2
    <3>2. buffer'[k] = position + (k - Len(buffer)) - 1
      BY <1>3, <1>4, <1>5, <2>2, <3>1
    <3>3. call.offset \in Int
      BY RequestFacts DEF IInv
    <3> QED
      BY <1>3, <3>2, <3>3 DEF position
  <2> QED
    BY <1>3, <2>1, <2>2
<1>7. InRange'
  BY <1>1, <1>2, <1>3, <1>5 DEF IInv, InRange
<1>8. Room'
  BY <1>2, <1>3, <1>5 DEF IInv, Room, Least
<1>9. Untouched' /\ Checked' /\ Full' /\ Ended' /\ ThrowsOnlyIfResized'
  BY <1>1, <1>2, <1>3
     DEF IInv, Untouched, Checked, Full, Ended, EndOfStream, ThrowsOnlyIfResized
<1> QED
  BY <1>6, <1>7, <1>8, <1>9 DEF IInv

(* The end of the document, or a channel that gives nothing. *)
LEMMA LeavesLoopKeeps ==
  ASSUME IInv, AtEnd \/ GivesNothing
  PROVE  IInv'
<1>1. /\ UNCHANGED << fileLen, call, shortest, resized, actual, buffer, status >>
      /\ status = "reading" /\ count' \in {0, EndOfStream}
      /\ count' = EndOfStream => position >= fileLen
  BY DEF AtEnd, GivesNothing, Document, Reading, EndOfStream
<1>2. position' = position /\ Least' = Least
  BY <1>1 DEF position, Least
<1>3. Ended'
  BY <1>1, <1>2, RequestFacts DEF IInv, InRange, Ended
<1>4. InRange'
  BY <1>1 DEF IInv, InRange, EndOfStream
<1>5. Untouched' /\ Checked' /\ Room' /\ InOrder' /\ Full' /\ ThrowsOnlyIfResized'
  BY <1>1, <1>2 DEF IInv, Untouched, Checked, Room, InOrder, Full, ThrowsOnlyIfResized
<1> QED
  BY <1>3, <1>4, <1>5 DEF IInv

LEMMA FailsKeeps ==
  ASSUME IInv, ChannelFails \/ SizeFails
  PROVE  IInv'
<1>1. /\ UNCHANGED << fileLen, call, shortest, resized, actual, buffer, count >>
      /\ status' = "io"
  BY DEF ChannelFails, SizeFails, Document
<1>2. position' = position
  BY <1>1 DEF position
<1> QED
  BY <1>1, <1>2
     DEF IInv, InRange, Untouched, Checked, Room, Ended, InOrder, Full, ThrowsOnlyIfResized

LEMMA FinishKeeps ==
  ASSUME IInv, Finish
  PROVE  IInv'
<1>1. /\ UNCHANGED << fileLen, call, shortest, resized, actual, buffer, count >>
      /\ status = "reading" /\ status' = "ok"
      /\ ~ (Len(buffer) < actual) \/ ~ (count > 0)
  BY DEF Finish, Document, Reading
<1>2. position' = position /\ Least' = Least
  BY <1>1 DEF position, Least
<1>3. /\ Len(buffer) \in Nat /\ actual \in Nat
      /\ call.length \in Int /\ call.offset \in Int /\ shortest \in Nat /\ Least \in Int
      /\ Len(buffer) <= actual /\ actual <= call.length /\ Least <= actual
  BY <1>1, RequestFacts DEF IInv, InRange, Room
<1>4. count # 0 => Least <= Len(buffer)
  <2>1. CASE Len(buffer) >= actual
    BY <1>3, <2>1
  <2>2. CASE count = EndOfStream
    BY <1>3, <2>2 DEF IInv, Ended, position, Least
  <2>3. count > 0 \/ count = 0 \/ count = EndOfStream
    BY DEF IInv, InRange
  <2> QED
    BY <1>1, <1>3, <2>1, <2>2, <2>3
<1>5. Full'
  BY <1>1, <1>2, <1>3, <1>4 DEF Full
<1>6. InRange' /\ Untouched' /\ Checked' /\ Room' /\ Ended' /\ InOrder' /\ ThrowsOnlyIfResized'
  BY <1>1, <1>2
     DEF IInv, InRange, Untouched, Checked, Room, Ended, InOrder, ThrowsOnlyIfResized
<1> QED
  BY <1>5, <1>6 DEF IInv

(* A document that gets shorter makes every promise smaller, one that grows none larger. *)
LEMMA ResizeKeeps ==
  ASSUME IInv, Resize
  PROVE  IInv'
<1>1. /\ UNCHANGED << call, actual, buffer, count, status >>
      /\ fileLen' \in 0 .. MaxLen /\ resized' = TRUE
      /\ shortest' = Min({shortest, fileLen'})
  BY DEF Resize
<1>2. fileLen' \in Nat /\ shortest \in Nat
  BY <1>1, KotlinAssumption DEF IInv, InRange
<1>3. /\ shortest' \in Nat /\ shortest' <= fileLen' /\ shortest' <= shortest
  BY <1>1, <1>2, MinOfTwo
<1>4. position' = position /\ Least' <= Least /\ Least' \in Int /\ Least \in Int /\ position \in Int
  BY <1>1, <1>2, <1>3, RequestFacts DEF position, Least, IInv
<1>5. InRange' /\ Untouched' /\ Checked' /\ InOrder'
  BY <1>1, <1>2, <1>3 DEF IInv, InRange, Untouched, Checked, InOrder
<1>6. Room' /\ Full'
  BY <1>1, <1>4, RequestFacts DEF IInv, InRange, Room, Full
<1>7. Ended'
  BY <1>1, <1>2, <1>3, <1>4 DEF IInv, Ended
<1>8. ThrowsOnlyIfResized'
  BY <1>1, <1>2, <1>3, RequestFacts DEF IInv, ThrowsOnlyIfResized
<1> QED
  BY <1>5, <1>6, <1>7, <1>8 DEF IInv

LEMMA NextCallKeeps ==
  ASSUME IInv, NextCall
  PROVE  IInv'
<1>1. /\ call' \in Requests /\ fileLen' = fileLen /\ shortest' = fileLen /\ resized' = FALSE
      /\ actual' = 0 /\ buffer' = << >> /\ count' = 1 /\ status' = "begun"
  BY DEF NextCall, Begin
<1>2. buffer' \in Seq(Int) /\ Len(buffer') = 0
  BY <1>1, EmptySeq
<1>3. fileLen \in Nat
  BY DEF IInv, InRange
<1>4. InRange'
  <2>1. resized' \in BOOLEAN
    BY <1>1
  <2> QED
    BY <1>1, <1>2, <1>3, <2>1 DEF InRange
<1>5. Ended'
  BY <1>1 DEF Ended, EndOfStream
<1>6. InOrder'
  BY <1>2 DEF InOrder
<1> QED
  BY <1>1, <1>4, <1>5, <1>6 DEF IInv, Untouched, Checked, Room, Full, ThrowsOnlyIfResized

LEMMA Invariance == Spec => []IInv
<1>1. IInv /\ [Next]_kotlinVars => IInv'
  <2> SUFFICES ASSUME IInv, [Next]_kotlinVars PROVE IInv'
    OBVIOUS
  <2>1. CASE Next
    BY <2>1, CheckRangeKeeps, AllocateKeeps, TransferKeeps, LeavesLoopKeeps, FailsKeeps,
       FinishKeeps, ResizeKeeps, NextCallKeeps DEF Next, Progress
  <2>2. CASE UNCHANGED kotlinVars
    <3>1. UNCHANGED << fileLen, call, shortest, resized, actual, buffer, count, status >>
      BY <2>2 DEF kotlinVars
    <3>2. position' = position /\ Least' = Least
      BY <3>1 DEF position, Least
    <3> QED
      BY <3>1, <3>2
         DEF IInv, InRange, Untouched, Checked, Room, Ended, InOrder, Full, ThrowsOnlyIfResized
  <2> QED
    BY <2>1, <2>2
<1> QED
  BY <1>1, InitEstablishes, PTL DEF Spec

-----------------------------------------------------------------------------
(***************************************************************************)
(* A read of the Kotlin side that succeeds has the bytes of its range in   *)
(* order, and all that were in the document throughout.                    *)
(***************************************************************************)
THEOREM RangesAreRead == Spec => []RangeIsRead
<1>1. IInv => RangeIsRead
  <2> SUFFICES ASSUME IInv, status = "ok" PROVE RangeIsRead
    BY DEF RangeIsRead
  <2>1. buffer = [k \in 1 .. Len(buffer) |-> call.offset + k - 1]
    <3>1. buffer \in [1 .. Len(buffer) -> Int]
      BY LenProperties DEF IInv, InRange
    <3> QED
      BY <3>1 DEF IInv, InOrder
  <2>2. Min({call.length, shortest - call.offset}) = Least
    BY RequestFacts, MinOfTwo DEF IInv, InRange, Least
  <2>3. Len(buffer) \in Nat /\ Least \in Int
    BY RequestFacts DEF IInv
  <2> QED
    BY <2>1, <2>2, <2>3 DEF IInv, Full, RangeIsRead
<1> QED
  BY <1>1, Invariance, PTL

(***************************************************************************)
(* The buffer has a negative size only for a document that was cut in      *)
(* front of the range between the two questions for its size.              *)
(***************************************************************************)
THEOREM OnlyResizesThrow == Spec => []ThrowsOnlyIfResized
<1>1. IInv => ThrowsOnlyIfResized
  BY DEF IInv
<1> QED
  BY <1>1, Invariance, PTL

=============================================================================
