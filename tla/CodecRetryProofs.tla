-------------------------- MODULE CodecRetryProofs --------------------------
(***************************************************************************)
(* Bzip2ExpansionIsBounded, RetriesGiveTheAnswer and ErrorsLeaveDst, for   *)
(* every stream, every size of chunk and every buffer of the caller.       *)
(*                                                                         *)
(* What ties the calls of a caller that retries together is that each of   *)
(* them begins anew: whatever was expanded is the content up to the last   *)
(* chunk taken, nothing is written before the content is known to fit, and *)
(* a call that is answered has seen the end of the stream or its damage.   *)
(***************************************************************************)
EXTENDS CodecRetry, SequenceTheorems, TLAPS

Answers == Nat \cup {-1, -2}

RetryTypes ==
  /\ stream \in Streams
  /\ cap \in Nat
  /\ taken \in 0 .. Len(stream.ends)
  /\ dst \in [1 .. cap -> Nat]
  /\ result \in Answers
  /\ pc \in {"start", "reading", "returned", "settled"}

(* What was expanded is the content of the chunks taken, all before the damage. *)
ExpandedInOrder ==
  /\ expanded = Content(stream, taken)
  /\ taken <= stream.damagedAt

BeginsAnew == pc = "start" => taken = 0

NothingWrittenYet == pc \in {"start", "reading"} => dst = FreshBuffer(cap)

(* A bzip2 stream that is read has a block, and what was taken of it had room. *)
ReadingBzip2 ==
  pc = "reading" /\ stream.codec = "bzip2" =>
    HeaderOk /\ EndOf(stream, taken) <= cap

Whole == EndOf(stream, Len(stream.ends))

Answered ==
  pc \in {"returned", "settled"} =>
    /\ result = -1 => Malformed(stream) \/ EmptyBzip2(stream)
    /\ result < 0 => dst = FreshBuffer(cap)
    /\ result >= 0 =>
         /\ ~ Malformed(stream) /\ ~ EmptyBzip2(stream)
         /\ result = Whole /\ Whole <= cap
         /\ \A k \in 1 .. Whole : dst[k] = k

SettledForGood == pc = "settled" => result # -2

CInv ==
  /\ RetryTypes /\ ExpandedInOrder /\ BeginsAnew /\ NothingWrittenYet /\ ReadingBzip2
  /\ Answered /\ SettledForGood /\ Bzip2ExpansionIsBounded


-----------------------------------------------------------------------------
LEMMA StreamFacts ==
  ASSUME NEW s \in Streams
  PROVE  /\ Len(s.ends) \in Nat /\ Len(s.ends) < Unharmed
         /\ \A n \in 0 .. Len(s.ends) : EndOf(s, n) \in Nat
         /\ \A n \in 1 .. Len(s.ends) : EndOf(s, n) - EndOf(s, n - 1) \in 1 .. MaxChunk
         /\ s.codec \in {"xz", "bzip2"} /\ s.damagedAt \in 0 .. Unharmed
         /\ s.damagedAt # Unharmed => s.damagedAt <= Len(s.ends)
         /\ s.codec = "xz" => s.head = "block"
         /\ s.head = "other" => s.damagedAt = 0
         /\ s.head \in {"block", "end", "other"}
<1>1. /\ s.codec \in {"xz", "bzip2"} /\ s.damagedAt \in 0 .. Unharmed
      /\ s.damagedAt # Unharmed => s.damagedAt <= Len(s.ends)
      /\ s.codec = "xz" => s.head = "block"
      /\ s.head = "other" => s.damagedAt = 0
      /\ s.head \in Heads
      /\ \A n \in DOMAIN s.ends : s.ends[n] - EndOf(s, n - 1) \in 1 .. MaxChunk
  BY DEF Streams
<1>2. PICK n \in 0 .. MaxChunks : s.ends \in [1 .. n -> 1 .. n * MaxChunk]
  BY DEF Streams
<1>3. n \in Nat /\ n * MaxChunk \in Nat
  BY RetryAssumption
<1>. DEFINE most == n * MaxChunk
<1>4. s.ends \in [1 .. n -> 1 .. most] /\ most \in Nat
  BY <1>2, <1>3
<1>. HIDE DEF most
<1>5. s.ends \in Seq(1 .. most) /\ Len(s.ends) = n /\ DOMAIN s.ends = 1 .. n
  <2>1. s.ends \in Seq(1 .. most) /\ DOMAIN s.ends = 1 .. n
    BY <1>3, <1>4
  <2>2. Len(s.ends) = n
    BY <1>3, <1>4
  <2>. QED
    BY <2>1, <2>2
<1>6. ASSUME NEW k \in 0 .. n PROVE EndOf(s, k) \in Nat
  <2>1. CASE k = 0
    BY <2>1 DEF EndOf
  <2>2. CASE k # 0
    <3>1. k \in 1 .. n
      BY <1>3, <2>2
    <3>2. s.ends[k] \in 1 .. most
      BY <1>4, <3>1
    <3>. QED
      BY <2>2, <3>2 DEF EndOf
  <2>. QED
    BY <2>1, <2>2
<1>7. ASSUME NEW k \in 1 .. n PROVE EndOf(s, k) - EndOf(s, k - 1) \in 1 .. MaxChunk
  <2>1. EndOf(s, k) = s.ends[k]
    BY <1>3 DEF EndOf
  <2>. QED
    BY <1>1, <1>5, <2>1
<1>. QED
  <2>1. Len(s.ends) \in Nat /\ Len(s.ends) < Unharmed
    BY <1>3, <1>5, RetryAssumption DEF Unharmed
  <2>2. s.head \in {"block", "end", "other"}
    BY <1>1, RetryAssumption
  <2>. QED
    BY <1>1, <1>5, <1>6, <1>7, <2>1, <2>2

(* The content has the length that its last chunk ends at. *)
LEMMA ContentFacts ==
  ASSUME NEW s, NEW n, EndOf(s, n) \in Nat
  PROVE  /\ Content(s, n) \in [1 .. EndOf(s, n) -> Nat]
         /\ DOMAIN Content(s, n) = 1 .. EndOf(s, n)
         /\ Len(Content(s, n)) = EndOf(s, n)
         /\ \A k \in 1 .. EndOf(s, n) : Content(s, n)[k] = k
<1>. DEFINE e == EndOf(s, n)
            f == [k \in 1 .. e |-> k]
<1>1. Content(s, n) = f /\ e \in Nat
  BY DEF Content
<1>. HIDE DEF e
<1>2. f \in [1 .. e -> Nat] /\ DOMAIN f = 1 .. e /\ Len(f) = e /\ \A k \in 1 .. e : f[k] = k
  BY <1>1
<1>. QED
  BY <1>1, <1>2 DEF e

LEMMA FreshFacts ==
  ASSUME NEW n \in Nat
  PROVE  FreshBuffer(n) \in [1 .. n -> Nat]
  BY DEF FreshBuffer, Untouched

(* A function on 1 .. n is as long as n. *)
LEMMA BufferIsFull ==
  ASSUME NEW n \in Nat, NEW f \in [1 .. n -> Nat]
  PROVE  Len(f) = n
  OBVIOUS

(* The front of a buffer is the function it is there. *)
LEMMA FrontOfBuffer ==
  ASSUME NEW f, NEW n \in Nat, \A k \in 1 .. n : f[k] = k
  PROVE  SubSeq(f, 1, n) = [k \in 1 .. n |-> k]
<1>. DEFINE q == SubSeq(f, 1, n)
<1>1. \A k \in 1 .. n : f[k] \in Nat
  OBVIOUS
<1>2. 1 \in Int /\ n \in Int /\ n - 1 + 1 = n /\ \A k \in 1 .. n : 1 + k - 1 = k
  OBVIOUS
<1>3. /\ q \in Seq(Nat) /\ Len(q) = (IF 1 <= n THEN n - 1 + 1 ELSE 0)
      /\ \A k \in 1 .. n - 1 + 1 : q[k] = f[1 + k - 1]
  BY <1>1, <1>2, SubSeqProperties
<1>. HIDE DEF q
<1>4. q \in Seq(Nat) /\ Len(q) = n
  BY <1>2, <1>3
<1>5. \A k \in 1 .. n : q[k] = k
  BY <1>2, <1>3
<1>6. q \in [1 .. n -> Nat]
  BY <1>4
<1>7. q = [k \in 1 .. n |-> k]
  BY <1>5, <1>6
<1>. QED
  BY <1>7 DEF q

LEMMA Facts ==
  ASSUME CInv
  PROVE  /\ stream \in Streams /\ cap \in Nat /\ taken \in Nat /\ taken <= Len(stream.ends)
         /\ Len(stream.ends) \in Nat /\ EndOf(stream, taken) \in Nat /\ Whole \in Nat
         /\ expanded = Content(stream, taken) /\ Len(expanded) = EndOf(stream, taken)
         /\ MaxChunk \in Nat /\ Unharmed \in Nat
<1>1. /\ stream \in Streams /\ cap \in Nat /\ taken \in 0 .. Len(stream.ends)
      /\ expanded = Content(stream, taken)
  BY DEF CInv, RetryTypes, ExpandedInOrder
<1>2. /\ Len(stream.ends) \in Nat
      /\ \A n \in 0 .. Len(stream.ends) : EndOf(stream, n) \in Nat
  BY <1>1, StreamFacts
<1>3. EndOf(stream, taken) \in Nat /\ Whole \in Nat /\ taken \in Nat
  BY <1>1, <1>2 DEF Whole
<1>4. Len(expanded) = EndOf(stream, taken)
  BY <1>1, <1>3, ContentFacts
<1>. QED
  BY <1>1, <1>2, <1>3, <1>4, RetryAssumption DEF Unharmed

-----------------------------------------------------------------------------
(* A call begins with a buffer of c bytes: the first, or one more. *)
LEMMA BeginKeepsCInv ==
  ASSUME stream' \in Streams, result' \in Answers, NEW c \in Nat, Begin(c)
  PROVE  CInv'
<1>1. cap' = c /\ expanded' = << >> /\ taken' = 0 /\ dst' = FreshBuffer(c) /\ pc' = "start"
  BY DEF Begin
<1>2. /\ Len(stream'.ends) \in Nat /\ stream'.damagedAt \in 0 .. Unharmed
  BY StreamFacts
<1>3. dst' \in [1 .. c -> Nat] /\ Len(dst') = c
  BY <1>1, FreshFacts, BufferIsFull
<1>4. expanded' = Content(stream', 0)
  <2>1. Content(stream', 0) = [k \in 1 .. 0 |-> k]
    BY DEF Content, EndOf
  <2>2. [k \in 1 .. 0 |-> k] = << >>
    OBVIOUS
  <2>. QED
    BY <1>1, <2>1, <2>2
<1>5. RetryTypes' /\ ExpandedInOrder' /\ BeginsAnew' /\ NothingWrittenYet'
  <2>1. RetryTypes'
    BY <1>1, <1>2, <1>3 DEF RetryTypes
  <2>2. ExpandedInOrder'
    BY <1>1, <1>2, <1>4 DEF ExpandedInOrder, Content, EndOf
  <2>. QED
    BY <1>1, <2>1, <2>2 DEF BeginsAnew, NothingWrittenYet, FreshBuffer
<1>6. Bzip2ExpansionIsBounded'
  <2>1. Len(expanded') = 0 /\ MaxChunk \in Nat
    BY <1>1, RetryAssumption
  <2>. QED
    BY <1>1, <1>3, <2>1 DEF Bzip2ExpansionIsBounded
<1>7. ReadingBzip2' /\ Answered' /\ SettledForGood'
  BY <1>1 DEF ReadingBzip2, Answered, SettledForGood
<1>. QED
  BY <1>5, <1>6, <1>7 DEF CInv

LEMMA InitHasCInv == Init => CInv
<1>. SUFFICES ASSUME Init PROVE CInv
  OBVIOUS
<1>1. /\ stream \in Streams /\ cap \in Nat /\ expanded = << >> /\ taken = 0
      /\ dst = FreshBuffer(cap) /\ result = 0 /\ pc = "start"
  BY RetryAssumption DEF Init
<1>2. /\ Len(stream.ends) \in Nat /\ stream.damagedAt \in 0 .. Unharmed
  BY <1>1, StreamFacts
<1>3. dst \in [1 .. cap -> Nat] /\ Len(dst) = cap
  BY <1>1, FreshFacts, BufferIsFull
<1>4. expanded = Content(stream, 0)
  <2>1. Content(stream, 0) = [k \in 1 .. 0 |-> k]
    BY DEF Content, EndOf
  <2>2. [k \in 1 .. 0 |-> k] = << >>
    OBVIOUS
  <2>. QED
    BY <1>1, <2>1, <2>2
<1>5. RetryTypes
  BY <1>1, <1>2, <1>3 DEF RetryTypes, Answers
<1>6. ExpandedInOrder
  BY <1>1, <1>2, <1>4 DEF ExpandedInOrder
<1>7. Bzip2ExpansionIsBounded
  <2>1. Len(expanded) = 0 /\ MaxChunk \in Nat
    BY <1>1, RetryAssumption
  <2>. QED
    BY <1>1, <1>3, <2>1 DEF Bzip2ExpansionIsBounded
<1>8. BeginsAnew /\ NothingWrittenYet /\ ReadingBzip2 /\ Answered /\ SettledForGood
  BY <1>1 DEF BeginsAnew, NothingWrittenYet, ReadingBzip2, Answered, SettledForGood
<1>. QED
  BY <1>5, <1>6, <1>7, <1>8 DEF CInv

(* A call that is answered with an error has not written anything. *)
LEMMA ErrorKeepsCInv ==
  ASSUME CInv, pc \in {"start", "reading"}, NEW n \in {-1, -2}, ReturnError(n),
         n = -1 => Malformed(stream) \/ EmptyBzip2(stream)
  PROVE  CInv'
<1>1. /\ result' = n /\ pc' = "returned"
      /\ UNCHANGED << stream, cap, expanded, taken, dst >>
  BY DEF ReturnError, Return
<1>2. dst = FreshBuffer(cap)
  BY DEF CInv, NothingWrittenYet
<1>3. RetryTypes'
  BY <1>1 DEF CInv, RetryTypes, Answers
<1>4. ExpandedInOrder' /\ Bzip2ExpansionIsBounded'
  BY <1>1 DEF CInv, ExpandedInOrder, Bzip2ExpansionIsBounded, Content, EndOf
<1>5. BeginsAnew' /\ NothingWrittenYet' /\ ReadingBzip2' /\ SettledForGood'
  BY <1>1 DEF BeginsAnew, NothingWrittenYet, ReadingBzip2, SettledForGood
<1>6. Answered'
  <2>1. ~ (n >= 0) /\ n < 0
    OBVIOUS
  <2>. QED
    BY <1>1, <1>2, <2>1 DEF Answered, Malformed, EmptyBzip2, FreshBuffer
<1>. QED
  BY <1>3, <1>4, <1>5, <1>6 DEF CInv


-----------------------------------------------------------------------------
LEMMA StartKeepsCInv ==
  ASSUME CInv, Start
  PROVE  CInv'
<1>1. pc = "start" /\ taken = 0
  BY DEF Start, CInv, BeginsAnew
<1>2. CASE stream.codec = "bzip2" /\ ~ HeaderOk
  <2>1. ReturnError(-1)
    BY <1>2 DEF Start
  <2>2. /\ stream.head \in {"block", "end", "other"}
        /\ stream.head = "other" => stream.damagedAt = 0
    BY Facts, StreamFacts
  <2>3. Unharmed # 0
    BY RetryAssumption DEF Unharmed
  <2>4. Malformed(stream) \/ EmptyBzip2(stream)
    BY <1>2, <2>2, <2>3 DEF HeaderOk, Malformed, EmptyBzip2
  <2>. QED
    BY <1>1, <2>1, <2>4, ErrorKeepsCInv
<1>3. CASE ~ (stream.codec = "bzip2" /\ ~ HeaderOk)
  <2>1. pc' = "reading" /\ UNCHANGED << stream, cap, expanded, taken, dst, result >>
    BY <1>3 DEF Start
  <2>2. RetryTypes' /\ ExpandedInOrder' /\ Bzip2ExpansionIsBounded'
    BY <1>1, <2>1 DEF CInv, RetryTypes, ExpandedInOrder, Bzip2ExpansionIsBounded, Content, EndOf
  <2>3. dst = FreshBuffer(cap)
    BY <1>1 DEF CInv, NothingWrittenYet
  <2>4. BeginsAnew' /\ NothingWrittenYet' /\ Answered' /\ SettledForGood'
    BY <2>1, <2>3 DEF BeginsAnew, NothingWrittenYet, Answered, SettledForGood, FreshBuffer
  <2>5. ReadingBzip2'
    <3>1. EndOf(stream, taken) = 0 /\ 0 <= cap
      BY <1>1, Facts DEF EndOf
    <3>. QED
      BY <1>3, <2>1, <3>1 DEF ReadingBzip2, HeaderOk, EndOf
  <2>. QED
    BY <2>2, <2>4, <2>5 DEF CInv
<1>. QED
  BY <1>2, <1>3

(* A decoder fails only where the stream is damaged. *)
LEMMA DecoderFailsKeepsCInv ==
  ASSUME CInv, DecoderFails
  PROVE  CInv'
<1>1. pc = "reading" /\ taken = stream.damagedAt /\ ReturnError(-1)
  BY DEF DecoderFails, AtDamage
<1>2. /\ taken \in Nat /\ taken <= Len(stream.ends) /\ Unharmed \in Nat
      /\ Len(stream.ends) \in Nat /\ Len(stream.ends) < Unharmed
  BY Facts, StreamFacts
<1>3. Malformed(stream)
  BY <1>1, <1>2 DEF Malformed
<1>. QED
  BY <1>1, <1>3, ErrorKeepsCInv

LEMMA TakeChunkKeepsCInv ==
  ASSUME CInv, TakeChunk
  PROVE  CInv'
<1>1. /\ pc = "reading" /\ taken # stream.damagedAt /\ taken # Len(stream.ends)
      /\ taken' = taken + 1 /\ expanded' = Content(stream, taken + 1)
      /\ UNCHANGED << stream, cap, dst >>
  BY DEF TakeChunk, AtDamage, AtEnd
<1>2. /\ stream \in Streams /\ cap \in Nat /\ MaxChunk \in Nat
      /\ taken \in Nat /\ taken <= Len(stream.ends) /\ Len(stream.ends) \in Nat
      /\ EndOf(stream, taken) \in Nat
  BY Facts
<1>3. taken <= stream.damagedAt /\ stream.damagedAt \in Nat
  BY <1>2, StreamFacts DEF CInv, ExpandedInOrder
<1>4. taken + 1 \in 1 .. Len(stream.ends) /\ taken + 1 <= stream.damagedAt
  BY <1>1, <1>2, <1>3
<1>. DEFINE e == EndOf(stream, taken + 1)
            b == EndOf(stream, taken)
<1>5. e \in Nat /\ e - b \in 1 .. MaxChunk
  <2>1. (taken + 1) - 1 = taken /\ taken + 1 \in 0 .. Len(stream.ends)
    BY <1>2, <1>4
  <2>2. /\ \A n \in 0 .. Len(stream.ends) : EndOf(stream, n) \in Nat
        /\ \A n \in 1 .. Len(stream.ends) : EndOf(stream, n) - EndOf(stream, n - 1) \in 1 .. MaxChunk
    BY <1>2, StreamFacts
  <2>3. EndOf(stream, taken + 1) - EndOf(stream, (taken + 1) - 1) \in 1 .. MaxChunk
    BY <1>4, <2>2
  <2>. QED
    BY <2>1, <2>2, <2>3
<1>6. Len(expanded') = e
  BY <1>1, <1>5, ContentFacts
<1>7. dst = FreshBuffer(cap) /\ (stream.codec = "bzip2" => HeaderOk /\ b <= cap)
  BY <1>1 DEF CInv, NothingWrittenYet, ReadingBzip2
<1>8. Bzip2ExpansionIsBounded'
  <2>1. e <= b + MaxChunk
    BY <1>2, <1>5
  <2>2. stream.codec = "bzip2" => e <= cap + MaxChunk
    BY <1>2, <1>5, <1>7, <2>1
  <2>3. stream.codec = "bzip2" /\ Len(expanded') > cap => pc' = "returned" /\ result' = -2
    BY DEF TakeChunk
  <2>. QED
    BY <1>1, <1>6, <2>2, <2>3 DEF CInv, Bzip2ExpansionIsBounded
<1>9. ExpandedInOrder'
  BY <1>1, <1>4 DEF ExpandedInOrder, Content, EndOf
<1>10. taken' \in 0 .. Len(stream'.ends)
  BY <1>1, <1>2, <1>4
<1>11. CASE stream.codec = "bzip2" /\ Len(expanded') > cap
  <2>1. result' = -2 /\ pc' = "returned"
    BY <1>11 DEF TakeChunk
  <2>2. RetryTypes'
    BY <1>1, <1>10, <2>1 DEF CInv, RetryTypes, Answers
  <2>3. BeginsAnew' /\ NothingWrittenYet' /\ ReadingBzip2' /\ SettledForGood'
    BY <2>1 DEF BeginsAnew, NothingWrittenYet, ReadingBzip2, SettledForGood
  <2>4. Answered'
    BY <1>1, <1>7, <2>1 DEF Answered, FreshBuffer
  <2>. QED
    BY <1>8, <1>9, <2>2, <2>3, <2>4 DEF CInv
<1>12. CASE ~ (stream.codec = "bzip2" /\ Len(expanded') > cap)
  <2>1. result' = result /\ pc' = pc
    BY <1>12 DEF TakeChunk
  <2>2. RetryTypes'
    BY <1>1, <1>10, <2>1 DEF CInv, RetryTypes
  <2>3. ReadingBzip2'
    <3>1. stream.codec = "bzip2" => e <= cap
      BY <1>2, <1>5, <1>6, <1>12
    <3>2. stream.codec = "bzip2" => HeaderOk /\ EndOf(stream, taken + 1) <= cap
      BY <1>7, <3>1
    <3>. HIDE DEF e, b
    <3>. QED
      BY <1>1, <3>2 DEF ReadingBzip2, HeaderOk, EndOf
  <2>4. BeginsAnew' /\ NothingWrittenYet' /\ Answered' /\ SettledForGood'
    BY <1>1, <1>7, <2>1
    DEF BeginsAnew, NothingWrittenYet, Answered, SettledForGood, FreshBuffer
  <2>. QED
    BY <1>8, <1>9, <2>2, <2>3, <2>4 DEF CInv
<1>. QED
  BY <1>11, <1>12

(* The content is copied out when all of it is there and there is room for it. *)
LEMMA CopyOutKeepsCInv ==
  ASSUME CInv, CopyOut
  PROVE  CInv'
<1>1. pc = "reading" /\ taken # stream.damagedAt /\ taken = Len(stream.ends)
  BY DEF CopyOut, AtEnd, AtDamage
<1>2. /\ stream \in Streams /\ cap \in Nat /\ taken \in Nat /\ Whole \in Nat
      /\ Len(stream.ends) \in Nat
      /\ expanded = Content(stream, taken) /\ Len(expanded) = Whole
      /\ EndOf(stream, taken) = Whole
  BY <1>1, Facts DEF Whole
<1>3. CASE Len(expanded) > cap
  <2>1. ReturnError(-2)
    BY <1>3 DEF CopyOut
  <2>. QED
    BY <1>1, <2>1, ErrorKeepsCInv
<1>4. CASE ~ (Len(expanded) > cap)
  <2>1. /\ result' = Whole /\ pc' = "returned"
        /\ UNCHANGED << stream, cap, expanded, taken >>
        /\ dst' = [k \in DOMAIN dst |-> IF k \in DOMAIN expanded THEN expanded[k] ELSE dst[k]]
    BY <1>2, <1>4 DEF CopyOut, Return
  <2>2. Whole <= cap
    BY <1>2, <1>4
  <2>3. /\ dst \in [1 .. cap -> Nat]
        /\ expanded \in [1 .. Whole -> Nat] /\ \A k \in 1 .. Whole : expanded[k] = k
    <3>1. dst \in [1 .. cap -> Nat]
      BY DEF CInv, RetryTypes
    <3>. QED
      BY <1>2, <3>1, ContentFacts
  <2>4. dst' \in [1 .. cap -> Nat] /\ \A k \in 1 .. Whole : dst'[k] = k
    <3>1. dst' = [k \in 1 .. cap |-> IF k \in 1 .. Whole THEN expanded[k] ELSE dst[k]]
      BY <2>1, <2>3
    <3>2. \A k \in 1 .. Whole : k \in 1 .. cap
      BY <1>2, <2>2
    <3>. QED
      BY <2>3, <3>1, <3>2
  <2>5. ~ Malformed(stream)
    <3>1. /\ stream.damagedAt \in 0 .. Unharmed /\ taken <= stream.damagedAt
          /\ stream.damagedAt # Unharmed => stream.damagedAt <= Len(stream.ends)
      BY <1>2, StreamFacts DEF CInv, ExpandedInOrder
    <3>2. Unharmed \in Nat
      BY Facts
    <3>. QED
      BY <1>1, <1>2, <3>1, <3>2 DEF Malformed
  <2>6. ~ EmptyBzip2(stream)
    <3>1. stream.codec \in {"xz", "bzip2"} /\ (stream.codec = "xz" => stream.head = "block")
      BY <1>2, StreamFacts
    <3>2. stream.codec = "bzip2" => stream.head = "block"
      BY <1>1 DEF CInv, ReadingBzip2, HeaderOk
    <3>. QED
      BY <3>1, <3>2 DEF EmptyBzip2
  <2>7. RetryTypes'
    BY <1>2, <2>1, <2>4 DEF CInv, RetryTypes, Answers
  <2>8. ExpandedInOrder' /\ BeginsAnew' /\ NothingWrittenYet' /\ ReadingBzip2' /\ SettledForGood'
    <3>1. SettledForGood' /\ BeginsAnew' /\ NothingWrittenYet' /\ ReadingBzip2'
      BY <2>1 DEF BeginsAnew, NothingWrittenYet, ReadingBzip2, SettledForGood
    <3>2. ExpandedInOrder'
      BY <2>1 DEF CInv, ExpandedInOrder, Content, EndOf
    <3>. QED
      BY <3>1, <3>2
  <2>9. Bzip2ExpansionIsBounded'
    <3>1. Len(dst') = cap
      BY <1>2, <2>4, BufferIsFull
    <3>. QED
      BY <1>1, <2>1, <3>1 DEF CInv, Bzip2ExpansionIsBounded
  <2>10. Answered'
    <3>1. Whole' = Whole
      BY <2>1 DEF Whole, EndOf
    <3>2. result' = Whole /\ result' # -1 /\ ~ (result' < 0)
      BY <1>2, <2>1
    <3>3. /\ ~ Malformed(stream)' /\ ~ EmptyBzip2(stream)'
      BY <2>1, <2>5, <2>6 DEF Malformed, EmptyBzip2
    <3>4. Whole' <= cap' /\ \A k \in 1 .. Whole' : dst'[k] = k
      BY <2>1, <2>2, <2>4, <3>1
    <3>. QED
      BY <3>1, <3>2, <3>3, <3>4 DEF Answered
  <2>. QED
    BY <2>7, <2>8, <2>9, <2>10 DEF CInv
<1>. QED
  BY <1>3, <1>4

LEMMA NextKeepsCInv == CInv /\ [Next]_retryVars => CInv'
<1>. SUFFICES ASSUME CInv, [Next]_retryVars PROVE CInv'
  OBVIOUS
<1>1. CASE Start
  BY <1>1, StartKeepsCInv
<1>2. CASE DecoderFails
  BY <1>2, DecoderFailsKeepsCInv
<1>3. CASE TakeChunk
  BY <1>3, TakeChunkKeepsCInv
<1>4. CASE CopyOut
  BY <1>4, CopyOutKeepsCInv
<1>5. CASE Retry
  <2>1. PICK c \in {cap + 1, 2 * cap} : Begin(c)
    BY <1>5 DEF Retry
  <2>2. c \in Nat
    BY Facts
  <2>3. stream' = stream /\ result' = result
    BY <1>5 DEF Retry
  <2>4. stream' \in Streams /\ result' \in Answers
    BY <2>3 DEF CInv, RetryTypes
  <2>. QED
    BY <2>1, <2>2, <2>4, BeginKeepsCInv
<1>6. CASE Settle
  <2>1. /\ pc = "returned" /\ result # -2 /\ pc' = "settled"
        /\ UNCHANGED << stream, cap, expanded, taken, dst, result >>
    BY <1>6 DEF Settle
  <2>2. RetryTypes' /\ ExpandedInOrder' /\ Bzip2ExpansionIsBounded'
    BY <2>1 DEF CInv, RetryTypes, ExpandedInOrder, Bzip2ExpansionIsBounded, Content, EndOf
  <2>3. BeginsAnew' /\ NothingWrittenYet' /\ ReadingBzip2' /\ SettledForGood'
    BY <2>1 DEF BeginsAnew, NothingWrittenYet, ReadingBzip2, SettledForGood
  <2>4. Answered'
    BY <2>1 DEF CInv, Answered, Malformed, EmptyBzip2, FreshBuffer, Whole, EndOf
  <2>. QED
    BY <2>2, <2>3, <2>4 DEF CInv
<1>7. CASE UNCHANGED retryVars
  <2>1. UNCHANGED << stream, cap, expanded, taken, dst, result, pc >>
    BY <1>7 DEF retryVars
  <2>2. RetryTypes' /\ ExpandedInOrder' /\ Bzip2ExpansionIsBounded'
    BY <2>1 DEF CInv, RetryTypes, ExpandedInOrder, Bzip2ExpansionIsBounded, Content, EndOf
  <2>3. BeginsAnew' /\ NothingWrittenYet' /\ ReadingBzip2' /\ SettledForGood'
    BY <2>1 DEF CInv, BeginsAnew, NothingWrittenYet, ReadingBzip2, SettledForGood, HeaderOk,
       FreshBuffer, EndOf
  <2>4. Answered'
    BY <2>1 DEF CInv, Answered, Malformed, EmptyBzip2, FreshBuffer, Whole, EndOf
  <2>. QED
    BY <2>2, <2>3, <2>4 DEF CInv
<1>. QED
  BY <1>1, <1>2, <1>3, <1>4, <1>5, <1>6, <1>7 DEF Next

LEMMA Invariance == Spec => []CInv
<1>. QED
  BY InitHasCInv, NextKeepsCInv, PTL DEF Spec

-----------------------------------------------------------------------------
(***************************************************************************)
(* However far a stream would expand, both decompressors keep to the       *)
(* caller's buffer, and bzip2 holds no more than one chunk above it and    *)
(* stops there.  Of what xz holds nothing is claimed.                      *)
(***************************************************************************)
THEOREM Bzip2ExpansionStaysBounded == Spec => []Bzip2ExpansionIsBounded
<1>1. CInv => Bzip2ExpansionIsBounded
  BY DEF CInv
<1>. QED
  BY <1>1, Invariance, PTL

(***************************************************************************)
(* A caller that retries with larger buffers until it is given something   *)
(* else than -2 has the whole content, or the -1 of a damaged stream.      *)
(***************************************************************************)
THEOREM RetriesFindTheAnswer == Spec => []RetriesGiveTheAnswer
<1>1. CInv => RetriesGiveTheAnswer
  <2>. SUFFICES ASSUME CInv, pc = "settled"
                PROVE  IF Malformed(stream) \/ EmptyBzip2(stream) THEN result = -1
                       ELSE /\ result = Len(Content(stream, Len(stream.ends)))
                            /\ SubSeq(dst, 1, result) = Content(stream, Len(stream.ends))
    BY DEF RetriesGiveTheAnswer
  <2>1. result \in Nat \cup {-1}
    BY DEF CInv, RetryTypes, Answers, SettledForGood
  <2>2. CASE result = -1
    BY <2>2 DEF CInv, Answered
  <2>3. CASE result \in Nat
    <3>1. /\ ~ Malformed(stream) /\ ~ EmptyBzip2(stream)
          /\ result = Whole /\ Whole <= cap /\ \A k \in 1 .. Whole : dst[k] = k
      BY <2>3 DEF CInv, Answered
    <3>2. dst \in [1 .. cap -> Nat] /\ cap \in Nat /\ Whole \in Nat
      BY Facts DEF CInv, RetryTypes
    <3>3. /\ Content(stream, Len(stream.ends)) = [k \in 1 .. Whole |-> k]
          /\ Len(Content(stream, Len(stream.ends))) = Whole
      BY <3>2, ContentFacts DEF Whole, Content
    <3>4. SubSeq(dst, 1, Whole) = [k \in 1 .. Whole |-> k]
      BY <3>1, <3>2, FrontOfBuffer
    <3>. QED
      BY <3>1, <3>3, <3>4
  <2>. QED
    BY <2>1, <2>2, <2>3
<1>. QED
  BY <1>1, Invariance, PTL

(***************************************************************************)
(* Whatever makes a call fail, it fails before it writes.                  *)
(***************************************************************************)
THEOREM ErrorsWriteNothing == Spec => []ErrorsLeaveDst
<1>1. CInv => ErrorsLeaveDst
  BY DEF CInv, Answered, ErrorsLeaveDst
<1>. QED
  BY <1>1, Invariance, PTL

=============================================================================
