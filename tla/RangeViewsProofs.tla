-------------------------- MODULE RangeViewsProofs --------------------------
(***************************************************************************)
(* Theorems about range reads, for every length of the file, every request *)
(* and every off_t: the variables of the loop stay in their ranges, the    *)
(* loop is the atomic range read of RangeSource, and a range of nested     *)
(* views is the same range of the bytes below, however they are nested.    *)
(***************************************************************************)
EXTENDS RangeViews, SequenceTheorems, FiniteSetTheorems, WellFoundedInduction, TLAPS


(***************************************************************************)
(* The inductive invariant: the buffer of a running read has the size of   *)
(* the range and begins with the bytes of it that are read; the least      *)
(* length seen is no more than the length now.                             *)
(***************************************************************************)
ReadSoFar ==
  status = "reading" =>
    /\ Len(output) = Wanted
    /\ \A k \in 1 .. done : output[k] = call.offset + k - 1

IInv == TypeOK /\ ReadSoFar /\ shortest <= fileLen

(* A function on the first n numbers is a sequence of n elements. *)
LEMMA FunctionIsSeq ==
  ASSUME NEW n \in Nat, NEW S, NEW f \in [1 .. n -> S]
  PROVE  f \in Seq(S) /\ Len(f) = n
<1>1. f \in Seq(S)
  BY SeqDef
<1>2. Len(f) \in Nat /\ 1 .. Len(f) = 1 .. n
  BY <1>1, LenProperties
<1> QED
  BY <1>1, <1>2

(* The part of a range that lies in the source is as long as the range, or shorter. *)
LEMMA ActualFits ==
  ASSUME NEW c \in Promise!Requests, NEW s \in Nat
  PROVE  /\ Promise!Actual(c, s) \in 0 .. c.length
         /\ Promise!Actual(c, s) > 0 => c.offset + Promise!Actual(c, s) <= s
BY FdAssumption DEF Promise!Actual, Promise!Requests

LEMMA WantedFits == TypeOK => Wanted \in Nat /\ (Wanted > 0 => call.offset + Wanted <= size)
BY ActualFits, FdAssumption DEF TypeOK, Wanted, Promise!Requests

(* A fresh buffer is a sequence of blanks. *)
LEMMA FreshBuffer ==
  ASSUME NEW n \in Nat
  PROVE  Fresh(n) \in Seq(Blank .. MaxLen) /\ Len(Fresh(n)) = n
BY FdAssumption DEF Fresh, Blank

THEOREM InitEstablishes == Init => IInv
<1> SUFFICES ASSUME Init PROVE IInv
  OBVIOUS
<1>1. Wanted \in Nat
  BY ActualFits, FdAssumption DEF Init, Wanted, Promise!Requests
<1>2. output \in Seq(Blank .. MaxLen) /\ Len(output) = Wanted
  BY <1>1, FreshBuffer DEF Init
<1>3. TypeOK
  BY <1>1, <1>2, FdAssumption DEF Init, TypeOK
<1> QED
  BY <1>2, <1>3 DEF Init, IInv, ReadSoFar, TypeOK

(* The bytes a transfer adds are those of the file behind the ones read. *)
LEMMA TransferKeeps == IInv /\ Transfer => IInv'
<1> SUFFICES ASSUME IInv, Transfer PROVE IInv'
  OBVIOUS
<1> USE FdAssumption
<1>1. PICK n \in 1 .. Left :
        /\ Position + n <= fileLen
        /\ output' = [k \in DOMAIN output |->
                        IF k \in done + 1 .. done + n THEN Position + k - done - 1 ELSE output[k]]
        /\ done' = done + n
  BY DEF Transfer
<1>2. UNCHANGED << fileLen, size, call, shortest, signals, status >> /\ status = "reading"
  BY DEF Transfer, InLoop
<1>3. Wanted' = Wanted
  BY <1>2 DEF Wanted, Promise!Actual
<1>4. /\ call.offset \in Nat /\ done \in Nat /\ fileLen \in 0 .. MaxLen /\ Wanted \in Nat
      /\ Len(output) = Wanted /\ output \in Seq(Blank .. MaxLen)
  BY <1>2, WantedFits DEF IInv, TypeOK, ReadSoFar, Promise!Requests
<1>5. n \in Nat /\ done + n <= Wanted
  BY <1>1, <1>4 DEF Left
<1>6. output \in [1 .. Wanted -> Blank .. MaxLen]
  BY <1>4, LenProperties
<1>7. output' \in Seq(Blank .. MaxLen) /\ Len(output') = Wanted
  <2>1. ASSUME NEW k \in 1 .. Wanted PROVE output'[k] \in Blank .. MaxLen
    <3>1. CASE k \in done + 1 .. done + n
      <4>1. output'[k] = call.offset + done + k - done - 1
        BY <3>1, <1>1, <1>6 DEF Position
      <4> QED
        BY <4>1, <3>1, <1>1, <1>4, <1>5 DEF Position, Blank
    <3>2. CASE k \notin done + 1 .. done + n
      BY <3>2, <1>1, <1>6
    <3> QED
      BY <3>1, <3>2
  <2>2. output' = [k \in 1 .. Wanted |-> output'[k]]
    BY <1>1, <1>6
  <2>3. output' \in [1 .. Wanted -> Blank .. MaxLen]
    BY <2>1, <2>2
  <2> QED
    BY <2>3, <1>4, FunctionIsSeq
<1>8. TypeOK'
  BY <1>1, <1>2, <1>3, <1>4, <1>5, <1>7 DEF IInv, TypeOK
<1>9. ASSUME NEW k \in 1 .. done' PROVE output'[k] = call.offset + k - 1
  BY <1>1, <1>2, <1>4, <1>5 DEF Position, IInv, ReadSoFar
<1> QED
  BY <1>2, <1>3, <1>7, <1>8, <1>9 DEF IInv, ReadSoFar

(* Cut at the end of the file, the buffer holds what was read. *)
LEMMA CutBuffer ==
  IInv /\ status = "reading" =>
    SubSeq(output, 1, done) \in Seq(Blank .. MaxLen) /\ Len(SubSeq(output, 1, done)) = done
<1> SUFFICES ASSUME IInv, status = "reading"
             PROVE  SubSeq(output, 1, done) \in Seq(Blank .. MaxLen) /\ Len(SubSeq(output, 1, done)) = done
  OBVIOUS
<1>1. done \in Nat /\ done <= Len(output) /\ output \in Seq(Blank .. MaxLen) /\ Len(output) \in Nat
  BY LenProperties DEF IInv, TypeOK
<1>2. output \in [1 .. Len(output) -> Blank .. MaxLen]
  BY <1>1, LenProperties
<1>3. \A k \in 1 .. done : output[k] \in Blank .. MaxLen
  BY <1>1, <1>2
<1> QED
  BY <1>1, <1>3, SubSeqProperties

LEMMA CallKeeps ==
  ASSUME IInv, NEW c \in Promise!Requests, Call(c)
  PROVE  IInv'
<1> USE FdAssumption
<1>1. /\ call' = c /\ output' = Fresh(Promise!Actual(c, size)) /\ done' = 0 /\ signals' = 0
      /\ status' = "reading" /\ shortest' = fileLen /\ fileLen' = fileLen /\ size' = size
  BY DEF Call, Begin
<1>2. /\ fileLen \in 0 .. MaxLen /\ size \in 0 .. MaxLen
      /\ Promise!Actual(c, size) \in Nat
  <2>1. fileLen \in 0 .. MaxLen /\ size \in 0 .. MaxLen /\ size \in Nat
    BY DEF IInv, TypeOK
  <2>2. c.length \in Nat /\ Promise!Actual(c, size) \in 0 .. c.length
    BY <2>1, ActualFits DEF Promise!Requests
  <2> QED
    BY <2>1, <2>2
<1>3. Wanted' = Promise!Actual(c, size)
  BY <1>1 DEF Wanted, Promise!Actual
<1>4. output' \in Seq(Blank .. MaxLen) /\ Len(output') = Wanted'
  BY <1>1, <1>2, <1>3, FreshBuffer
<1>5. TypeOK'
  BY <1>1, <1>2, <1>3, <1>4 DEF TypeOK
<1> QED
  BY <1>1, <1>2, <1>4, <1>5 DEF IInv, ReadSoFar

(* The invariant is inductive. *)
LEMMA StepKeeps == IInv /\ [Next]_fdVars => IInv'
<1> SUFFICES ASSUME IInv, [Next]_fdVars PROVE IInv'
  OBVIOUS
<1> USE FdAssumption
<1>1. CASE Resize
  <2>1. UNCHANGED << size, call, output, done, signals, status >> /\ Wanted' = Wanted
    BY <1>1 DEF Resize, Wanted, Promise!Actual
  <2> QED
    BY <1>1, <2>1 DEF Resize, IInv, TypeOK, ReadSoFar
<1>2. CASE PositionTooLarge \/ DeviceFails \/ Finish
  <2>1. UNCHANGED << fileLen, size, call, shortest, output, done, signals >>
        /\ status' \in {"ok", "io", "outOfRange"}
    BY <1>2 DEF PositionTooLarge, DeviceFails, Finish
  <2>2. Wanted' = Wanted
    BY <2>1 DEF Wanted, Promise!Actual
  <2> QED
    BY <2>1, <2>2 DEF IInv, TypeOK, ReadSoFar
<1>3. CASE Transfer
  BY <1>3, TransferKeeps
<1>4. CASE Interrupted
  <2>1. UNCHANGED << fileLen, size, call, shortest, output, done, status >> /\ signals' \in 0 .. MaxSignals
    BY <1>4 DEF Interrupted, IInv, TypeOK
  <2>2. Wanted' = Wanted
    BY <2>1 DEF Wanted, Promise!Actual
  <2> QED
    BY <2>1, <2>2 DEF IInv, TypeOK, ReadSoFar
<1>5. CASE EndOfFile
  <2>1. UNCHANGED << fileLen, size, call, shortest, done, signals >> /\ status = "reading"
        /\ status' = "ok" /\ output' = SubSeq(output, 1, done)
    BY <1>5 DEF EndOfFile, InLoop
  <2>2. Wanted' = Wanted
    BY <2>1 DEF Wanted, Promise!Actual
  <2>3. output' \in Seq(Blank .. MaxLen) /\ Len(output') = done
    BY <2>1, CutBuffer
  <2>4. done \in Nat /\ done <= Wanted
    BY <2>1, LenProperties DEF IInv, TypeOK, ReadSoFar
  <2> QED
    BY <2>1, <2>2, <2>3, <2>4 DEF IInv, TypeOK, ReadSoFar
<1>6. CASE NextCall
  BY <1>6, CallKeeps DEF NextCall
<1>7. CASE UNCHANGED fdVars
  <2>1. Wanted' = Wanted
    BY <1>7 DEF fdVars, Wanted, Promise!Actual
  <2> QED
    BY <1>7, <2>1 DEF fdVars, IInv, TypeOK, ReadSoFar
<1> QED
  BY <1>1, <1>2, <1>3, <1>4, <1>5, <1>6, <1>7 DEF Next, Progress

(***************************************************************************)
(* The variables of a range read stay in their ranges, for every file,     *)
(* request and off_t: the buffer never outgrows the range and no position  *)
(* read lies outside of it.                                                *)
(***************************************************************************)
THEOREM TypeCorrect == Spec => []TypeOK
<1>1. IInv => TypeOK
  BY DEF IInv
<1> QED
  BY <1>1, InitEstablishes, StepKeeps, PTL DEF Spec

-----------------------------------------------------------------------------
(* What a caller has while the read is running, when it succeeded, when it failed. *)
LEMMA Answers ==
  /\ status = "reading" => Answer = Promise!Pending
  /\ status = "ok" => Answer = Promise!Ok(output)
  /\ status \in {"io", "outOfRange"} => Answer = Promise!Failed(status)
BY DEF Answer, Promise!Pending, Promise!Ok, Promise!Failed

(* A read that ended has an answer. *)
LEMMA OnlyReadingIsPending ==
  TypeOK /\ status # "reading" => Answer # Promise!Pending
BY DEF TypeOK, Answer, Promise!Pending

(* Full, the buffer holds the range; cut at the end of the file, what is left of it. *)
LEMMA BufferIsTheRange ==
  IInv /\ status = "reading" /\ done = Wanted => output = Promise!FileBytes(call.offset, Wanted)
<1> SUFFICES ASSUME IInv, status = "reading", done = Wanted
             PROVE  output = Promise!FileBytes(call.offset, Wanted)
  OBVIOUS
<1>1. output \in Seq(Blank .. MaxLen) /\ Len(output) = Wanted
  BY DEF IInv, TypeOK, ReadSoFar
<1>2. output = [k \in 1 .. Wanted |-> output[k]]
  BY <1>1, LenProperties
<1>3. \A k \in 1 .. Wanted : output[k] = call.offset + k - 1
  BY DEF IInv, ReadSoFar
<1> QED
  BY <1>2, <1>3 DEF Promise!FileBytes

LEMMA CutIsTheRange ==
  IInv /\ status = "reading" => SubSeq(output, 1, done) = Promise!FileBytes(call.offset, done)
<1> SUFFICES ASSUME IInv, status = "reading"
             PROVE  SubSeq(output, 1, done) = Promise!FileBytes(call.offset, done)
  OBVIOUS
<1> DEFINE cut == SubSeq(output, 1, done)
<1>1. done \in Nat /\ done <= Len(output) /\ output \in Seq(Blank .. MaxLen) /\ Len(output) \in Nat
  BY LenProperties DEF IInv, TypeOK
<1>2. output \in [1 .. Len(output) -> Blank .. MaxLen]
  BY <1>1, LenProperties
<1>3. \A k \in 1 .. done : output[k] \in Blank .. MaxLen
  BY <1>1, <1>2
<1>4. cut \in Seq(Blank .. MaxLen) /\ Len(cut) = done /\ \A k \in 1 .. done : cut[k] = output[k]
  BY <1>1, <1>3, SubSeqProperties
<1>5. \A k \in 1 .. done : output[k] = call.offset + k - 1
  BY DEF IInv, ReadSoFar
<1> HIDE DEF cut
<1>6. cut = [k \in 1 .. done |-> cut[k]]
  BY <1>4, LenProperties
<1>7. cut = Promise!FileBytes(call.offset, done)
  BY <1>4, <1>5, <1>6 DEF Promise!FileBytes
<1> QED
  BY <1>7 DEF cut

(***************************************************************************)
(* Every step of the loop is a step of the atomic read or none: a transfer *)
(* and a signal leave the caller waiting, the end of the loop and the end  *)
(* of the file give the answer.                                            *)
(***************************************************************************)
LEMMA StepImplements ==
  IInv /\ [Next]_fdVars => [Promise!RangeNext]_(Promise!rangeVars)
<1> SUFFICES ASSUME IInv, [Next]_fdVars
             PROVE  Promise!RangeNext \/ UNCHANGED Promise!rangeVars
  OBVIOUS
<1> USE FdAssumption
<1>t. /\ call \in Promise!Requests /\ call.offset \in Nat /\ done \in Nat /\ Wanted \in Nat
      /\ size \in Nat /\ fileLen \in Nat /\ shortest \in Nat /\ shortest <= fileLen
  BY WantedFits DEF IInv, TypeOK, Promise!Requests
<1>1. CASE Resize
  <2>1. UNCHANGED Answer
    BY <1>1 DEF Resize, Answer
  <2> QED
    BY <1>1, <2>1 DEF Resize, Promise!Resize, Promise!RangeNext
<1>2. CASE PositionTooLarge
  <2>1. /\ status = "reading" /\ done < Wanted /\ call.offset + done > MaxPosition
        /\ UNCHANGED << fileLen, size, call, shortest >> /\ status' = "outOfRange"
    BY <1>2 DEF PositionTooLarge, InLoop, Position
  <2>2. Answer = Promise!Pending /\ Answer' = Promise!Failed("outOfRange")
    BY <2>1 DEF Answer, Promise!Pending, Promise!Failed
  <2>3. call.offset + Wanted - 1 > MaxPosition
    BY <2>1, <1>t
  <2> QED
    BY <2>1, <2>2, <2>3 DEF Wanted, Promise!AnswerError, Promise!RangeNext
<1>3. CASE DeviceFails
  <2>1. /\ status = "reading" /\ Wanted > 0
        /\ UNCHANGED << fileLen, size, call, shortest >> /\ status' = "io"
    BY <1>3, <1>t DEF DeviceFails, InLoop
  <2>2. Answer = Promise!Pending /\ Answer' = Promise!Failed("io")
    BY <2>1 DEF Answer, Promise!Pending, Promise!Failed
  <2> QED
    BY <2>1, <2>2 DEF Wanted, Promise!AnswerError, Promise!RangeNext
<1>4. CASE Transfer \/ Interrupted
  <2>1. status = "reading" /\ UNCHANGED << fileLen, size, call, shortest, status >>
    BY <1>4 DEF Transfer, Interrupted, InLoop
  <2>2. UNCHANGED Answer
    BY <2>1 DEF Answer
  <2> QED
    BY <2>1, <2>2 DEF Promise!rangeVars
<1>5. CASE EndOfFile
  <2>1. /\ status = "reading" /\ done < Wanted /\ call.offset + done >= fileLen
        /\ UNCHANGED << fileLen, size, call, shortest >>
        /\ status' = "ok" /\ output' = SubSeq(output, 1, done)
    BY <1>5 DEF EndOfFile, InLoop, Position
  <2>2. output' = Promise!FileBytes(call.offset, done)
    BY <2>1, CutIsTheRange
  <2>3. Answer = Promise!Pending /\ Answer' = Promise!Ok(Promise!FileBytes(call.offset, done))
    BY <2>1, <2>2 DEF Answer, Promise!Pending, Promise!Ok
  <2>4. Promise!CutShort(call, size, done) /\ done \in 0 .. Promise!Actual(call, size)
    BY <2>1, <1>t DEF Promise!CutShort, Wanted
  <2> QED
    BY <2>1, <2>3, <2>4 DEF Promise!AnswerBytes, Promise!RangeNext
<1>6. CASE Finish
  <2>1. /\ status = "reading" /\ done = Wanted /\ status' = "ok"
        /\ UNCHANGED << fileLen, size, call, shortest, output >>
    BY <1>6, <1>t DEF Finish, IInv, TypeOK, ReadSoFar
  <2>2. output' = Promise!FileBytes(call.offset, Wanted)
    BY <2>1, BufferIsTheRange
  <2>3. Answer = Promise!Pending /\ Answer' = Promise!Ok(Promise!FileBytes(call.offset, Wanted))
    BY <2>1, <2>2 DEF Answer, Promise!Pending, Promise!Ok
  <2>4. Promise!Complete(call, size, Wanted) /\ Wanted \in 0 .. Promise!Actual(call, size)
    BY <1>t DEF Promise!Complete, Wanted
  <2> QED
    BY <2>1, <2>3, <2>4 DEF Promise!AnswerBytes, Promise!RangeNext
<1>7. CASE NextCall
  <2>1. PICK c \in Promise!Requests : Call(c)
    BY <1>7 DEF NextCall
  <2>2. /\ status # "reading" /\ call' = c /\ status' = "reading" /\ shortest' = fileLen
        /\ UNCHANGED << fileLen, size >>
    BY <2>1 DEF Call, Begin
  <2>3. Answer # Promise!Pending
    BY <2>2, OnlyReadingIsPending DEF IInv
  <2>4. Answer' = Promise!Pending
    BY <2>2 DEF Answer, Promise!Pending
  <2> QED
    BY <2>2, <2>3, <2>4 DEF Promise!NextCall, Promise!RangeNext
<1>8. CASE UNCHANGED fdVars
  BY <1>8 DEF fdVars, Answer, Promise!rangeVars
<1> QED
  BY <1>1, <1>2, <1>3, <1>4, <1>5, <1>6, <1>7, <1>8 DEF Next, Progress

(***************************************************************************)
(* The loop of partial, interrupted and cut short preads is the atomic     *)
(* range read of RangeSource, whatever the file does meanwhile.            *)
(***************************************************************************)
THEOREM ImplementsRangeRead == Spec => IsRangeRead
<1>1. Init => Promise!RangeInit
  BY Answers DEF Init, Promise!RangeInit
<1> QED
  BY <1>1, InitEstablishes, StepKeeps, StepImplements, PTL DEF Spec, IsRangeRead, Promise!RangeSpec

-----------------------------------------------------------------------------
(***************************************************************************)
(* Views.  The walk of a request through a tower of views, and the sum of  *)
(* their offsets, are functions defined by recursion; that there are such  *)
(* functions is shown by the least height at which there is none.          *)
(***************************************************************************)
LEMMA LeastHeight ==
  ASSUME NEW S \in SUBSET Nat, S # {}
  PROVE  \E n \in S : \A m \in S : n <= m
<1>. DEFINE R == { pair \in Nat \X Nat : pair[1] < pair[2] }
<1>1. IsWellFoundedOn(R, Nat)
  BY NatLessThanWellFounded DEF OpToRel
<1>2. ASSUME NEW m \in Nat, NEW n \in Nat, m < n PROVE << m, n >> \in R
  BY <1>2
<1>. HIDE DEF R
<1>3. PICK n \in S : \A m \in S : ~ (<< m, n >> \in R)
  BY <1>1, WFMin
<1>4. ASSUME NEW m \in S PROVE n <= m
  <2>1. m \in Nat /\ n \in Nat
    OBVIOUS
  <2>2. ~ (m < n)
    BY <1>2, <1>3, <2>1
  <2>. QED
    BY <2>1, <2>2
<1>. QED
  BY <1>4

Descends(views, request, n, w) ==
  w = [d \in 0 .. n |-> IF d = 0 THEN request ELSE Narrowed(w[d - 1], views[d])]

LEMMA DescentExists ==
  ASSUME NEW views, NEW request, NEW n \in Nat
  PROVE  \E w : Descends(views, request, n, w)
<1>. DEFINE Bad == { m \in Nat : ~ \E w : Descends(views, request, m, w) }
<1>. SUFFICES ASSUME Bad # {} PROVE FALSE
  OBVIOUS
<1>1. PICK m \in Bad : \A b \in Bad : m <= b
  <2>1. Bad \in SUBSET Nat
    OBVIOUS
  <2>. QED
    BY <2>1, LeastHeight
<1>2. m \in Nat /\ ~ \E w : Descends(views, request, m, w)
  OBVIOUS
<1>3. CASE m = 0
  <2>. DEFINE w == [d \in 0 .. 0 |-> request]
  <2>1. Descends(views, request, 0, w)
    BY DEF Descends
  <2>. QED
    BY <1>2, <1>3, <2>1
<1>4. CASE m # 0
  <2>1. m - 1 \in Nat /\ m - 1 \notin Bad
    BY <1>1, <1>2, <1>4
  <2>2. PICK u : Descends(views, request, m - 1, u)
    BY <2>1
  <2>. DEFINE w == [d \in 0 .. m |-> IF d = m THEN Narrowed(u[m - 1], views[m]) ELSE u[d]]
              Step(f, d) == IF d = 0 THEN request ELSE Narrowed(f[d - 1], views[d])
  <2>3. u = [d \in 0 .. m - 1 |-> Step(u, d)]
    BY <2>2 DEF Descends
  <2>4. ASSUME NEW d \in 0 .. m PROVE w[d] = Step(w, d)
    <3>1. CASE d = 0
      <4>1. w[d] = u[0] /\ 0 \in 0 .. m - 1
        BY <1>2, <1>4, <3>1
      <4>. QED
        BY <2>3, <3>1, <4>1
    <3>2. CASE d # 0 /\ d # m
      <4>1. w[d] = u[d] /\ w[d - 1] = u[d - 1] /\ d \in 0 .. m - 1
        BY <1>2, <3>2
      <4>. QED
        BY <2>3, <3>2, <4>1
    <3>3. CASE d # 0 /\ d = m
      <4>1. w[d - 1] = u[m - 1] /\ w[d] = Narrowed(u[m - 1], views[m])
        BY <1>2, <3>3
      <4>. QED
        BY <3>3, <4>1
    <3>. QED
      BY <3>1, <3>2, <3>3
  <2>5. w = [d \in 0 .. m |-> Step(w, d)]
    BY <2>4
  <2>6. Descends(views, request, m, w)
    BY <2>5 DEF Descends
  <2>. QED
    BY <1>2, <2>6
<1>. QED
  BY <1>3, <1>4

LEMMA ThroughDescends ==
  ASSUME NEW views, NEW request, Len(views) \in Nat
  PROVE  \E w : Descends(views, request, Len(views), w) /\ Through(views, request) = w[Len(views)]
<1>1. \E w : Descends(views, request, Len(views), w)
  BY DescentExists
<1>. QED
  BY <1>1 DEF Descends, Through

Sums(n, w) == w = [d \in 0 .. n |-> IF d = 0 THEN 0 ELSE w[d - 1] + tower[d].offset]

LEMMA SumExists ==
  ASSUME NEW n \in Nat
  PROVE  \E w : Sums(n, w)
<1>. DEFINE Bad == { m \in Nat : ~ \E w : Sums(m, w) }
<1>. SUFFICES ASSUME Bad # {} PROVE FALSE
  OBVIOUS
<1>1. PICK m \in Bad : \A b \in Bad : m <= b
  <2>1. Bad \in SUBSET Nat
    OBVIOUS
  <2>. QED
    BY <2>1, LeastHeight
<1>2. m \in Nat /\ ~ \E w : Sums(m, w)
  OBVIOUS
<1>3. CASE m = 0
  <2>. DEFINE w == [d \in 0 .. 0 |-> 0]
  <2>1. Sums(0, w)
    BY DEF Sums
  <2>. QED
    BY <1>2, <1>3, <2>1
<1>4. CASE m # 0
  <2>1. m - 1 \in Nat /\ m - 1 \notin Bad
    BY <1>1, <1>2, <1>4
  <2>2. PICK u : Sums(m - 1, u)
    BY <2>1
  <2>. DEFINE w == [d \in 0 .. m |-> IF d = m THEN u[m - 1] + tower[m].offset ELSE u[d]]
              Step(f, d) == IF d = 0 THEN 0 ELSE f[d - 1] + tower[d].offset
  <2>3. u = [d \in 0 .. m - 1 |-> Step(u, d)]
    BY <2>2 DEF Sums
  <2>4. ASSUME NEW d \in 0 .. m PROVE w[d] = Step(w, d)
    <3>1. CASE d = 0
      <4>1. w[d] = u[0] /\ 0 \in 0 .. m - 1
        BY <1>2, <1>4, <3>1
      <4>. QED
        BY <2>3, <3>1, <4>1
    <3>2. CASE d # 0 /\ d # m
      <4>1. w[d] = u[d] /\ w[d - 1] = u[d - 1] /\ d \in 0 .. m - 1
        BY <1>2, <3>2
      <4>. QED
        BY <2>3, <3>2, <4>1
    <3>3. CASE d # 0 /\ d = m
      <4>1. w[d - 1] = u[m - 1] /\ w[d] = u[m - 1] + tower[m].offset
        BY <1>2, <3>3
      <4>. QED
        BY <3>3, <4>1
    <3>. QED
      BY <3>1, <3>2, <3>3
  <2>5. w = [d \in 0 .. m |-> Step(w, d)]
    BY <2>4
  <2>6. Sums(m, w)
    BY <2>5 DEF Sums
  <2>. QED
    BY <1>2, <2>6
<1>. QED
  BY <1>3, <1>4

LEMMA ShiftSums ==
  ASSUME Len(tower) \in Nat
  PROVE  Sums(Len(tower), Shift)
<1>1. \E w : Sums(Len(tower), w)
  BY SumExists
<1>. QED
  BY <1>1 DEF Sums, Shift

-----------------------------------------------------------------------------
(***************************************************************************)
(* One view: what it passes on of a request.                               *)
(***************************************************************************)
AnyView == [offset : 0 .. MaxOffset, size : 0 .. MaxOffset]

LEMMA MinOfPair ==
  ASSUME NEW a \in Nat, NEW b \in Nat
  PROVE  Min({a, b}) = IF a <= b THEN a ELSE b
<1>1. \E x \in {a, b} : \A y \in {a, b} : x <= y
  OBVIOUS
<1>2. Min({a, b}) \in {a, b} /\ \A y \in {a, b} : Min({a, b}) <= y
  BY <1>1 DEF Min
<1>. QED
  BY <1>2

LEMMA Wraps ==
  ASSUME NEW n \in Nat, NEW m \in Nat
  PROVE  n % (m + 1) \in 0 .. m /\ (n <= m => n % (m + 1) = n)
  OBVIOUS

(* Nothing is passed on of a range that is empty or begins behind the view. *)
PassesNothing(r, v) == r.length = 0 \/ v.size <= r.offset

Passed(r, v, s) ==
  /\ s \in Promise!Requests /\ s.length <= r.length
  /\ PassesNothing(r, v) => s.length = 0
  /\ ~ PassesNothing(r, v) =>
       /\ s.length = IF r.length <= v.size - r.offset THEN r.length ELSE v.size - r.offset
       /\ v.offset + v.size <= MaxOffset => s.offset = v.offset + r.offset

LEMMA NarrowedIsPassed ==
  ASSUME NEW r \in Promise!Requests, NEW v \in AnyView
  PROVE  Passed(r, v, Narrowed(r, v))
<1>. DEFINE start == Min({r.offset, v.size})
            stop == Min({start + r.length, v.size})
<1>1. /\ r.offset \in Nat /\ r.length \in Nat /\ r.offset <= MaxOffset /\ r.length <= MaxOffset
      /\ v.offset \in Nat /\ v.size \in Nat /\ v.offset <= MaxOffset /\ v.size <= MaxOffset
      /\ MaxOffset \in Nat
  BY FdAssumption DEF Promise!Requests, AnyView
<1>2. start = IF r.offset <= v.size THEN r.offset ELSE v.size
  BY <1>1, MinOfPair
<1>3. start \in Nat /\ start + r.length \in Nat
  BY <1>1, <1>2
<1>4. stop = IF start + r.length <= v.size THEN start + r.length ELSE v.size
  BY <1>1, <1>3, MinOfPair
<1>. DEFINE moved == (v.offset + start) % (MaxOffset + 1)
<1>5. moved \in 0 .. MaxOffset /\ (v.offset + start <= MaxOffset => moved = v.offset + start)
  <2>1. v.offset + start \in Nat
    BY <1>1, <1>3
  <2>. QED
    BY <1>1, <2>1, Wraps
<1>6. Narrowed(r, v) = IF stop = start THEN Empty ELSE [offset |-> moved, length |-> stop - start]
  BY DEF Narrowed
<1>. HIDE DEF moved, start, stop
<1>7. stop = start <=> PassesNothing(r, v)
  BY <1>1, <1>2, <1>4 DEF PassesNothing
<1>8. CASE stop = start
  <2>1. Narrowed(r, v).length = 0 /\ Narrowed(r, v) \in Promise!Requests
    BY <1>1, <1>6, <1>8 DEF Empty, Promise!Requests
  <2>. QED
    BY <1>1, <1>7, <1>8, <2>1 DEF Passed
<1>9. CASE stop # start
  <2>1. /\ Narrowed(r, v) = [offset |-> moved, length |-> stop - start]
        /\ r.offset < v.size /\ start = r.offset
    BY <1>1, <1>2, <1>6, <1>7, <1>9 DEF PassesNothing
  <2>2. /\ stop - start = IF r.length <= v.size - r.offset THEN r.length ELSE v.size - r.offset
        /\ stop - start \in 0 .. MaxOffset /\ stop - start <= r.length
    BY <1>1, <1>4, <2>1
  <2>3. Narrowed(r, v).length = stop - start /\ Narrowed(r, v).offset = moved
    BY <2>1
  <2>4. Narrowed(r, v) \in Promise!Requests
    BY <1>5, <2>1, <2>2 DEF Promise!Requests
  <2>5. v.offset + v.size <= MaxOffset => moved = v.offset + r.offset
    BY <1>1, <1>5, <2>1
  <2>. QED
    BY <1>7, <1>9, <2>2, <2>3, <2>4, <2>5 DEF Passed
<1>. QED
  BY <1>8, <1>9

StepsDown(views, request, n, w) ==
  /\ w[0] = request
  /\ \A d \in 1 .. n : w[d] = Narrowed(w[d - 1], views[d])

LEMMA DescentSteps ==
  ASSUME NEW views, NEW request, NEW n \in Nat, NEW w, Descends(views, request, n, w)
  PROVE  StepsDown(views, request, n, w)
<1>1. ASSUME NEW d \in 0 .. n
      PROVE  w[d] = IF d = 0 THEN request ELSE Narrowed(w[d - 1], views[d])
  BY DEF Descends
<1>2. 0 \in 0 .. n /\ \A d \in 1 .. n : d \in 0 .. n /\ d # 0
  OBVIOUS
<1>. QED
  BY <1>1, <1>2 DEF StepsDown

LEMMA SumSteps ==
  ASSUME NEW n \in Nat, NEW w, Sums(n, w)
  PROVE  /\ w[0] = 0
         /\ \A d \in 1 .. n : w[d] = w[d - 1] + tower[d].offset
<1>1. ASSUME NEW d \in 0 .. n
      PROVE  w[d] = IF d = 0 THEN 0 ELSE w[d - 1] + tower[d].offset
  BY DEF Sums
<1>2. 0 \in 0 .. n /\ \A d \in 1 .. n : d \in 0 .. n /\ d # 0
  OBVIOUS
<1>. QED
  BY <1>1, <1>2

(* What is passed down a tower is a request at every height. *)
LEMMA DescentIsTyped ==
  ASSUME NEW views \in Seq(AnyView), NEW request \in Promise!Requests, NEW w,
         Descends(views, request, Len(views), w)
  PROVE  \A d \in 0 .. Len(views) : w[d] \in Promise!Requests
<1>. DEFINE n == Len(views)
            Bad == { d \in 0 .. n : w[d] \notin Promise!Requests }
<1>1. n \in Nat
  OBVIOUS
<1>2. /\ w[0] = request
      /\ \A d \in 1 .. n : w[d] = Narrowed(w[d - 1], views[d])
  <2>1. StepsDown(views, request, n, w)
    BY <1>1, DescentSteps
  <2>. QED
    BY <2>1 DEF StepsDown
<1>3. ASSUME NEW d \in 1 .. n, w[d - 1] \in Promise!Requests PROVE w[d] \in Promise!Requests
  <2>1. views[d] \in AnyView
    OBVIOUS
  <2>2. Passed(w[d - 1], views[d], Narrowed(w[d - 1], views[d]))
    BY <1>3, <2>1, NarrowedIsPassed
  <2>. QED
    BY <1>2, <2>2 DEF Passed
<1>4. Bad = {}
  <2>. SUFFICES ASSUME Bad # {} PROVE FALSE
    OBVIOUS
  <2>1. PICK d \in Bad : \A b \in Bad : d <= b
    <3>1. Bad \in SUBSET Nat
      BY <1>1
    <3>. HIDE DEF Bad
    <3>. QED
      BY <3>1, LeastHeight
  <2>2. d \in 0 .. n /\ w[d] \notin Promise!Requests /\ d # 0
    BY <1>2
  <2>3. d - 1 \in 0 .. n /\ d \in 1 .. n /\ ~ (d <= d - 1)
    BY <1>1, <2>2
  <2>4. w[d - 1] \in Promise!Requests
    BY <2>1, <2>3
  <2>. QED
    BY <1>3, <2>2, <2>3, <2>4
<1>. QED
  BY <1>4

LEMMA ThroughIsRequest ==
  ASSUME NEW views \in Seq(AnyView), NEW request \in Promise!Requests
  PROVE  Through(views, request) \in Promise!Requests
<1>1. Len(views) \in Nat /\ Len(views) \in 0 .. Len(views)
  OBVIOUS
<1>2. PICK w : Descends(views, request, Len(views), w) /\ Through(views, request) = w[Len(views)]
  BY <1>1, ThroughDescends
<1>. QED
  BY <1>1, <1>2, DescentIsTyped

-----------------------------------------------------------------------------
(***************************************************************************)
(* What is passed down d views is the part of the range that lies in all   *)
(* of them, moved by the sum of their offsets.                             *)
(***************************************************************************)
InFirst(p, d) == \A e \in 1 .. d : Place(p, e - 1) < tower[e].size

IsWindow(d, r) ==
  /\ r \in Promise!Requests /\ r.length <= asked.length
  /\ r.length > 0 => r.offset = asked.offset + Shift[d]
  /\ \A p \in asked.offset .. asked.offset + asked.length - 1 :
       InFirst(p, d) <=> p < asked.offset + r.length

Nested ==
  /\ tower \in Seq(AnyView) /\ asked \in Promise!Requests
  /\ \A d \in 1 .. Len(tower) : tower[d].offset + tower[d].size <= MaxOffset

LEMMA ShiftIsTyped ==
  ASSUME Nested
  PROVE  /\ Shift[0] = 0
         /\ \A d \in 1 .. Len(tower) : Shift[d] = Shift[d - 1] + tower[d].offset
         /\ \A d \in 0 .. Len(tower) : Shift[d] \in Nat
<1>. DEFINE n == Len(tower)
            Bad == { d \in 0 .. n : Shift[d] \notin Nat }
<1>1. n \in Nat
  BY DEF Nested
<1>2. Shift[0] = 0 /\ \A d \in 1 .. n : Shift[d] = Shift[d - 1] + tower[d].offset
  <2>1. Sums(n, Shift)
    BY <1>1, ShiftSums
  <2>. QED
    BY <1>1, <2>1, SumSteps
<1>3. ASSUME NEW d \in 1 .. n PROVE tower[d].offset \in Nat
  <2>1. tower[d] \in AnyView
    BY DEF Nested
  <2>. QED
    BY <2>1, FdAssumption DEF AnyView
<1>4. Bad = {}
  <2>. SUFFICES ASSUME Bad # {} PROVE FALSE
    OBVIOUS
  <2>1. PICK d \in Bad : \A b \in Bad : d <= b
    <3>1. Bad \in SUBSET Nat
      BY <1>1
    <3>. HIDE DEF Bad
    <3>. QED
      BY <3>1, LeastHeight
  <2>2. d \in 0 .. n /\ Shift[d] \notin Nat /\ d # 0
    BY <1>2
  <2>3. d - 1 \in 0 .. n /\ d \in 1 .. n /\ ~ (d <= d - 1)
    BY <1>1, <2>2
  <2>4. Shift[d - 1] \in Nat
    BY <2>1, <2>3
  <2>5. Shift[d] = Shift[d - 1] + tower[d].offset /\ tower[d].offset \in Nat
    BY <1>2, <1>3, <2>3
  <2>. QED
    BY <2>2, <2>4, <2>5
<1>. QED
  BY <1>2, <1>4

(* A position lies before the clamped end if it lies before both ends. *)
LEMMA ClampedEnd ==
  ASSUME NEW p \in Nat, NEW a \in Nat, NEW by \in Nat, NEW length \in Nat, NEW end \in Nat,
         NEW kept, kept = IF length <= end - (a + by) THEN length ELSE end - (a + by)
  PROVE  p < a + kept <=> p < a + length /\ p + by < end
OBVIOUS

LEMMA ViewKeepsWindow ==
  ASSUME Nested, NEW d \in 1 .. Len(tower), NEW r, IsWindow(d - 1, r)
  PROVE  IsWindow(d, Narrowed(r, tower[d]))
<1>. DEFINE v == tower[d]
            s == Narrowed(r, v)
            a == asked.offset
            shift == Shift[d - 1]
<1>1. /\ v \in AnyView /\ v.offset + v.size <= MaxOffset
      /\ asked \in Promise!Requests /\ r \in Promise!Requests
  BY DEF Nested, IsWindow
<1>2. /\ d \in Nat /\ d >= 1 /\ d - 1 \in 0 .. Len(tower)
  BY DEF Nested
<1>3. /\ a \in Nat /\ asked.length \in Nat /\ r.offset \in Nat /\ r.length \in Nat
      /\ v.offset \in Nat /\ v.size \in Nat
  BY <1>1, FdAssumption DEF Promise!Requests, AnyView
<1>4. shift \in Nat /\ Shift[d] = shift + v.offset
  BY <1>2, ShiftIsTyped
<1>5. Passed(r, v, s)
  BY <1>1, NarrowedIsPassed
<1>6. /\ r.length <= asked.length
      /\ r.length > 0 => r.offset = a + shift
      /\ \A p \in a .. a + asked.length - 1 : InFirst(p, d - 1) <=> p < a + r.length
  BY DEF IsWindow
<1>7. ASSUME NEW p \in a .. a + asked.length - 1
      PROVE  InFirst(p, d) <=> InFirst(p, d - 1) /\ p + shift < v.size
  <2>1. Place(p, d - 1) = p + shift
    BY DEF Place
  <2>2. \A e \in 1 .. d : e \in 1 .. d - 1 \/ e = d
    BY <1>2
  <2>3. \A e \in 1 .. d - 1 : e \in 1 .. d
    BY <1>2
  <2>4. d \in 1 .. d
    BY <1>2
  <2>. QED
    BY <2>1, <2>2, <2>3, <2>4 DEF InFirst
<1>. HIDE DEF v, s, a, shift
<1>8. s \in Promise!Requests /\ s.length <= r.length /\ s.length \in Nat
  <2>1. s \in Promise!Requests /\ s.length <= r.length
    BY <1>5 DEF Passed
  <2>. QED
    BY <2>1, FdAssumption DEF Promise!Requests
<1>9. s.length <= asked.length
  BY <1>3, <1>6, <1>8
<1>10. s.length > 0 => s.offset = a + Shift[d]
  <2>1. SUFFICES ASSUME s.length > 0 PROVE s.offset = a + Shift[d]
    OBVIOUS
  <2>2. ~ PassesNothing(r, v)
    BY <1>5, <2>1 DEF Passed
  <2>3. s.offset = v.offset + r.offset
    BY <1>1, <1>5, <2>2 DEF Passed, v
  <2>4. r.offset = a + shift
    BY <1>3, <1>6, <2>2 DEF PassesNothing
  <2>. QED
    BY <1>3, <1>4, <2>3, <2>4
<1>11. ASSUME NEW p \in a .. a + asked.length - 1
       PROVE  InFirst(p, d) <=> p < a + s.length
  <2>1. p \in Nat /\ p >= a
    BY <1>3
  <2>2. InFirst(p, d) <=> p < a + r.length /\ p + shift < v.size
    BY <1>6, <1>7
  <2>3. CASE PassesNothing(r, v)
    <3>1. s.length = 0
      BY <1>5, <2>3 DEF Passed
    <3>2. ~ (p < a + r.length /\ p + shift < v.size)
      BY <1>3, <1>4, <1>6, <2>1, <2>3 DEF PassesNothing
    <3>. QED
      BY <1>3, <2>1, <2>2, <3>1, <3>2
  <2>4. CASE ~ PassesNothing(r, v)
    <3>1. s.length = IF r.length <= v.size - r.offset THEN r.length ELSE v.size - r.offset
      BY <1>5, <2>4 DEF Passed
    <3>2. r.offset = a + shift /\ r.offset < v.size /\ r.length > 0
      BY <1>3, <1>6, <2>4 DEF PassesNothing
    <3>3. p < a + s.length <=> p < a + r.length /\ p + shift < v.size
      <4>1. s.length = IF r.length <= v.size - (a + shift) THEN r.length ELSE v.size - (a + shift)
        BY <3>1, <3>2
      <4>. QED
        BY <1>3, <1>4, <2>1, <4>1, ClampedEnd
    <3>. QED
      BY <2>2, <3>3
  <2>. QED
    BY <2>3, <2>4
<1>12. IsWindow(d, s)
  BY <1>8, <1>9, <1>10, <1>11 DEF IsWindow, a
<1>. QED
  BY <1>12 DEF s, v

LEMMA ThroughIsWindow ==
  ASSUME Nested
  PROVE  IsWindow(Len(tower), Through(tower, asked))
<1>. DEFINE n == Len(tower)
<1>1. n \in Nat /\ tower \in Seq(AnyView) /\ asked \in Promise!Requests
  BY DEF Nested
<1>2. PICK w : Descends(tower, asked, n, w) /\ Through(tower, asked) = w[n]
  BY <1>1, ThroughDescends
<1>3. w[0] = asked /\ \A d \in 1 .. n : w[d] = Narrowed(w[d - 1], tower[d])
  <2>1. StepsDown(tower, asked, n, w)
    BY <1>1, <1>2, DescentSteps
  <2>. QED
    BY <2>1 DEF StepsDown
<1>4. IsWindow(0, w[0])
  <2>1. /\ asked.offset \in Nat /\ asked.length \in Nat
    BY <1>1, FdAssumption DEF Promise!Requests
  <2>2. asked.offset = asked.offset + Shift[0]
    BY <2>1, ShiftIsTyped
  <2>3. ASSUME NEW p \in asked.offset .. asked.offset + asked.length - 1
        PROVE  InFirst(p, 0) /\ p < asked.offset + asked.length
    BY <2>1 DEF InFirst
  <2>. QED
    BY <1>1, <1>3, <2>1, <2>2, <2>3 DEF IsWindow
<1>. DEFINE Bad == { d \in 0 .. n : ~ IsWindow(d, w[d]) }
<1>5. Bad = {}
  <2>. SUFFICES ASSUME Bad # {} PROVE FALSE
    OBVIOUS
  <2>1. PICK d \in Bad : \A b \in Bad : d <= b
    <3>1. Bad \in SUBSET Nat
      BY <1>1
    <3>. HIDE DEF Bad
    <3>. QED
      BY <3>1, LeastHeight
  <2>2. d \in 0 .. n /\ ~ IsWindow(d, w[d]) /\ d # 0
    BY <1>4
  <2>3. d - 1 \in 0 .. n /\ d \in 1 .. n /\ ~ (d <= d - 1)
    BY <1>1, <2>2
  <2>4. IsWindow(d - 1, w[d - 1])
    BY <2>1, <2>3
  <2>5. IsWindow(d, Narrowed(w[d - 1], tower[d]))
    BY <2>3, <2>4, ViewKeepsWindow
  <2>. QED
    BY <1>3, <2>2, <2>3, <2>5
<1>6. n \in 0 .. n
  BY <1>1
<1>. QED
  BY <1>2, <1>5, <1>6

-----------------------------------------------------------------------------
(***************************************************************************)
(* The sources composed.  Whatever the bottom is, what is asked of it is   *)
(* the request passed down the tower, and an answer is that range, short   *)
(* only at an end of the file.  Bytes in memory stay as long as they are.  *)
(***************************************************************************)
PassedDown ==
  /\ bottom \in {"fd", "memory"}
  /\ tower \in Seq(AnyView) /\ asked \in Promise!Requests
  /\ call = Through(tower, asked)

AnswerIsRange ==
  status = "ok" =>
    /\ output = Promise!FileBytes(call.offset, Len(output))
    /\ Len(output) < Wanted => shortest <= call.offset + Len(output)

MemoryStays == bottom = "memory" => size = fileLen /\ shortest = fileLen /\ done = 0

VInv == IInv /\ PassedDown /\ AnswerIsRange /\ MemoryStays

LEMMA VFacts ==
  ASSUME VInv
  PROVE  /\ size \in Nat /\ fileLen \in Nat /\ shortest \in Nat /\ shortest <= fileLen
         /\ size \in 0 .. MaxLen /\ fileLen \in 0 .. MaxLen /\ MaxLen \in Nat
         /\ call \in Promise!Requests /\ call.offset \in Nat /\ call.length \in Nat
         /\ Wanted \in Nat /\ done \in Nat /\ Len(output) \in Nat
<1>1. TypeOK /\ shortest <= fileLen /\ MaxLen \in Nat /\ MaxOffset \in Nat
  BY FdAssumption DEF VInv, IInv
<1>2. /\ size \in Nat /\ fileLen \in Nat /\ shortest \in Nat
      /\ size \in 0 .. MaxLen /\ fileLen \in 0 .. MaxLen
  BY <1>1 DEF TypeOK
<1>3. call \in Promise!Requests /\ call.offset \in Nat /\ call.length \in Nat
  BY <1>1 DEF TypeOK, Promise!Requests
<1>4. Wanted \in Nat
  BY <1>1, WantedFits
<1>5. Len(output) \in Nat /\ done \in Nat
  BY <1>1, LenProperties DEF TypeOK
<1>. QED
  BY <1>1, <1>2, <1>3, <1>4, <1>5

LEMMA ViewInitEstablishes == ViewInit => VInv
<1>. SUFFICES ASSUME ViewInit PROVE VInv
  OBVIOUS
<1>1. IInv /\ status = "reading" /\ size = fileLen /\ shortest = fileLen /\ done = 0
  BY InitEstablishes DEF ViewInit, Init
<1>2. PICK n \in 0 .. MaxDepth : tower \in [1 .. n -> Views]
  BY DEF ViewInit
<1>3. tower \in [1 .. n -> AnyView] /\ n \in Nat
  BY <1>2, ViewsAssumption DEF AnyView
<1>4. tower \in Seq(AnyView)
  BY <1>3, FunctionIsSeq
<1>5. PassedDown
  BY <1>4 DEF ViewInit, PassedDown
<1>. QED
  BY <1>1, <1>5 DEF VInv, AnswerIsRange, MemoryStays

(* MemorySource::read gives what is wanted, or refuses. *)
LEMMA MemoryGives ==
  ASSUME VInv, ReadMemory
  PROVE  /\ status = "reading"
         /\ UNCHANGED << fileLen, size, call, shortest, done, signals, bottom, tower, asked >>
         /\ \/ /\ call.offset > MaxPosition
               /\ status' = "outOfRange" /\ output' = output
            \/ /\ status' = "ok"
               /\ output' = Promise!FileBytes(call.offset, Wanted)
<1>. DEFINE stop == Min({call.offset + call.length, fileLen})
<1>1. /\ status = "reading" /\ bottom = "memory"
      /\ UNCHANGED << fileLen, size, call, shortest, done, signals, bottom, tower, asked >>
  BY DEF ReadMemory, Same
<1>2. /\ fileLen \in Nat /\ size = fileLen /\ call.offset \in Nat /\ call.length \in Nat
  BY <1>1, VFacts DEF VInv, MemoryStays
<1>3. stop = IF call.offset + call.length <= fileLen THEN call.offset + call.length ELSE fileLen
  <2>1. call.offset + call.length \in Nat
    BY <1>2
  <2>. QED
    BY <1>2, <2>1, MinOfPair
<1>4. Wanted = IF call.offset >= fileLen THEN 0
               ELSE IF fileLen - call.offset < call.length THEN fileLen - call.offset
               ELSE call.length
  BY <1>2 DEF Wanted, Promise!Actual
<1>5. CASE call.offset > MaxPosition
  BY <1>1, <1>5 DEF ReadMemory
<1>6. CASE ~ (call.offset > MaxPosition)
  <2>1. /\ status' = "ok"
        /\ output' = IF call.offset > fileLen THEN << >>
                     ELSE [k \in 1 .. stop - call.offset |-> call.offset + k - 1]
    BY <1>6 DEF ReadMemory
  <2>. HIDE DEF stop
  <2>2. CASE call.offset > fileLen
    <3>1. Wanted = 0 /\ output' = << >>
      BY <1>2, <1>4, <2>1, <2>2
    <3>2. << >> = [k \in 1 .. 0 |-> call.offset + k - 1]
      OBVIOUS
    <3>. QED
      BY <1>1, <2>1, <3>1, <3>2 DEF Promise!FileBytes
  <2>3. CASE ~ (call.offset > fileLen)
    <3>1. stop - call.offset = Wanted
      BY <1>2, <1>3, <1>4, <2>3
    <3>2. output' = [k \in 1 .. Wanted |-> call.offset + k - 1]
      BY <2>1, <2>3, <3>1
    <3>. QED
      BY <1>1, <2>1, <3>2 DEF Promise!FileBytes
  <2>. QED
    BY <2>2, <2>3
<1>. QED
  BY <1>5, <1>6

(* The bytes of a range in the source are a sequence. *)
LEMMA RangeIsSeq ==
  ASSUME TypeOK
  PROVE  /\ Promise!FileBytes(call.offset, Wanted) \in Seq(Blank .. MaxLen)
         /\ Len(Promise!FileBytes(call.offset, Wanted)) = Wanted
<1>1. Wanted \in Nat /\ (Wanted > 0 => call.offset + Wanted <= size)
  BY WantedFits
<1>2. size \in 0 .. MaxLen /\ MaxLen \in Nat /\ call.offset \in Nat
  BY FdAssumption DEF TypeOK, Promise!Requests
<1>3. ASSUME NEW k \in 1 .. Wanted PROVE call.offset + k - 1 \in Blank .. MaxLen
  BY <1>1, <1>2 DEF Blank
<1>4. [k \in 1 .. Wanted |-> call.offset + k - 1] \in [1 .. Wanted -> Blank .. MaxLen]
  BY <1>3
<1>. QED
  BY <1>1, <1>4, FunctionIsSeq DEF Promise!FileBytes

LEMMA MemoryKeeps ==
  ASSUME VInv, ReadMemory
  PROVE  VInv'
<1>. USE MemoryGives
<1>1. /\ status = "reading" /\ bottom = "memory" /\ status' \in {"ok", "outOfRange"}
      /\ UNCHANGED << fileLen, size, call, shortest, done, signals, bottom, tower, asked >>
  BY DEF ReadMemory
<1>2. Wanted' = Wanted /\ Wanted \in Nat /\ done = 0 /\ IInv /\ TypeOK
  BY <1>1, VFacts DEF VInv, MemoryStays, Wanted, Promise!Actual, IInv
<1>3. /\ output' \in Seq(Blank .. MaxLen) /\ Len(output') <= Wanted
      /\ status' = "ok" => output' = Promise!FileBytes(call.offset, Wanted) /\ Len(output') = Wanted
  <2>1. CASE status' = "ok"
    <3>1. output' = Promise!FileBytes(call.offset, Wanted)
      BY <2>1
    <3>. QED
      BY <1>2, <3>1, RangeIsSeq
  <2>2. CASE status' # "ok"
    BY <1>2, <2>2 DEF TypeOK
  <2>. QED
    BY <2>1, <2>2
<1>4. Len(output') \in Nat
  BY <1>3, LenProperties
<1>5. TypeOK'
  BY <1>1, <1>2, <1>3, <1>4 DEF TypeOK
<1>6. IInv'
  BY <1>1, <1>2, <1>5 DEF IInv, ReadSoFar
<1>7. PassedDown'
  BY <1>1 DEF VInv, PassedDown
<1>8. AnswerIsRange'
  BY <1>1, <1>2, <1>3 DEF AnswerIsRange
<1>9. MemoryStays'
  BY <1>1 DEF VInv, MemoryStays
<1>. QED
  BY <1>6, <1>7, <1>8, <1>9 DEF VInv

(* A step of the file's loop keeps what is asked of it, and its answer is the range. *)
LEMMA FileKeeps ==
  ASSUME VInv, bottom = "fd", Progress \/ Resize \/ Interrupted \/ DeviceFails, Same
  PROVE  VInv'
<1>1. UNCHANGED << bottom, tower, asked >> /\ UNCHANGED << call, size >>
  BY DEF Same, Progress, Resize, Interrupted, DeviceFails, PositionTooLarge, Transfer, EndOfFile, Finish
<1>2. IInv /\ AnswerIsRange /\ PassedDown
  BY DEF VInv
<1>3. IInv'
  BY <1>2, StepKeeps DEF Next
<1>4. PassedDown'
  BY <1>1, <1>2 DEF PassedDown
<1>5. MemoryStays'
  BY <1>1 DEF MemoryStays
<1>6. Wanted' = Wanted /\ Wanted \in Nat /\ done \in Nat /\ call.offset \in Nat /\ Len(output) \in Nat
      /\ shortest \in Nat /\ fileLen \in Nat /\ shortest <= fileLen
  BY <1>1, VFacts DEF Wanted, Promise!Actual
<1>7. AnswerIsRange'
  <2>1. CASE status' # "ok"
    BY <2>1 DEF AnswerIsRange
  <2>2. CASE Resize /\ status' = "ok"
    <3>1. status = "ok" /\ output' = output
      BY <2>2 DEF Resize
    <3>2. shortest' <= shortest /\ shortest' \in Nat
      <4>1. TypeOK'
        BY <1>3 DEF IInv
      <4>2. fileLen' \in 0 .. MaxLen /\ shortest' = IF fileLen' < shortest THEN fileLen' ELSE shortest
        BY <2>2 DEF Resize
      <4>. QED
        BY <1>6, <4>2, FdAssumption
    <3>3. /\ output = Promise!FileBytes(call.offset, Len(output))
          /\ Len(output) < Wanted => shortest <= call.offset + Len(output)
      BY <1>2, <3>1 DEF AnswerIsRange
    <3>4. Len(output) < Wanted => shortest' <= call.offset + Len(output)
      BY <1>6, <3>2, <3>3
    <3>. QED
      BY <1>1, <1>6, <3>1, <3>3, <3>4 DEF AnswerIsRange
  <2>3. CASE EndOfFile
    <3>1. /\ status = "reading" /\ call.offset + done >= fileLen
          /\ output' = SubSeq(output, 1, done) /\ shortest' = shortest
      BY <2>3 DEF EndOfFile, InLoop, Position
    <3>2. output' = Promise!FileBytes(call.offset, done) /\ Len(output') = done
      BY <1>2, <3>1, CutIsTheRange, CutBuffer
    <3>3. shortest' <= call.offset + done
      BY <1>6, <3>1
    <3>. QED
      BY <1>1, <3>2, <3>3 DEF AnswerIsRange
  <2>4. CASE Finish
    <3>1. status = "reading" /\ done >= Wanted /\ output' = output
      BY <2>4 DEF Finish
    <3>2. Len(output) = Wanted /\ done <= Len(output)
      BY <1>2, <1>6, <3>1 DEF IInv, ReadSoFar, TypeOK
    <3>3. output' = Promise!FileBytes(call.offset, Wanted)
      BY <1>2, <1>6, <3>1, <3>2, BufferIsTheRange
    <3>4. ~ (Wanted < Wanted)
      BY <1>6
    <3>. QED
      BY <1>1, <1>6, <3>1, <3>2, <3>3, <3>4 DEF AnswerIsRange
  <2>5. CASE Transfer \/ Interrupted \/ DeviceFails \/ PositionTooLarge
    <3>1. status' # "ok"
      BY <2>5 DEF Transfer, Interrupted, DeviceFails, PositionTooLarge, InLoop
    <3>. QED
      BY <2>1, <3>1
  <2>. QED
    BY <2>1, <2>2, <2>3, <2>4, <2>5 DEF Progress
<1>. QED
  BY <1>3, <1>4, <1>5, <1>7 DEF VInv

(* The next range asked of the tower is passed down it before the bottom is read. *)
LEMMA ViewCallKeeps ==
  ASSUME VInv, ViewCall
  PROVE  VInv'
<1>. DEFINE c == Through(tower, asked')
<1>1. asked' \in Promise!Requests /\ Call(c) /\ UNCHANGED << bottom, tower >>
  BY DEF ViewCall
<1>2. IInv /\ PassedDown /\ MemoryStays
  BY DEF VInv
<1>3. c \in Promise!Requests
  BY <1>1, <1>2, ThroughIsRequest DEF PassedDown
<1>4. call' = c /\ status' = "reading" /\ done' = 0 /\ shortest' = fileLen /\ UNCHANGED << fileLen, size >>
  BY <1>1 DEF Call, Begin
<1>5. PassedDown'
  BY <1>1, <1>2, <1>4 DEF PassedDown
<1>6. MemoryStays'
  BY <1>1, <1>2, <1>4 DEF MemoryStays
<1>7. AnswerIsRange'
  BY <1>4 DEF AnswerIsRange
<1>8. IInv'
  <2>. HIDE DEF c
  <2>. QED
    BY <1>1, <1>2, <1>3, CallKeeps
<1>. QED
  BY <1>5, <1>6, <1>7, <1>8 DEF VInv

(* The invariant of the composition is inductive. *)
LEMMA ViewStepKeeps == VInv /\ [ViewNext]_viewVars => VInv'
<1>. SUFFICES ASSUME VInv, [ViewNext]_viewVars PROVE VInv'
  OBVIOUS
<1>1. CASE ReadMemory
  BY <1>1, MemoryKeeps
<1>2. CASE bottom = "fd" /\ (Progress \/ Resize \/ Interrupted \/ DeviceFails) /\ Same
  BY <1>2, FileKeeps
<1>3. CASE ViewCall
  BY <1>3, ViewCallKeeps
<1>4. CASE UNCHANGED viewVars
  <2>1. UNCHANGED fdVars /\ UNCHANGED << bottom, tower, asked >>
        /\ UNCHANGED << fileLen, size, call, shortest, output, done, status >>
    BY <1>4 DEF viewVars, fdVars
  <2>2. IInv'
    BY <2>1, StepKeeps DEF VInv
  <2>3. Wanted' = Wanted
    BY <2>1 DEF Wanted, Promise!Actual
  <2>. QED
    BY <2>1, <2>2, <2>3 DEF VInv, PassedDown, AnswerIsRange, MemoryStays
<1>. QED
  BY <1>1, <1>2, <1>3, <1>4 DEF ViewNext, ViewProgress

LEMMA IntervalSize ==
  ASSUME NEW first \in Nat, NEW n \in Nat
  PROVE  Cardinality(first .. first + n - 1) = n
<1>1. ASSUME NEW b \in Int
      PROVE  Cardinality(first .. b) = IF first > b THEN 0 ELSE b - first + 1
  <2>1. first \in Int
    OBVIOUS
  <2>. QED
    BY ONLY <2>1, <1>1, FS_Interval, Zenon
<1>2. first + n - 1 \in Int
  OBVIOUS
<1>3. Cardinality(first .. first + n - 1)
        = IF first > first + n - 1 THEN 0 ELSE first + n - 1 - first + 1
  BY <1>1, <1>2
<1>. QED
  BY <1>3

(* The bytes of the outermost view that are asked for and lie in every view are the first of the range. *)
LEMMA WantedBytes ==
  ASSUME Nested, NEW r, IsWindow(Len(tower), r)
  PROVE  LET wanted == { p \in asked.offset .. asked.offset + asked.length - 1 : InViews(p) }
         IN  Cardinality(wanted) = r.length
<1>. DEFINE a == asked.offset
            wanted == { p \in a .. a + asked.length - 1 : InViews(p) }
<1>1. a \in Nat /\ asked.length \in Nat /\ r.length \in Nat /\ r.length <= asked.length
  BY FdAssumption DEF Nested, IsWindow, Promise!Requests
<1>2. ASSUME NEW p \in a .. a + asked.length - 1 PROVE InViews(p) <=> p < a + r.length
  <2>1. DOMAIN tower = 1 .. Len(tower)
    BY DEF Nested
  <2>2. InViews(p) <=> InFirst(p, Len(tower))
    BY <2>1 DEF InViews, InFirst
  <2>. QED
    BY <2>2 DEF IsWindow
<1>. HIDE DEF a
<1>3. wanted = a .. a + r.length - 1
  BY <1>1, <1>2
<1>4. Cardinality(a .. a + r.length - 1) = r.length
  BY <1>1, IntervalSize
<1>. QED
  BY <1>3, <1>4 DEF a

LEMMA WindowIsRead == VInv => ReadsItsWindow
<1>. SUFFICES ASSUME VInv, status = "ok", EndsFit
              PROVE  LET wanted == { p \in asked.offset .. asked.offset + asked.length - 1 : InViews(p) }
                         at == Place(asked.offset, Len(tower))
                         n == Len(output)
                     IN  /\ output = [k \in 1 .. n |-> at + k - 1]
                         /\ n <= Cardinality(wanted)
                         /\ n < Cardinality(wanted) => Min({size, shortest}) <= at + n
  BY DEF ReadsItsWindow
<1>. DEFINE wanted == { p \in asked.offset .. asked.offset + asked.length - 1 : InViews(p) }
            at == Place(asked.offset, Len(tower))
            n == Len(output)
<1>1. TypeOK /\ PassedDown /\ AnswerIsRange
  BY DEF VInv, IInv
<1>2. /\ size \in Nat /\ shortest \in Nat /\ call.offset \in Nat /\ call.length \in Nat
      /\ Wanted \in Nat /\ n \in Nat
  BY VFacts
<1>3. Nested
  <2>1. tower \in Seq(AnyView) /\ DOMAIN tower = 1 .. Len(tower)
    BY <1>1 DEF PassedDown
  <2>. QED
    BY <1>1, <2>1 DEF Nested, EndsFit, PassedDown
<1>4. IsWindow(Len(tower), call)
  BY <1>1, <1>3, ThroughIsWindow DEF PassedDown
<1>5. Cardinality(wanted) = call.length
  BY <1>3, <1>4, WantedBytes
<1>6. at \in Nat /\ (call.length > 0 => call.offset = at)
  <2>1. Len(tower) \in 0 .. Len(tower) /\ asked.offset \in Nat
    BY <1>3, FdAssumption DEF Nested, Promise!Requests
  <2>2. Shift[Len(tower)] \in Nat
    BY <1>3, <2>1, ShiftIsTyped
  <2>. QED
    BY <1>4, <2>1, <2>2 DEF IsWindow, Place
<1>7. n <= Wanted
  BY <1>1 DEF TypeOK
<1>8. /\ Wanted <= call.length
      /\ Wanted < call.length => size <= call.offset + Wanted
  BY <1>2 DEF Wanted, Promise!Actual
<1>9. /\ output = [k \in 1 .. n |-> call.offset + k - 1]
      /\ n < Wanted => shortest <= call.offset + n
  BY <1>1 DEF AnswerIsRange, Promise!FileBytes
<1>. HIDE DEF wanted, at, n
<1>10. output = [k \in 1 .. n |-> at + k - 1]
  <2>1. CASE n = 0
    <3>1. 1 .. n = {}
      BY <2>1
    <3>. QED
      BY <1>9, <3>1
  <2>2. CASE n > 0
    BY <1>2, <1>6, <1>7, <1>8, <1>9, <2>2
  <2>. QED
    BY <1>2, <2>1, <2>2
<1>11. n < Cardinality(wanted) => Min({size, shortest}) <= at + n
  <2>. SUFFICES ASSUME n < call.length PROVE Min({size, shortest}) <= at + n
    BY <1>5
  <2>1. call.offset = at
    BY <1>2, <1>6
  <2>2. size <= at + n \/ shortest <= at + n
    BY <1>2, <1>7, <1>8, <1>9, <2>1
  <2>3. Min({size, shortest}) = IF size <= shortest THEN size ELSE shortest
    BY <1>2, MinOfPair
  <2>. QED
    BY <1>2, <1>6, <2>2, <2>3
<1>12. n <= Cardinality(wanted)
  BY <1>2, <1>5, <1>7, <1>8
<1>. QED
  BY <1>10, <1>11, <1>12 DEF wanted, at, n

(***************************************************************************)
(* Whatever views are nested, however deep, over a file that is read in    *)
(* parts and resized or over memory: the answer is the range asked of the  *)
(* outermost view, moved by the offsets of all of them, with every byte    *)
(* that lies in all the views and none that does not, short only at an end *)
(* of the bytes below.                                                     *)
(***************************************************************************)
THEOREM ViewsReadTheirWindow == ViewSpec => []ReadsItsWindow
<1>1. VInv => ReadsItsWindow
  BY WindowIsRead
<1> QED
  BY <1>1, ViewInitEstablishes, ViewStepKeeps, PTL DEF ViewSpec

(* The composition keeps the variables of the read in their ranges, too. *)
THEOREM ViewsAreTyped == ViewSpec => []TypeOK
<1>1. VInv => TypeOK
  BY DEF VInv, IInv
<1> QED
  BY <1>1, ViewInitEstablishes, ViewStepKeeps, PTL DEF ViewSpec

-----------------------------------------------------------------------------
(***************************************************************************)
(* The refinement.  Memory answers in one step, complete or outOfRange; a  *)
(* request to the tower is a request to the source at the bottom.          *)
(***************************************************************************)
LEMMA MemoryImplements ==
  ASSUME VInv, ReadMemory
  PROVE  Promise!RangeNext
<1>1. status = "reading" /\ UNCHANGED << fileLen, size, call, shortest >>
  BY MemoryGives
<1>2. Answer = Promise!Pending
  BY <1>1, Answers
<1>3. CASE call.offset > MaxPosition /\ status' = "outOfRange"
  <2>1. Answer' = Promise!Failed("outOfRange")
    BY <1>3 DEF Answer, Promise!Failed
  <2>. QED
    BY <1>1, <1>2, <1>3, <2>1 DEF Promise!AnswerError, Promise!RangeNext
<1>4. CASE status' = "ok" /\ output' = Promise!FileBytes(call.offset, Wanted)
  <2>1. Answer' = Promise!Ok(Promise!FileBytes(call.offset, Wanted))
    BY <1>4 DEF Answer, Promise!Ok
  <2>2. Wanted \in Nat /\ Wanted = Promise!Actual(call, size)
    BY VFacts DEF Wanted
  <2>3. Promise!Complete(call, size, Wanted) /\ Wanted \in 0 .. Promise!Actual(call, size)
    BY <2>2 DEF Promise!Complete
  <2>. QED
    BY <1>1, <1>2, <2>1, <2>3 DEF Promise!AnswerBytes, Promise!RangeNext
<1>. QED
  BY <1>3, <1>4, MemoryGives

LEMMA ViewStepImplements ==
  VInv /\ [ViewNext]_viewVars => [Promise!RangeNext]_(Promise!rangeVars)
<1>. SUFFICES ASSUME VInv, [ViewNext]_viewVars
              PROVE  [Promise!RangeNext]_(Promise!rangeVars)
  OBVIOUS
<1>1. CASE ReadMemory
  BY <1>1, MemoryImplements
<1>2. CASE Progress \/ Resize \/ Interrupted \/ DeviceFails
  BY <1>2, StepImplements DEF VInv, Next
<1>3. CASE ViewCall
  <2>1. asked' \in Promise!Requests /\ Call(Through(tower, asked')) /\ PassedDown
    BY <1>3 DEF ViewCall, VInv
  <2>2. Through(tower, asked') \in Promise!Requests
    BY <2>1, ThroughIsRequest DEF PassedDown
  <2>3. NextCall
    BY <2>1, <2>2 DEF NextCall
  <2>. QED
    BY <2>3, StepImplements DEF VInv, Next
<1>4. CASE UNCHANGED viewVars
  BY <1>4, StepImplements DEF VInv, viewVars
<1>. QED
  BY <1>1, <1>2, <1>3, <1>4 DEF ViewNext, ViewProgress

(***************************************************************************)
(* A tower of views over a file or over memory is a source that answers    *)
(* range reads in one step, like the file alone.                           *)
(***************************************************************************)
THEOREM ViewsImplementRangeRead == ViewSpec => IsRangeRead
<1>1. ViewInit => Promise!RangeInit
  <2>. SUFFICES ASSUME ViewInit PROVE Promise!RangeInit
    OBVIOUS
  <2>1. Init
    BY DEF ViewInit
  <2>. QED
    BY <2>1, Answers DEF Init, Promise!RangeInit
<1> QED
  BY <1>1, ViewInitEstablishes, ViewStepKeeps, ViewStepImplements, PTL
     DEF ViewSpec, IsRangeRead, Promise!RangeSpec

=============================================================================
