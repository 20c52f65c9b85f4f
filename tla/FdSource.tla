------------------------------ MODULE FdSource ------------------------------
(***************************************************************************)
(* FdSource of native/src/bytesource.rs: a range read as a loop of pread   *)
(* calls, each of which may transfer part of what is left, be interrupted, *)
(* meet the end of the file or fail.  The size is the one the descriptor   *)
(* had when the source was made; the file may be resized between any two   *)
(* calls.                                                                  *)
(***************************************************************************)
EXTENDS Integers, Sequences

CONSTANTS
  MaxLen,       \* bound: the longest the file gets
  MaxOffset,    \* bound: the largest offset and length requested
  MaxPosition,  \* off_t::MAX
  MaxSignals    \* bound: how often one read is interrupted by a signal

ASSUME FdAssumption ==
  /\ MaxLen \in Nat /\ MaxOffset \in Nat /\ MaxPosition \in Nat
  /\ MaxSignals \in Nat

VARIABLES
  fileLen, size, call, shortest,  \* as in RangeSource
  output,   \* the buffer of Actual bytes, zeroed when the read begins
  done,     \* how many of them are read
  signals,  \* how often this read was interrupted
  status    \* "reading", "ok", "io" or "outOfRange"

fdVars == << fileLen, size, call, shortest, output, done, signals, status >>

(* What a caller has of a read; truncating the buffer to done is what an early end leaves. *)
Answer ==
  CASE status = "reading" -> [status |-> "pending", bytes |-> << >>]
    [] status = "ok" -> [status |-> "ok", bytes |-> output]
    [] OTHER -> [status |-> status, bytes |-> << >>]

Promise == INSTANCE RangeSource WITH answer <- Answer

Wanted == Promise!Actual(call, size)

(* A byte of the fresh buffer, told apart from every byte of the file. *)
Blank == -1
Fresh(n) == [k \in 1 .. n |-> Blank]

Begin(c) ==
  /\ call' = c
  /\ output' = Fresh(Promise!Actual(c, size))
  /\ done' = 0
  /\ signals' = 0
  /\ status' = "reading"

Init ==
  /\ fileLen \in 0 .. MaxLen
  /\ size = fileLen
  /\ shortest = fileLen
  /\ call \in Promise!Requests
  /\ output = Fresh(Wanted)
  /\ done = 0 /\ signals = 0
  /\ status = "reading"

(* Another application writes to the document. *)
Resize ==
  /\ fileLen' \in 0 .. MaxLen
  /\ shortest' = IF fileLen' < shortest THEN fileLen' ELSE shortest
  /\ UNCHANGED << size, call, output, done, signals, status >>

Position_Restarted == call.offset
Position == call.offset + done

Left_WholeBuffer == Wanted
Left == Wanted - done

InLoop == status = "reading" /\ done < Wanted

(* The position is not an off_t: no call is made. *)
PositionTooLarge ==
  /\ InLoop /\ Position > MaxPosition
  /\ status' = "outOfRange"
  /\ UNCHANGED << fileLen, size, call, shortest, output, done, signals >>

(* pread transfers n bytes, at most those left in the file and in the buffer. *)
Transfer ==
  /\ InLoop /\ Position <= MaxPosition
  /\ \E n \in 1 .. Left :
       /\ Position + n <= fileLen
       /\ output' = [k \in DOMAIN output |->
                       IF k \in done + 1 .. done + n THEN Position + k - done - 1 ELSE output[k]]
       /\ done' = done + n
  /\ UNCHANGED << fileLen, size, call, shortest, signals, status >>

Interrupted ==
  /\ InLoop /\ Position <= MaxPosition
  /\ signals < MaxSignals
  /\ signals' = signals + 1
  /\ UNCHANGED << fileLen, size, call, shortest, output, done, status >>

(* pread returns 0: the file is shorter than it was. *)
EndOfFile_Retries ==
  /\ InLoop /\ Position <= MaxPosition
  /\ Position >= fileLen
  /\ UNCHANGED fdVars

EndOfFile ==
  /\ InLoop /\ Position <= MaxPosition
  /\ Position >= fileLen
  /\ output' = SubSeq(output, 1, done)
  /\ status' = "ok"
  /\ UNCHANGED << fileLen, size, call, shortest, done, signals >>

DeviceFails ==
  /\ InLoop /\ Position <= MaxPosition
  /\ status' = "io"
  /\ UNCHANGED << fileLen, size, call, shortest, output, done, signals >>

(* The loop condition fails: the buffer is full, or nothing was asked for. *)
Finish ==
  /\ status = "reading" /\ done >= Wanted
  /\ status' = "ok"
  /\ UNCHANGED << fileLen, size, call, shortest, output, done, signals >>

(* The next range read of the same source. *)
Call(c) ==
  /\ status # "reading"
  /\ Begin(c)
  /\ shortest' = fileLen
  /\ UNCHANGED << fileLen, size >>

NextCall == \E c \in Promise!Requests : Call(c)

(* What the loop does when no signal and no fault of the device meets it. *)
Progress == PositionTooLarge \/ Transfer \/ EndOfFile \/ Finish

Next == Resize \/ Progress \/ Interrupted \/ DeviceFails \/ NextCall

(***************************************************************************)
(* The reading thread is scheduled and pread returns.  No fault of the     *)
(* device is assumed ever to end a read, and no resize to help it.         *)
(***************************************************************************)
Spec == Init /\ [][Next]_fdVars /\ WF_fdVars(Progress)

-----------------------------------------------------------------------------
(***************************************************************************)
(* Every variable stays in its range.                                      *)
(***************************************************************************)
TypeOK ==
  /\ fileLen \in 0 .. MaxLen /\ size \in 0 .. MaxLen /\ shortest \in 0 .. MaxLen
  /\ call \in Promise!Requests
  /\ output \in Seq(Blank .. MaxLen) /\ Len(output) <= Wanted
  /\ done \in 0 .. Len(output)
  /\ signals \in 0 .. MaxSignals
  /\ status \in {"reading", "ok", "io", "outOfRange"}

(***************************************************************************)
(* The loop of partial, interrupted and cut short preads is one atomic     *)
(* range read: no byte twice, none skipped, no zero of the fresh buffer    *)
(* handed out as content, and fewer bytes than asked for only at an end of *)
(* file.                                                                   *)
(***************************************************************************)
IsRangeRead == Promise!RangeSpec

(***************************************************************************)
(* However the file is resized meanwhile, a read that has begun ends: the  *)
(* retry after a signal and the retry after a partial transfer both make   *)
(* progress or meet the end.                                               *)
(***************************************************************************)
EveryReadEnds == (status = "reading") ~> (status # "reading")
=============================================================================
