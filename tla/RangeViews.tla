----------------------------- MODULE RangeViews -----------------------------
(***************************************************************************)
(* The sources of native/src/bytesource.rs composed: views (SubSource)     *)
(* nested over a file (FdSource) or over bytes in memory (MemorySource).   *)
(* A range asked of the outermost view is narrowed by each view on its way *)
(* down, and what is left is read at the bottom.  MaxOffset stands for     *)
(* u64::MAX: the sum of a view's offset and a position is not checked and  *)
(* wraps in the release build that is shipped.                             *)
(***************************************************************************)
EXTENDS FdSource, FiniteSets, FiniteSetsExt

CONSTANTS
  Views,    \* the views there may be: [offset, size]
  MaxDepth  \* bound: how deep they are nested

ASSUME ViewsAssumption == Views \subseteq [offset : 0 .. MaxOffset, size : 0 .. MaxOffset]

VARIABLES
  bottom,  \* "fd" or "memory"
  tower,   \* the views, outermost first
  asked    \* the range asked of the outermost

viewVars == << fdVars, bottom, tower, asked >>

(* Both ends are clamped to the view, then moved by its offset; an empty range is not passed on. *)
Empty == [offset |-> 0, length |-> 0]

Narrowed_StartOnly(request, view) ==
  LET start == Min({request.offset, view.size})
  IN  IF request.length = 0 \/ start = view.size THEN Empty
      ELSE [offset |-> (view.offset + start) % (MaxOffset + 1), length |-> request.length]

Narrowed(request, view) ==
  LET start == Min({request.offset, view.size})
      stop == Min({start + request.length, view.size})
  IN  IF stop = start THEN Empty
      ELSE [offset |-> (view.offset + start) % (MaxOffset + 1), length |-> stop - start]

Through(views, request) ==
  LET down[d \in 0 .. Len(views)] ==
        IF d = 0 THEN request ELSE Narrowed(down[d - 1], views[d])
  IN  down[Len(views)]

ViewInit ==
  /\ bottom \in {"fd", "memory"}
  /\ tower \in UNION { [1 .. n -> Views] : n \in 0 .. MaxDepth }
  /\ asked \in Promise!Requests
  /\ call = Through(tower, asked)
  /\ Init
  /\ bottom = "memory" => fileLen <= MaxPosition

Same == UNCHANGED << bottom, tower, asked >>

(* MemorySource::read, whose positions are usizes. *)
ReadMemory ==
  /\ bottom = "memory" /\ status = "reading"
  /\ LET stop == Min({call.offset + call.length, fileLen})
     IN  IF call.offset > MaxPosition
         THEN status' = "outOfRange" /\ UNCHANGED output
         ELSE /\ status' = "ok"
              /\ output' = IF call.offset > fileLen THEN << >>
                           ELSE [k \in 1 .. stop - call.offset |-> call.offset + k - 1]
  /\ UNCHANGED << fileLen, size, call, shortest, done, signals >> /\ Same

ViewCall ==
  /\ asked' \in Promise!Requests
  /\ Call(Through(tower, asked'))
  /\ UNCHANGED << bottom, tower >>

ViewProgress == ReadMemory \/ (bottom = "fd" /\ Progress /\ Same)

ViewNext ==
  \/ ViewProgress
  \/ bottom = "fd" /\ (Resize \/ Interrupted \/ DeviceFails) /\ Same
  \/ ViewCall

(* As for FdSource alone: the reading thread is scheduled and pread returns. *)
ViewSpec == ViewInit /\ [][ViewNext]_viewVars /\ WF_viewVars(ViewProgress)

-----------------------------------------------------------------------------
(* Where byte p of the outermost view lies in what is below the first d views. *)
Shift == LET sum[d \in 0 .. Len(tower)] == IF d = 0 THEN 0 ELSE sum[d - 1] + tower[d].offset
         IN  sum
Place(p, d) == p + Shift[d]

InViews(p) == \A d \in DOMAIN tower : Place(p, d - 1) < tower[d].size

(* Every view ends at a position that is a u64. *)
EndsFit == \A d \in DOMAIN tower : tower[d].offset + tower[d].size <= MaxOffset

(***************************************************************************)
(* A range of nested views is the same range of the bytes at the bottom:   *)
(* nothing of a neighbour, nothing moved, and nothing left out but behind  *)
(* the end of the file, though each view knows only what the one above it  *)
(* left of the request and the file is read in parts and resized.  Views   *)
(* whose end is no u64, as a damaged header may ask for, are excepted:     *)
(* their sum wraps and they hand out bytes in front of themselves.         *)
(***************************************************************************)
ReadsItsWindow ==
  status = "ok" /\ EndsFit =>
    LET wanted == { p \in asked.offset .. asked.offset + asked.length - 1 : InViews(p) }
        at == Place(asked.offset, Len(tower))
        n == Len(output)
    IN  /\ output = [k \in 1 .. n |-> at + k - 1]
        /\ n <= Cardinality(wanted)
        /\ n < Cardinality(wanted) => Min({size, shortest}) <= at + n
=============================================================================
