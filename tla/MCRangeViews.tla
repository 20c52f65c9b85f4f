---------------------------- MODULE MCRangeViews ----------------------------
(***************************************************************************)
(* Model checking instance of RangeViews: up to two views inside, across   *)
(* and behind what they are views of, one with an offset out of a damaged  *)
(* header, over a file that is resized at will or over bytes in memory.    *)
(***************************************************************************)
EXTENDS RangeViews

MCViews ==
  { [offset |-> 0, size |-> 2], [offset |-> 1, size |-> 3], [offset |-> 2, size |-> 1],
    [offset |-> 4, size |-> 2] }
=============================================================================
