---------------------------- MODULE MCKotlinRead ----------------------------
(***************************************************************************)
(* Model checking instance of KotlinRead: a document of up to MaxLen bytes *)
(* that is resized at will, and every request from negative ones to one    *)
(* past its end.                                                           *)
(***************************************************************************)
EXTENDS KotlinRead
=============================================================================
