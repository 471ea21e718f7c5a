----------------------------- MODULE MCDispDraw ------------------------------
(***************************************************************************)
(* DispDraw for TLC: modes of the same area, in which the shadow buffer is *)
(* kept, and one of another.                                               *)
(***************************************************************************)
EXTENDS DispDraw

SameArea == {<<3, 1>>, <<1, 3>>}
=============================================================================
