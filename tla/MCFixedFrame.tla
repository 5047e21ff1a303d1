----------------------------- MODULE MCFixedFrame -----------------------------
(***************************************************************************)
(* Instances of FixedFrame for TLC.  A frame is 2 time units at full speed *)
(* (2), 4 at half speed, 1 at double; a stall reaches past four frames at  *)
(* every speed.                                                            *)
(***************************************************************************)
EXTENDS FixedFrame

HalfAndFull == {1, 2}
===============================================================================
