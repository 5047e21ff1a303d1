---------------------------- MODULE MCFramePacing -----------------------------
(***************************************************************************)
(* An instance of FramePacing for TLC: two frames a period, an unsliced    *)
(* rate and one that cuts a frame into two ticks and the next into one,    *)
(* under a display that runs at neither; half slots of time, and a stall   *)
(* longer than the slack.                                                  *)
(***************************************************************************)
EXTENDS FramePacing

SmallRates == {2, 3}
SmallSpeeds == {1, 2}
SmallElapses == {0, 1, 2, 3, 24}
===============================================================================
