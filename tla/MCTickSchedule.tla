---------------------------- MODULE MCTickSchedule ----------------------------
(***************************************************************************)
(* An instance of TickSchedule for TLC: periods of 3 frames of 4 units,    *)
(* rates from 3 to 7 (divisors and non-divisors of the period), rates      *)
(* asked for on both sides of the range, speeds from half to double and    *)
(* beyond.                                                                 *)
(***************************************************************************)
EXTENDS TickSchedule

SmallRates == {0, 2, 3, 4, 5, 7, 9}
SmallSpeeds == {0, 1, 3, 5}
SmallFrames == {0, 1, 2, 4}
===============================================================================
