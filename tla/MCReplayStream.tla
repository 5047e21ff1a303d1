---------------------------- MODULE MCReplayStream ----------------------------
(***************************************************************************)
(* Instances of ReplayStream for TLC: periods of 3 frames of 4 units, a    *)
(* stage that goes into its third period, rates that divide the period     *)
(* evenly (6), that do not (4, 5) and at which nothing is sliced (3).      *)
(***************************************************************************)
EXTENDS ReplayStream

SmallRates == {3, 4, 5, 6}
===============================================================================
